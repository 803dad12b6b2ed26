--------------------------- MODULE OutgoingProofs ---------------------------
(***************************************************************************)
(* Proofs about the outgoing queues for every number of connections,       *)
(* topics and workers, every capacity and every byte limit.                *)
(***************************************************************************)
EXTENDS Outgoing, FiniteSetTheorems, SequenceTheorems, WellFoundedInduction,
        TLAPS

-----------------------------------------------------------------------------
(***************************************************************************)
(* Permits.  The inductive invariant adds that a connection whose writer   *)
(* is not encoding has no job, so that taking a permit always makes a new  *)
(* holder and ending a job always removes one.                             *)
(***************************************************************************)
PoolType ==
    /\ pc \in [Conn -> {"check", "idle", "acquire", "take", "encoding",
                        "returned", "gone"}]
    /\ job \in [Conn -> {"none", "spawned", "running", "ended"}]
    /\ available \in Nat

JobOwned ==
    \A c \in Conn : pc[c] \notin {"encoding", "gone"} => job[c] = "none"

PoolInv == PoolType /\ JobOwned /\ PermitsConserved

Holds(c) == pc[c] = "take" \/ job[c] \in {"spawned", "running"}

LEMMA HoldersFinite == IsFiniteSet(Holders) /\ Cardinality(Holders) \in Nat
<1>1. Holders \subseteq Conn
  BY DEF Holders
<1>2. IsFiniteSet(Holders)
  BY <1>1, ConnAssumption, FS_Subset
<1> QED
  BY <1>2, FS_CardinalityType

(* One connection changes what it holds, the pool changes accordingly. *)
LEMMA HoldersChange ==
    ASSUME PoolInv, NEW c \in Conn,
           \A d \in Conn \ {c} : pc'[d] = pc[d] /\ job'[d] = job[d],
           \/ Holds(c)' = Holds(c) /\ available' = available
           \/ ~Holds(c) /\ Holds(c)' /\ available > 0
                /\ available' = available - 1
           \/ Holds(c) /\ ~Holds(c)' /\ available' = available + 1
    PROVE  PermitsConserved' /\ available' \in Nat
<1>1. IsFiniteSet(Holders) /\ Cardinality(Holders) \in Nat
  BY HoldersFinite
<1>2. available \in Nat /\ Workers \in Nat
      /\ available + Cardinality(Holders) = Workers
  BY LimitAssumption DEF PoolInv, PoolType, PermitsConserved
<1>3. CASE Holds(c)' = Holds(c) /\ available' = available
  <2>1. Holders' = Holders
    BY <1>3 DEF Holders, Holds
  <2> QED
    BY <2>1, <1>2, <1>3 DEF PermitsConserved
<1>4. CASE ~Holds(c) /\ Holds(c)' /\ available > 0
             /\ available' = available - 1
  <2>1. Holders' = Holders \cup {c} /\ c \notin Holders
    BY <1>4 DEF Holders, Holds
  <2>2. Cardinality(Holders') = Cardinality(Holders) + 1
    BY <2>1, <1>1, FS_AddElement
  <2> QED
    BY <2>2, <1>1, <1>2, <1>4 DEF PermitsConserved
<1>5. CASE Holds(c) /\ ~Holds(c)' /\ available' = available + 1
  <2>1. Holders' = Holders \ {c} /\ c \in Holders
    BY <1>5 DEF Holders, Holds
  <2>2. Cardinality(Holders') = Cardinality(Holders) - 1
    BY <2>1, <1>1, FS_RemoveElement
  <2> QED
    BY <2>2, <1>1, <1>2, <1>5 DEF PermitsConserved
<1> QED
  BY <1>3, <1>4, <1>5

LEMMA InitPool == Init => PoolInv
<1> SUFFICES ASSUME Init PROVE PoolInv
  OBVIOUS
<1>1. PoolType
  BY LimitAssumption DEF Init, PoolType
<1>2. JobOwned
  BY DEF Init, JobOwned
<1>3. Holders = {}
  BY DEF Init, Holders
<1>4. PermitsConserved
  BY <1>3, FS_EmptySet, LimitAssumption DEF Init, PermitsConserved
<1> QED
  BY <1>1, <1>2, <1>4 DEF PoolInv

(* Steps that touch neither the writer, its job nor the pool. *)
LEMMA PoolUntouched ==
    ASSUME PoolInv, pc' = pc, job' = job, available' = available
    PROVE  PoolInv'
BY DEF PoolInv, PoolType, JobOwned, PermitsConserved, Holders

LEMMA NextPool == PoolInv /\ [Next]_vars => PoolInv'
<1> SUFFICES ASSUME PoolInv, [Next]_vars PROVE PoolInv'
  OBVIOUS
<1> USE DEF PoolType, JobOwned
<1>1. ASSUME NEW c \in Conn, Sender(c) \/ Notify(c) PROVE PoolInv'
  <2>1. UNCHANGED <<receiverVars, poolVars>>
    <3>1. ASSUME NEW t, NEW limit, NEW bytes, NEW encode,
                 EnqueueTopic(c, t, limit, bytes, encode)
          PROVE  UNCHANGED <<receiverVars, poolVars>>
      BY <3>1 DEF EnqueueTopic
    <3>2. ASSUME NEW bytes, NEW encode, EnqueueControl(c, bytes, encode)
          PROVE  UNCHANGED <<receiverVars, poolVars>>
      BY <3>2 DEF EnqueueControl
    <3>3. ASSUME DropOutput(c) \/ Notify(c)
          PROVE  UNCHANGED <<receiverVars, poolVars>>
      BY <3>3 DEF DropOutput, Notify
    <3> QED
      BY <1>1, <3>1, <3>2, <3>3 DEF Sender
  <2> QED
    BY <2>1, PoolUntouched DEF receiverVars, poolVars
<1>2. ASSUME NEW c \in Conn, RecvCheck(c) \/ RecvWake(c) \/ AcquireClosed(c)
      PROVE  PoolInv'
  <2>1. /\ pc[c] \in {"check", "idle", "acquire"}
        /\ \E p \in {"returned", "acquire", "idle", "check"} :
              pc' = [pc EXCEPT ![c] = p]
        /\ job' = job /\ available' = available
    BY <1>2 DEF RecvCheck, RecvWake, AcquireClosed, poolVars
  <2>2. Holds(c)' = Holds(c)
    BY <2>1 DEF PoolInv, Holds
  <2>3. PermitsConserved'
    BY <2>1, <2>2, HoldersChange DEF PoolInv
  <2> QED
    BY <2>1, <2>3 DEF PoolInv
<1>3. ASSUME NEW c \in Conn, Acquire(c) PROVE PoolInv'
  <2>1. /\ pc[c] = "acquire" /\ pc' = [pc EXCEPT ![c] = "take"]
        /\ job' = job /\ available > 0 /\ available' = available - 1
    BY <1>3 DEF Acquire
  <2>2. ~Holds(c) /\ Holds(c)'
    BY <2>1 DEF PoolInv, Holds
  <2>3. PermitsConserved' /\ available' \in Nat
    BY <2>1, <2>2, HoldersChange DEF PoolInv
  <2> QED
    BY <2>1, <2>3 DEF PoolInv
<1>4. ASSUME NEW c \in Conn, TakeControl(c) \/ TakeTopic(c) PROVE PoolInv'
  <2>1. PICK b : pc[c] = "take" /\ Start(c, b)
    BY <1>4 DEF TakeControl, TakeTopic
  <2>2. CASE b.encode
    <3>1. /\ pc' = [pc EXCEPT ![c] = "encoding"]
          /\ job' = [job EXCEPT ![c] = "spawned"]
          /\ available' = available
      BY <2>1, <2>2 DEF Start
    <3>2. Holds(c) /\ Holds(c)'
      BY <2>1, <3>1 DEF PoolInv, Holds
    <3>3. PermitsConserved'
      BY <3>1, <3>2, HoldersChange DEF PoolInv
    <3> QED
      BY <3>1, <3>3 DEF PoolInv
  <2>3. CASE ~b.encode
    <3>1. /\ pc' = [pc EXCEPT ![c] = "encoding"]
          /\ job' = [job EXCEPT ![c] = "ended"]
          /\ available' = available + 1
      BY <2>1, <2>3 DEF Start
    <3>2. Holds(c) /\ ~Holds(c)'
      BY <2>1, <3>1 DEF PoolInv, Holds
    <3>3. PermitsConserved' /\ available' \in Nat
      BY <3>1, <3>2, HoldersChange DEF PoolInv
    <3> QED
      BY <3>1, <3>3 DEF PoolInv
  <2> QED
    BY <2>2, <2>3
<1>5. ASSUME NEW c \in Conn, TakeNothing(c) PROVE PoolInv'
  <2>1. /\ pc[c] = "take"
        /\ \E p \in {"returned", "check"} : pc' = [pc EXCEPT ![c] = p]
        /\ job' = job /\ available' = available + 1
    BY <1>5 DEF TakeNothing
  <2>2. Holds(c) /\ ~Holds(c)'
    BY <2>1 DEF PoolInv, Holds
  <2>3. PermitsConserved' /\ available' \in Nat
    BY <2>1, <2>2, HoldersChange DEF PoolInv
  <2> QED
    BY <2>1, <2>3 DEF PoolInv
<1>6. ASSUME NEW c \in Conn, Job(c) PROVE PoolInv'
  <2>1. pc' = pc /\ job[c] \in {"spawned", "running"} /\ Holds(c)
    BY <1>6 DEF Job, JobCheck, JobEnd, Holds
  <2>2. CASE /\ job' = [job EXCEPT ![c] = "running"]
             /\ available' = available
    <3>1. Holds(c)'
      BY <2>2 DEF PoolInv, Holds
    <3>2. PermitsConserved'
      BY <2>1, <2>2, <3>1, HoldersChange DEF PoolInv
    <3> QED
      BY <2>1, <2>2, <3>2 DEF PoolInv
  <2>3. CASE /\ job' = [job EXCEPT ![c] = "ended"]
             /\ available' = available + 1
    <3>1. ~Holds(c)'
      BY <2>1, <2>3 DEF PoolInv, Holds
    <3>2. PermitsConserved' /\ available' \in Nat
      BY <2>1, <2>3, <3>1, HoldersChange DEF PoolInv
    <3> QED
      BY <2>1, <2>3, <3>2 DEF PoolInv
  <2> QED
    BY <1>6, <2>2, <2>3 DEF Job, JobCheck, JobEnd
<1>7. ASSUME NEW c \in Conn, Finish(c) PROVE PoolInv'
  <2>1. /\ pc[c] = "encoding" /\ job[c] = "ended"
        /\ pc' = [pc EXCEPT ![c] = "check"]
        /\ job' = [job EXCEPT ![c] = "none"]
        /\ available' = available
    BY <1>7 DEF Finish, poolVars
  <2>2. Holds(c)' = Holds(c)
    BY <2>1 DEF PoolInv, Holds
  <2>3. PermitsConserved'
    BY <2>1, <2>2, HoldersChange DEF PoolInv
  <2> QED
    BY <2>1, <2>3 DEF PoolInv
<1>8. ASSUME NEW c \in Conn, DropReceiver(c) PROVE PoolInv'
  <2>1. /\ pc[c] # "take" /\ pc' = [pc EXCEPT ![c] = "gone"]
        /\ job' = job /\ available' = available
    BY <1>8 DEF DropReceiver
  <2>2. Holds(c)' = Holds(c)
    BY <2>1 DEF PoolInv, Holds
  <2>3. PermitsConserved'
    BY <2>1, <2>2, HoldersChange DEF PoolInv
  <2> QED
    BY <2>1, <2>3 DEF PoolInv
<1>9. CASE UNCHANGED vars
  BY <1>9, PoolUntouched DEF vars, receiverVars, poolVars
<1> QED
  BY <1>1, <1>2, <1>3, <1>4, <1>5, <1>6, <1>7, <1>8, <1>9 DEF Next, Recv

(* However many connections share the pool and in whatever order they are  *)
(* closed, canceled and dropped, permits are neither lost nor duplicated.  *)
THEOREM PermitConservation == Spec => []PermitsConserved
<1>1. PoolInv => PermitsConserved
  BY DEF PoolInv
<1> QED
  BY <1>1, InitPool, NextPool, PTL DEF Spec

-----------------------------------------------------------------------------
(***************************************************************************)
(* Wakeups and closing.  WakeupPending is inductive once the notification  *)
(* state is typed.  Every action changes the fields of one connection.     *)
(***************************************************************************)
WakeType ==
    /\ topics = [c \in Conn |-> topics[c]]
    /\ control = [c \in Conn |-> control[c]]
    /\ topicGot = [c \in Conn |-> topicGot[c]]
    /\ controlGot = [c \in Conn |-> controlGot[c]]
    /\ closeReason = [c \in Conn |-> closeReason[c]]
    /\ senderClosed \in [Conn -> BOOLEAN]
    /\ receiverClosed \in [Conn -> BOOLEAN]
    /\ notifying \in [Conn -> {<< >>, <<"ready">>, <<"ready", "closed">>,
                               <<"closed">>}]
    /\ readyNote \in [Conn -> BOOLEAN]
    /\ closedNote \in [Conn -> BOOLEAN]
    /\ pc = [c \in Conn |-> pc[c]]

WakeOK(c) ==
    /\ (pc[c] = "idle" /\ (Pending(c) \/ senderClosed[c])) =>
          readyNote[c] \/ Contains(notifying[c], "ready")
    /\ (pc[c] = "acquire" /\ senderClosed[c]) =>
          closedNote[c] \/ Contains(notifying[c], "closed")

WakeInv == WakeType /\ \A c \in Conn : WakeOK(c)

(* The fields of d that matter here are unchanged. *)
Same(d) ==
    /\ topics'[d] = topics[d] /\ control'[d] = control[d]
    /\ senderClosed'[d] = senderClosed[d]
    /\ receiverClosed'[d] = receiverClosed[d]
    /\ notifying'[d] = notifying[d]
    /\ readyNote'[d] = readyNote[d] /\ closedNote'[d] = closedNote[d]
    /\ pc'[d] = pc[d]
    /\ topicGot'[d] = topicGot[d] /\ controlGot'[d] = controlGot[d]
    /\ closeReason'[d] = closeReason[d]

LEMMA NotifyingFacts ==
    /\ Contains(<<"ready">>, "ready")
    /\ Contains(<<"ready", "closed">>, "ready")
    /\ Contains(<<"ready", "closed">>, "closed")
    /\ Contains(<<"closed">>, "closed")
    /\ ~Contains(<<"closed">>, "ready")
    /\ ~Contains(<<"ready">>, "closed")
    /\ \A x : ~Contains(<< >>, x)
    /\ Tail(<<"ready">>) = << >> /\ Tail(<<"closed">>) = << >>
    /\ Tail(<<"ready", "closed">>) = <<"closed">>
    /\ Head(<<"ready">>) = "ready" /\ Head(<<"closed">>) = "closed"
    /\ Head(<<"ready", "closed">>) = "ready"
BY DEF Contains

LEMMA SameWake ==
    ASSUME NEW d, Same(d), WakeOK(d) PROVE WakeOK(d)'
BY DEF Same, WakeOK, Pending

(* A step of the ROS worker on connection c. *)
LEMMA SenderStep ==
    ASSUME WakeInv, NEW c \in Conn, Sender(c) \/ Notify(c)
    PROVE  /\ WakeType'
           /\ \A d \in Conn \ {c} : Same(d)
           /\ WakeOK(c)'
           /\ UNCHANGED <<gotVars, pc, receiverClosed>>
           /\ senderClosed[c] => senderClosed'[c]
           /\ Closed(c) => UNCHANGED closeReason
<1> USE DEF WakeInv, WakeType, Same, gotVars, closeVars, noteVars,
            receiverVars, Closed
<1>1. ASSUME NEW t, NEW limit, NEW bytes, NEW encode,
             EnqueueTopic(c, t, limit, bytes, encode)
      PROVE  /\ WakeType' /\ (\A d \in Conn \ {c} : Same(d)) /\ WakeOK(c)'
             /\ UNCHANGED <<gotVars, pc, receiverClosed>>
             /\ senderClosed[c] => senderClosed'[c]
             /\ Closed(c) => UNCHANGED closeReason
  <2>1. PICK q : topics' = [topics EXCEPT ![c] = q]
    BY <1>1 DEF EnqueueTopic
  <2>2. /\ UNCHANGED <<control, senderClosed, receiverClosed, closeReason,
                       readyNote, closedNote, pc, topicGot, controlGot>>
        /\ notifying' = [notifying EXCEPT ![c] = <<"ready">>]
        /\ ~senderClosed[c] /\ ~receiverClosed[c]
    BY <1>1 DEF EnqueueTopic
  <2> QED
    BY <2>1, <2>2, NotifyingFacts DEF WakeOK
<1>2. ASSUME NEW bytes, NEW encode, EnqueueControl(c, bytes, encode)
      PROVE  /\ WakeType' /\ (\A d \in Conn \ {c} : Same(d)) /\ WakeOK(c)'
             /\ UNCHANGED <<gotVars, pc, receiverClosed>>
             /\ senderClosed[c] => senderClosed'[c]
             /\ Closed(c) => UNCHANGED closeReason
  <2>1. /\ UNCHANGED <<receiverClosed, readyNote, closedNote, pc, topicGot,
                       controlGot>>
        /\ ~senderClosed[c] /\ ~receiverClosed[c]
    BY <1>2 DEF EnqueueControl
  <2>2. CASE ControlFits(c, bytes)
    <3>1. PICK q : control' = [control EXCEPT ![c] = q]
      BY <1>2, <2>2 DEF EnqueueControl
    <3>2. /\ UNCHANGED <<topics, senderClosed, closeReason>>
          /\ notifying' = [notifying EXCEPT ![c] = <<"ready">>]
      BY <1>2, <2>2 DEF EnqueueControl
    <3> QED
      BY <2>1, <3>1, <3>2, NotifyingFacts DEF WakeOK
  <2>3. CASE ~ControlFits(c, bytes)
    <3>1. /\ closeReason' = [closeReason EXCEPT ![c] = "full"]
          /\ senderClosed' = [senderClosed EXCEPT ![c] = TRUE]
          /\ topics' = [topics EXCEPT ![c] = << >>]
          /\ control' = [control EXCEPT ![c] = << >>]
          /\ notifying' = [notifying EXCEPT ![c] = <<"ready", "closed">>]
      BY <1>2, <2>3 DEF EnqueueControl, ClearLanes
    <3> QED
      BY <2>1, <3>1, NotifyingFacts DEF WakeOK
  <2> QED
    BY <2>2, <2>3
<1>3. ASSUME DropOutput(c)
      PROVE  /\ WakeType' /\ (\A d \in Conn \ {c} : Same(d)) /\ WakeOK(c)'
             /\ UNCHANGED <<gotVars, pc, receiverClosed>>
             /\ senderClosed[c] => senderClosed'[c]
             /\ Closed(c) => UNCHANGED closeReason
  BY <1>3, NotifyingFacts DEF DropOutput, ClearLanes, WakeOK
<1>4. ASSUME Notify(c)
      PROVE  /\ WakeType' /\ (\A d \in Conn \ {c} : Same(d)) /\ WakeOK(c)'
             /\ UNCHANGED <<gotVars, pc, receiverClosed>>
             /\ senderClosed[c] => senderClosed'[c]
             /\ Closed(c) => UNCHANGED closeReason
  <2>1. /\ UNCHANGED <<topics, control, senderClosed, receiverClosed,
                       closeReason, pc, topicGot, controlGot>>
        /\ notifying' = [notifying EXCEPT ![c] = Tail(notifying[c])]
        /\ notifying[c] \in {<<"ready">>, <<"ready", "closed">>, <<"closed">>}
    BY <1>4 DEF Notify, queueVars
  <2>2. CASE Head(notifying[c]) = "ready"
    <3>1. readyNote' = [readyNote EXCEPT ![c] = TRUE] /\ UNCHANGED closedNote
      BY <1>4, <2>2 DEF Notify
    <3> QED
      BY <2>1, <2>2, <3>1, NotifyingFacts DEF WakeOK, Pending
  <2>3. CASE Head(notifying[c]) # "ready"
    <3>1. closedNote' = [closedNote EXCEPT ![c] = TRUE] /\ UNCHANGED readyNote
      BY <1>4, <2>3 DEF Notify
    <3>2. notifying[c] = <<"closed">>
      BY <2>1, <2>3, NotifyingFacts
    <3> QED
      BY <2>1, <3>1, <3>2, NotifyingFacts DEF WakeOK, Pending
  <2> QED
    BY <2>2, <2>3
<1> QED
  BY <1>1, <1>2, <1>3, <1>4 DEF Sender

(* A step of the writer of connection c, of its job or of its session. *)
LEMMA ReceiverStep ==
    ASSUME WakeInv, NEW c \in Conn, Recv(c) \/ Job(c) \/ DropReceiver(c)
    PROVE  /\ WakeType'
           /\ \A d \in Conn \ {c} : Same(d)
           /\ WakeOK(c)'
           /\ Closed(c) => Closed(c)' /\ UNCHANGED gotVars
           /\ senderClosed[c] => senderClosed'[c] /\ UNCHANGED closeReason
<1> USE DEF WakeInv, WakeType, Same, gotVars, closeVars, noteVars, queueVars,
            senderVars, Closed
<1> DEFINE Goal == /\ WakeType' /\ (\A d \in Conn \ {c} : Same(d)) /\ WakeOK(c)'
                   /\ Closed(c) => Closed(c)' /\ UNCHANGED gotVars
                   /\ senderClosed[c] =>
                        senderClosed'[c] /\ UNCHANGED closeReason
<1>1. ASSUME RecvCheck(c) PROVE Goal
  BY <1>1 DEF RecvCheck, WakeOK, Pending
<1>2. ASSUME RecvWake(c) PROVE Goal
  BY <1>2 DEF RecvWake, WakeOK
<1>3. ASSUME Acquire(c) PROVE Goal
  BY <1>3 DEF Acquire, WakeOK
<1>4. ASSUME AcquireClosed(c) PROVE Goal
  BY <1>4 DEF AcquireClosed, WakeOK
<1>5. ASSUME TakeControl(c) PROVE Goal
  <2>1. /\ \E q : control' = [control EXCEPT ![c] = q]
        /\ pc' = [pc EXCEPT ![c] = "encoding"]
        /\ UNCHANGED <<topics, senderClosed, receiverClosed, closeReason,
                       notifying, readyNote, closedNote, topicGot, controlGot>>
    BY <1>5 DEF TakeControl, Start
  <2> QED
    BY <2>1 DEF WakeOK
<1>6. ASSUME TakeTopic(c) PROVE Goal
  <2>1. /\ \E q : topics' = [topics EXCEPT ![c] = q]
        /\ pc' = [pc EXCEPT ![c] = "encoding"]
        /\ UNCHANGED <<control, senderClosed, receiverClosed, closeReason,
                       notifying, readyNote, closedNote, topicGot, controlGot>>
    BY <1>6 DEF TakeTopic, Start
  <2> QED
    BY <2>1 DEF WakeOK
<1>7. ASSUME TakeNothing(c) PROVE Goal
  BY <1>7 DEF TakeNothing, WakeOK
<1>8. ASSUME Finish(c) PROVE Goal
  <2>1. /\ pc' = [pc EXCEPT ![c] = "check"]
        /\ UNCHANGED <<notifying, readyNote, closedNote, receiverClosed>>
    BY <1>8 DEF Finish, RejectTopic, RejectControl
  <2>2. WakeOK(c)'
    BY <2>1 DEF WakeOK
  <2>3. CASE Closed(c)
    <3>1. UNCHANGED <<queueVars, closeVars, gotVars>>
      BY <1>8, <2>3 DEF Finish, Discards
    <3> QED
      BY <2>1, <2>2, <3>1
  <2>4. CASE ~Closed(c) /\ Deliver(c) /\ UNCHANGED <<queueVars, closeVars>>
    <3>1. \E g : \/ topicGot' = [topicGot EXCEPT ![c] = g]
                      /\ UNCHANGED controlGot
                 \/ controlGot' = [controlGot EXCEPT ![c] = g]
                      /\ UNCHANGED topicGot
      BY <2>4 DEF Deliver
    <3> QED
      BY <2>1, <2>2, <2>4, <3>1
  <2>5. CASE ~Closed(c) /\ RejectTopic(c)
    BY <2>1, <2>2, <2>5 DEF RejectTopic
  <2>6. CASE ~Closed(c) /\ RejectControl(c)
    <3>1. /\ \E r : closeReason' = [closeReason EXCEPT ![c] = r]
          /\ senderClosed' = [senderClosed EXCEPT ![c] = TRUE]
          /\ topics' = [topics EXCEPT ![c] = << >>]
          /\ control' = [control EXCEPT ![c] = << >>]
          /\ UNCHANGED gotVars
      BY <2>6 DEF RejectControl, ClearLanes
    <3> QED
      BY <2>1, <2>2, <2>6, <3>1
  <2> QED
    BY <1>8, <2>3, <2>4, <2>5, <2>6 DEF Finish, Discards
<1>9. ASSUME Job(c) PROVE Goal
  <2>1. UNCHANGED <<queueVars, closeVars, senderVars, noteVars, pc, gotVars>>
    BY <1>9 DEF Job, JobCheck, JobEnd
  <2> QED
    BY <2>1 DEF WakeOK, Pending
<1>10. ASSUME DropReceiver(c) PROVE Goal
  BY <1>10 DEF DropReceiver, WakeOK
<1> QED
  BY <1>1, <1>2, <1>3, <1>4, <1>5, <1>6, <1>7, <1>8, <1>9, <1>10 DEF Recv

LEMMA InitWake == Init => WakeInv
BY DEF Init, WakeInv, WakeType, WakeOK

LEMMA NextWake == WakeInv /\ [Next]_vars => WakeInv'
<1> SUFFICES ASSUME WakeInv, [Next]_vars PROVE WakeInv'
  OBVIOUS
<1>1. ASSUME NEW c \in Conn, Sender(c) \/ Notify(c) PROVE WakeInv'
  BY <1>1, SenderStep, SameWake DEF WakeInv
<1>2. ASSUME NEW c \in Conn, Recv(c) \/ Job(c) \/ DropReceiver(c)
      PROVE  WakeInv'
  BY <1>2, ReceiverStep, SameWake DEF WakeInv
<1>3. CASE UNCHANGED vars
  BY <1>3 DEF vars, queueVars, closeVars, senderVars, noteVars, receiverVars,
              gotVars, WakeInv, WakeType, WakeOK, Pending
<1> QED
  BY <1>1, <1>2, <1>3 DEF Next

(* Writers that wait and the notifications for them, on every connection. *)
THEOREM WakeInvariance == Spec => []WakeInv
BY InitWake, NextWake, PTL DEF Spec

(* recv never sleeps through data or through the close, although the       *)
(* notifications are sent after the lock is released.                      *)
THEOREM NoLostWakeup == Spec => []WakeupPending
<1>1. WakeInv => WakeupPending
  BY DEF WakeInv, WakeOK, WakeupPending
<1> QED
  BY <1>1, WakeInvariance, PTL

(* After the close nothing is handed to the socket and the reason stays.   *)
THEOREM FinalClose == Spec => CloseIsFinal
<1> DEFINE Step ==
      \A c \in Conn : Closed(c) =>
          /\ Closed(c)'
          /\ UNCHANGED <<topicGot[c], controlGot[c]>>
          /\ senderClosed[c] => UNCHANGED closeReason[c]
<1>1. WakeInv /\ [Next]_vars => [Step]_vars
  <2> SUFFICES ASSUME WakeInv, Next PROVE Step
    OBVIOUS
  <2> SUFFICES ASSUME NEW c \in Conn, Closed(c)
               PROVE  /\ Closed(c)'
                      /\ UNCHANGED <<topicGot[c], controlGot[c]>>
                      /\ senderClosed[c] => UNCHANGED closeReason[c]
    OBVIOUS
  <2> DEFINE Kept(e) == /\ Closed(e)'
                        /\ UNCHANGED <<topicGot[e], controlGot[e]>>
                        /\ senderClosed[e] => UNCHANGED closeReason[e]
  <2>1. ASSUME NEW d \in Conn, d # c, Same(c) PROVE Kept(c)
    BY <2>1 DEF Same, Closed
  <2>2. ASSUME NEW d \in Conn, Sender(d) \/ Notify(d) PROVE Kept(c)
    BY <2>1, <2>2, SenderStep DEF gotVars, Closed
  <2>3. ASSUME NEW d \in Conn, Recv(d) \/ Job(d) \/ DropReceiver(d)
        PROVE  Kept(c)
    BY <2>1, <2>3, ReceiverStep DEF gotVars, Closed
  <2> QED
    BY <2>2, <2>3 DEF Next
<1> QED
  BY <1>1, WakeInvariance, PTL DEF Spec, CloseIsFinal

-----------------------------------------------------------------------------
(***************************************************************************)
(* Induction over the lanes.  The steps of a recursive function are        *)
(* counted by naturals, and a set of naturals that holds 0 and the         *)
(* successor of each of its members is all of Nat: otherwise it would miss *)
(* a least one.                                                            *)
(***************************************************************************)
LEMMA LeastNatural ==
    ASSUME NEW T, T \subseteq Nat, T # {}
    PROVE  /\ Min(T) \in T
           /\ \A y \in T : Min(T) <= y
<1>1. PICK R : R = OpToRel(<, Nat)
  OBVIOUS
<1>2. IsWellFoundedOn(R, Nat)
  BY <1>1, NatLessThanWellFounded
<1>3. R = {ss \in Nat \X Nat : ss[1] < ss[2]}
  BY <1>1 DEF OpToRel
<1>4. PICK x \in T : \A y \in T : ~ (<<y, x>> \in R)
  BY <1>2, WFMin
<1>5. \A y \in T : ~(y < x)
  BY <1>3, <1>4
<1>6. \A y \in T : x <= y
  BY <1>4, <1>5
<1> QED
  BY <1>6 DEF Min

LEMMA Induction ==
    ASSUME NEW T, 0 \in T, \A n \in Nat : n \in T => n + 1 \in T
    PROVE  Nat \subseteq T
<1> SUFFICES ASSUME Nat \ T # {} PROVE FALSE
  OBVIOUS
<1>1. PICK x \in Nat \ T : \A y \in Nat \ T : x <= y
  BY LeastNatural
<1>2. x - 1 \in Nat /\ x - 1 < x
  BY <1>1
<1>3. x - 1 \in T
  BY <1>1, <1>2
<1> QED
  BY <1>1, <1>2, <1>3

(* The queue without the batch at position i. *)
LEMMA RemoveAtFacts ==
    ASSUME NEW S, NEW q \in Seq(S), NEW i \in 1..Len(q)
    PROVE  /\ RemoveAt(q, i) \in Seq(S)
           /\ Len(RemoveAt(q, i)) = Len(q) - 1
           /\ \A j \in 1..(Len(q) - 1) :
                 RemoveAt(q, i)[j] = IF j < i THEN q[j] ELSE q[j + 1]
<1>1. PICK a, b : a = SubSeq(q, 1, i - 1) /\ b = SubSeq(q, i + 1, Len(q))
  OBVIOUS
<1>2. /\ a \in Seq(S) /\ Len(a) = i - 1
      /\ \A j \in 1..(i - 1) : a[j] = q[j]
  BY <1>1
<1>3. /\ b \in Seq(S) /\ Len(b) = Len(q) - i
      /\ \A j \in 1..(Len(q) - i) : b[j] = q[i + j]
  BY <1>1
<1>4. RemoveAt(q, i) = a \o b
  BY <1>1 DEF RemoveAt
<1>5. /\ a \o b \in Seq(S)
      /\ Len(a \o b) = Len(a) + Len(b)
      /\ \A j \in 1..(Len(a) + Len(b)) :
            (a \o b)[j] = IF j <= Len(a) THEN a[j] ELSE b[j - Len(a)]
  BY <1>2, <1>3, ConcatProperties
<1>6. Len(q) \in Nat /\ Len(a) + Len(b) = Len(q) - 1
  BY <1>2, <1>3
<1>7. ASSUME NEW j \in 1..(Len(q) - 1)
      PROVE  (a \o b)[j] = IF j < i THEN q[j] ELSE q[j + 1]
  <2>1. (a \o b)[j] = IF j <= i - 1 THEN a[j] ELSE b[j - (i - 1)]
    BY <1>2, <1>5, <1>6
  <2>2. CASE j < i
    <3>1. j \in 1..(i - 1)
      BY <2>2
    <3> QED
      BY <1>2, <2>1, <2>2, <3>1
  <2>3. CASE ~(j < i)
    <3>1. /\ j - (i - 1) \in 1..(Len(q) - i) /\ i + (j - (i - 1)) = j + 1
          /\ ~(j <= i - 1)
      BY <1>6, <2>3
    <3>2. b[j - (i - 1)] = q[j + 1]
      BY <1>3, <3>1
    <3> QED
      BY <2>1, <2>3, <3>1, <3>2
  <2> QED
    BY <2>2, <2>3
<1> QED
  BY <1>4, <1>5, <1>6, <1>7

LEMMA RemoveFirstType ==
    ASSUME NEW S, NEW q \in Seq(S), NEW e
    PROVE  RemoveFirst(q, e) \in Seq(S)
<1>1. CASE \E i \in 1..Len(q) : q[i] = e
  <2>1. PICK I : I = {i \in 1..Len(q) : q[i] = e}
    OBVIOUS
  <2>2. I \subseteq Nat /\ I # {}
    BY <1>1, <2>1
  <2>3. Min(I) \in I
    BY <2>2, LeastNatural
  <2>4. RemoveFirst(q, e) = RemoveAt(q, Min(I))
    BY <1>1, <2>1 DEF RemoveFirst, SelectInSeq
  <2> QED
    BY <2>1, <2>3, <2>4, RemoveAtFacts
<1>2. CASE ~ \E i \in 1..Len(q) : q[i] = e
  BY <1>2 DEF RemoveFirst
<1> QED
  BY <1>1, <1>2

(***************************************************************************)
(* The bytes of a lane.                                                    *)
(***************************************************************************)
IsSum(q, m, f) ==
    f = [n \in 0..m |-> IF n = 0 THEN 0 ELSE f[n - 1] + q[n].bytes]

LEMMA SumExists == ASSUME NEW q, NEW m \in Nat PROVE \E f : IsSum(q, m, f)
<1>1. PICK T : T = {k \in Nat : \E f : IsSum(q, k, f)}
  OBVIOUS
<1>2. 0 \in T
  <2>1. PICK f : f = [n \in 0..0 |-> 0]
    OBVIOUS
  <2>2. IsSum(q, 0, f)
    BY <2>1 DEF IsSum
  <2> QED
    BY <1>1, <2>2
<1>3. ASSUME NEW k \in Nat, k \in T PROVE k + 1 \in T
  <2>1. PICK f : IsSum(q, k, f)
    BY <1>1, <1>3
  <2>2. PICK g : g = [n \in 0..(k + 1) |->
                        IF n <= k THEN f[n] ELSE f[n - 1] + q[n].bytes]
    OBVIOUS
  <2>3. \A n \in 0..k : f[n] = IF n = 0 THEN 0 ELSE f[n - 1] + q[n].bytes
    BY <2>1 DEF IsSum
  <2>4. /\ \A n \in 0..k : g[n] = f[n]
        /\ g[k + 1] = f[k] + q[k + 1].bytes
        /\ g = [n \in 0..(k + 1) |-> g[n]]
    BY <2>2
  <2>5. \A n \in 0..(k + 1) :
           g[n] = IF n = 0 THEN 0 ELSE g[n - 1] + q[n].bytes
    <3>1. ASSUME NEW n \in 0..k
          PROVE  g[n] = IF n = 0 THEN 0 ELSE g[n - 1] + q[n].bytes
      <4>1. CASE n = 0
        BY <2>3, <2>4, <4>1
      <4>2. CASE n # 0
        <5>1. n - 1 \in 0..k
          BY <4>2
        <5>2. g[n] = f[n] /\ g[n - 1] = f[n - 1]
          BY <2>4, <5>1
        <5> QED
          BY <2>3, <4>2, <5>2
      <4> QED
        BY <4>1, <4>2
    <3>2. g[k + 1] = g[(k + 1) - 1] + q[k + 1].bytes /\ k + 1 # 0
      <4>1. (k + 1) - 1 = k /\ k \in 0..k
        OBVIOUS
      <4>2. g[(k + 1) - 1] = f[k]
        BY <2>4, <4>1
      <4> QED
        BY <2>4, <4>2
    <3> QED
      BY <3>1, <3>2
  <2>6. IsSum(q, k + 1, g)
    BY <2>4, <2>5 DEF IsSum
  <2> QED
    BY <1>1, <2>6
<1>4. Nat \subseteq T
  BY <1>2, <1>3, Induction
<1> QED
  BY <1>1, <1>4

LEMMA ElementBytes ==
    ASSUME NEW q \in Seq(Batch), NEW n \in 1..Len(q)
    PROVE  q[n] \in Batch /\ q[n].bytes \in Nat /\ q[n].id \in Nat
<1>1. q[n] \in Batch
  OBVIOUS
<1> QED
  BY <1>1 DEF Batch

(* The sum over the first batches of q, as Bytes computes it. *)
LEMMA BytesSum ==
    ASSUME NEW q \in Seq(Batch)
    PROVE  \E f : /\ Bytes(q) = f[Len(q)]
                  /\ f[0] = 0
                  /\ \A n \in 1..Len(q) : f[n] = f[n - 1] + q[n].bytes
                  /\ \A n \in 0..Len(q) : f[n] \in Nat
<1>1. \E f : IsSum(q, Len(q), f)
  BY SumExists
<1> DEFINE f == CHOOSE f : IsSum(q, Len(q), f)
<1>2. IsSum(q, Len(q), f)
  BY <1>1
<1>3. Bytes(q) = f[Len(q)]
  BY DEF Bytes, IsSum
<1> HIDE DEF f
<1>4. f[0] = 0 /\ \A n \in 1..Len(q) : f[n] = f[n - 1] + q[n].bytes
  BY <1>2 DEF IsSum
<1>5. \A n \in 1..Len(q) : q[n].bytes \in Nat
  BY ElementBytes
<1>6. PICK T : T = {n \in Nat : n <= Len(q) => f[n] \in Nat}
  OBVIOUS
<1>7. 0 \in T /\ \A n \in Nat : n \in T => n + 1 \in T
  BY <1>4, <1>5, <1>6
<1>8. Nat \subseteq T
  BY <1>7, Induction
<1>9. \A n \in 0..Len(q) : f[n] \in Nat
  BY <1>6, <1>8
<1> QED
  BY <1>3, <1>4, <1>9

LEMMA BytesType == ASSUME NEW q \in Seq(Batch) PROVE Bytes(q) \in Nat
BY BytesSum

LEMMA BytesEmpty == Bytes(<< >>) = 0
<1>1. << >> \in Seq(Batch) /\ Len(<< >>) = 0
  OBVIOUS
<1> QED
  BY <1>1, BytesSum

LEMMA BytesAppend ==
    ASSUME NEW q \in Seq(Batch), NEW b \in Batch
    PROVE  Bytes(Append(q, b)) = Bytes(q) + b.bytes
<1>1. PICK r : r = Append(q, b)
  OBVIOUS
<1>2. /\ r \in Seq(Batch) /\ Len(r) = Len(q) + 1 /\ r[Len(q) + 1] = b
      /\ \A n \in 1..Len(q) : r[n] = q[n]
  BY <1>1
<1>3. PICK f : /\ Bytes(q) = f[Len(q)] /\ f[0] = 0
               /\ \A n \in 1..Len(q) : f[n] = f[n - 1] + q[n].bytes
  BY BytesSum
<1>4. PICK g : /\ Bytes(r) = g[Len(r)] /\ g[0] = 0
               /\ \A n \in 1..Len(r) : g[n] = g[n - 1] + r[n].bytes
  BY <1>2, BytesSum
<1>5. PICK T : T = {n \in Nat : n <= Len(q) => g[n] = f[n]}
  OBVIOUS
<1>6. 0 \in T /\ \A n \in Nat : n \in T => n + 1 \in T
  <2>1. 0 \in T
    BY <1>3, <1>4, <1>5
  <2>2. ASSUME NEW n \in Nat, n \in T PROVE n + 1 \in T
    <3> SUFFICES ASSUME n + 1 <= Len(q) PROVE g[n + 1] = f[n + 1]
      BY <1>5
    <3>1. /\ g[n] = f[n] /\ r[n + 1] = q[n + 1] /\ (n + 1) - 1 = n
          /\ n + 1 \in 1..Len(q) /\ n + 1 \in 1..Len(r)
      BY <1>2, <1>5, <2>2
    <3>2. f[n + 1] = f[n] + q[n + 1].bytes
      BY <1>3, <3>1
    <3>3. g[n + 1] = g[n] + r[n + 1].bytes
      BY <1>4, <3>1
    <3> QED
      BY <3>1, <3>2, <3>3
  <2> QED
    BY <2>1, <2>2
<1>7. Nat \subseteq T
  BY <1>6, Induction
<1>8. g[Len(q)] = f[Len(q)]
  BY <1>5, <1>7
<1> QED
  BY <1>1, <1>2, <1>3, <1>4, <1>8

LEMMA BytesRemove ==
    ASSUME NEW q \in Seq(Batch), NEW i \in 1..Len(q)
    PROVE  Bytes(RemoveAt(q, i)) = Bytes(q) - q[i].bytes
<1>1. PICK r : r = RemoveAt(q, i)
  OBVIOUS
<1>2. /\ r \in Seq(Batch) /\ Len(r) = Len(q) - 1
      /\ \A n \in 1..(Len(q) - 1) : r[n] = IF n < i THEN q[n] ELSE q[n + 1]
  BY <1>1, RemoveAtFacts
<1>3. PICK f : /\ Bytes(q) = f[Len(q)] /\ f[0] = 0
               /\ \A n \in 1..Len(q) : f[n] = f[n - 1] + q[n].bytes
               /\ \A n \in 0..Len(q) : f[n] \in Nat
  BY BytesSum
<1>4. PICK g : /\ Bytes(r) = g[Len(r)] /\ g[0] = 0
               /\ \A n \in 1..Len(r) : g[n] = g[n - 1] + r[n].bytes
  BY <1>2, BytesSum
<1>5. \A n \in 1..Len(q) : q[n].bytes \in Nat
  BY ElementBytes
<1>6. PICK T : T = {n \in Nat : n < Len(q) =>
                      g[n] = IF n < i THEN f[n] ELSE f[n + 1] - q[i].bytes}
  OBVIOUS
<1>7. 0 \in T
  BY <1>3, <1>4, <1>6
<1>8. ASSUME NEW n \in Nat, n \in T PROVE n + 1 \in T
  <2> SUFFICES ASSUME n + 1 < Len(q)
               PROVE  g[n + 1] = IF n + 1 < i THEN f[n + 1]
                                 ELSE f[n + 2] - q[i].bytes
    BY <1>6
  <2>1. g[n] = IF n < i THEN f[n] ELSE f[n + 1] - q[i].bytes
    BY <1>6, <1>8
  <2>2. g[n + 1] = g[n] + r[n + 1].bytes
    BY <1>2, <1>4
  <2>3. f[n + 1] = f[n] + q[n + 1].bytes /\ f[n + 2] = f[n + 1] + q[n + 2].bytes
    BY <1>3
  <2>4. r[n + 1] = IF n + 1 < i THEN q[n + 1] ELSE q[n + 2]
    BY <1>2
  <2>5. f[n] \in Nat /\ f[n + 1] \in Nat /\ f[n + 2] \in Nat
        /\ q[n + 1].bytes \in Nat /\ q[n + 2].bytes \in Nat
        /\ q[i].bytes \in Nat
    BY <1>3, <1>5
  <2>6. CASE n + 1 < i
    BY <2>1, <2>2, <2>3, <2>4, <2>5, <2>6
  <2>7. CASE n + 1 = i
    <3>1. g[n] = f[n] /\ r[n + 1] = q[n + 2] /\ q[i] = q[n + 1]
      BY <2>1, <2>4, <2>7
    <3>2. g[n + 1] = f[n] + q[n + 2].bytes
      BY <2>2, <3>1
    <3>3. PICK x \in Nat, a \in Nat, b \in Nat :
             x = f[n] /\ a = q[n + 1].bytes /\ b = q[n + 2].bytes
      BY <2>5
    <3>4. f[n + 1] = x + a
      BY <2>3, <3>3
    <3>5. f[n + 2] = (x + a) + b
      BY <2>3, <3>3, <3>4
    <3>6. f[n] + q[n + 2].bytes = f[n + 2] - q[n + 1].bytes
      <4>1. x + b = ((x + a) + b) - a
        OBVIOUS
      <4> QED
        BY <3>3, <3>5, <4>1
    <3> QED
      BY <2>7, <3>1, <3>2, <3>6
  <2>8. CASE n + 1 > i
    <3>1. g[n] = f[n + 1] - q[i].bytes /\ r[n + 1] = q[n + 2]
      BY <2>1, <2>4, <2>8
    <3>2. g[n + 1] = (f[n + 1] - q[i].bytes) + q[n + 2].bytes
      BY <2>2, <3>1
    <3>3. f[n + 2] - q[i].bytes = (f[n + 1] - q[i].bytes) + q[n + 2].bytes
      <4>1. ASSUME NEW x \in Nat, NEW y \in Nat, NEW z \in Nat, NEW w \in Nat,
                   y = x + z
            PROVE  y - w = (x - w) + z
        BY <4>1
      <4>2. f[n + 2] = f[n + 1] + q[n + 2].bytes
        BY <2>3
      <4> QED
        BY <2>5, <4>1, <4>2
    <3> QED
      BY <2>8, <3>2, <3>3
  <2> QED
    BY <2>6, <2>7, <2>8
<1>9. Nat \subseteq T
  BY <1>7, <1>8, Induction
<1>10. g[Len(q) - 1] = f[Len(q)] - q[i].bytes
  <2>1. PICK n \in Nat : n = Len(q) - 1
    OBVIOUS
  <2>2. n < Len(q) /\ ~(n < i) => g[n] = f[n + 1] - q[i].bytes
    BY <1>6, <1>9
  <2>3. CASE n < i
    <3>1. g[n] = f[n] /\ n + 1 = i
      BY <1>6, <1>9, <2>1, <2>3
    <3>2. f[n + 1] = f[n] + q[n + 1].bytes /\ f[n] \in Nat
      BY <1>3, <2>1
    <3> QED
      BY <1>5, <2>1, <3>1, <3>2
  <2> QED
    BY <2>1, <2>2, <2>3
<1> QED
  BY <1>1, <1>2, <1>3, <1>4, <1>10

LEMMA BytesTail ==
    ASSUME NEW q \in Seq(Batch), q # << >>
    PROVE  Bytes(Tail(q)) = Bytes(q) - Head(q).bytes
<1>1. 1 \in 1..Len(q) /\ Head(q) = q[1]
  OBVIOUS
<1>2. RemoveAt(q, 1) = Tail(q)
  <2>1. PICK r : r = RemoveAt(q, 1)
    OBVIOUS
  <2>2. /\ r \in Seq(Batch) /\ Len(r) = Len(q) - 1
        /\ \A n \in 1..(Len(q) - 1) : r[n] = q[n + 1]
    BY <1>1, <2>1, RemoveAtFacts
  <2>3. r = Tail(q)
    BY <2>2
  <2> QED
    BY <2>1, <2>3
<1> QED
  BY <1>1, <1>2, BytesRemove

(***************************************************************************)
(* The eviction loop.  After any number of turns the lane holds the        *)
(* batches it held, in their order, but for the oldest of the topic, and   *)
(* the counters agree with it.                                             *)
(***************************************************************************)
Rising(q) == \A i, j \in 1..Len(q) : i < j => q[i].id < q[j].id

Kept(r, b) == \E i \in 1..Len(r) : r[i] = b

OlderOfTopic(r, t, b) ==
    b.lane = t /\ \A i \in 1..Len(r) : r[i].lane = t => b.id < r[i].id

EvictedFrom(q, t, r, used, k) ==
    /\ r \in Seq(Batch) /\ Rising(r)
    /\ used = Bytes(r) /\ used <= Bytes(q)
    /\ k \in Nat /\ Len(r) + k = Len(q)
    /\ \A i \in 1..Len(r) : Kept(q, r[i])
    /\ \A j \in 1..Len(q) : Kept(r, q[j]) \/ OlderOfTopic(r, t, q[j])

IsTurns(q, u, t, limit, bytes, m, f) ==
    f = [n \in 0..m |->
            IF n = 0 THEN [queue |-> q, used |-> u, dropped |-> 0]
            ELSE EvictOne(f[n - 1], t, limit, bytes)]

LEMMA TurnsExist ==
    ASSUME NEW q, NEW u, NEW t, NEW limit, NEW bytes, NEW m \in Nat
    PROVE  \E f : IsTurns(q, u, t, limit, bytes, m, f)
<1>0. PICK s0 : s0 = [queue |-> q, used |-> u, dropped |-> 0]
  OBVIOUS
<1>1. PICK T : T = {k \in Nat : \E f : IsTurns(q, u, t, limit, bytes, k, f)}
  OBVIOUS
<1>2. 0 \in T
  <2>1. PICK f : f = [n \in 0..0 |-> s0]
    OBVIOUS
  <2>2. IsTurns(q, u, t, limit, bytes, 0, f)
    BY <1>0, <2>1 DEF IsTurns
  <2> QED
    BY <1>1, <2>2
<1>3. ASSUME NEW k \in Nat, k \in T PROVE k + 1 \in T
  <2>1. PICK f : IsTurns(q, u, t, limit, bytes, k, f)
    BY <1>1, <1>3
  <2>2. PICK g : g = [n \in 0..(k + 1) |->
                        IF n <= k THEN f[n]
                        ELSE EvictOne(f[n - 1], t, limit, bytes)]
    OBVIOUS
  <2>3. \A n \in 0..k :
           f[n] = IF n = 0 THEN s0 ELSE EvictOne(f[n - 1], t, limit, bytes)
    BY <1>0, <2>1 DEF IsTurns
  <2>4. /\ \A n \in 0..k : g[n] = f[n]
        /\ g[k + 1] = EvictOne(f[k], t, limit, bytes)
        /\ g = [n \in 0..(k + 1) |-> g[n]]
    BY <2>2
  <2>5. \A n \in 0..(k + 1) :
           g[n] = IF n = 0 THEN s0 ELSE EvictOne(g[n - 1], t, limit, bytes)
    <3>1. ASSUME NEW n \in 0..k
          PROVE  g[n] = IF n = 0 THEN s0
                        ELSE EvictOne(g[n - 1], t, limit, bytes)
      <4>1. CASE n = 0
        BY <2>3, <2>4, <4>1
      <4>2. CASE n # 0
        <5>1. n - 1 \in 0..k
          BY <4>2
        <5>2. g[n] = f[n] /\ g[n - 1] = f[n - 1]
          BY <2>4, <5>1
        <5> QED
          BY <2>3, <4>2, <5>2
      <4> QED
        BY <4>1, <4>2
    <3>2. /\ g[k + 1] = EvictOne(g[(k + 1) - 1], t, limit, bytes)
          /\ k + 1 # 0
      <4>1. (k + 1) - 1 = k /\ k \in 0..k
        OBVIOUS
      <4>2. g[(k + 1) - 1] = f[k]
        BY <2>4, <4>1
      <4> QED
        BY <2>4, <4>2
    <3> QED
      BY <3>1, <3>2
  <2>6. IsTurns(q, u, t, limit, bytes, k + 1, g)
    BY <1>0, <2>4, <2>5 DEF IsTurns
  <2> QED
    BY <1>1, <2>6
<1>4. Nat \subseteq T
  BY <1>2, <1>3, Induction
<1> QED
  BY <1>1, <1>4

LEMMA EvictTurns ==
    ASSUME NEW q, Len(q) \in Nat, NEW u, NEW t, NEW limit, NEW bytes
    PROVE  \E f : \E m \in 0..Len(q) :
              /\ Evict(q, u, t, limit, bytes) = f[m]
              /\ f[0] = [queue |-> q, used |-> u, dropped |-> 0]
              /\ \A n \in 1..Len(q) : f[n] = EvictOne(f[n - 1], t, limit, bytes)
<1>1. \E f : IsTurns(q, u, t, limit, bytes, Len(q), f)
  BY TurnsExist
<1> DEFINE f == CHOOSE f : IsTurns(q, u, t, limit, bytes, Len(q), f)
<1>2. IsTurns(q, u, t, limit, bytes, Len(q), f)
  BY <1>1
<1>3. Evict(q, u, t, limit, bytes) =
        f[IF bytes <= ByteLimit /\ limit > 0 THEN Len(q) ELSE 0]
  BY DEF Evict, IsTurns
<1> HIDE DEF f
<1>4. /\ f[0] = [queue |-> q, used |-> u, dropped |-> 0]
      /\ \A n \in 1..Len(q) : f[n] = EvictOne(f[n - 1], t, limit, bytes)
  BY <1>2 DEF IsTurns
<1>5. \E m \in 0..Len(q) : Evict(q, u, t, limit, bytes) = f[m]
  BY <1>3
<1> QED
  BY <1>4, <1>5

(* Removing the oldest batch of the topic. *)
LEMMA RemoveOldest ==
    ASSUME NEW q \in Seq(Batch), NEW t, NEW r, NEW used, NEW k,
           EvictedFrom(q, t, r, used, k),
           NEW v \in 1..Len(r), r[v].lane = t,
           \A i \in 1..Len(r) : r[i].lane = t => v <= i
    PROVE  EvictedFrom(q, t, RemoveAt(r, v), used - r[v].bytes, k + 1)
<1>1. PICK s : s = RemoveAt(r, v)
  OBVIOUS
<1>2. /\ r \in Seq(Batch) /\ Rising(r) /\ used = Bytes(r)
      /\ k \in Nat /\ Len(r) + k = Len(q)
      /\ \A i \in 1..Len(r) : Kept(q, r[i])
      /\ \A j \in 1..Len(q) : Kept(r, q[j]) \/ OlderOfTopic(r, t, q[j])
      /\ used <= Bytes(q)
  BY DEF EvictedFrom
<1>3. /\ s \in Seq(Batch) /\ Len(s) = Len(r) - 1
      /\ \A n \in 1..(Len(r) - 1) : s[n] = IF n < v THEN r[n] ELSE r[n + 1]
  BY <1>1, <1>2, RemoveAtFacts
<1>4. Bytes(s) = used - r[v].bytes
  BY <1>1, <1>2, BytesRemove
<1>5. \A n \in 1..Len(s) : \E i \in 1..Len(r) : i # v /\ s[n] = r[i]
  BY <1>2, <1>3
<1>6. \A i \in 1..Len(r) : i # v => Kept(s, r[i])
  <2> SUFFICES ASSUME NEW i \in 1..Len(r), i # v PROVE Kept(s, r[i])
    OBVIOUS
  <2>1. CASE i < v
    <3>1. i \in 1..Len(s) /\ s[i] = r[i]
      BY <1>2, <1>3, <2>1
    <3> QED
      BY <3>1 DEF Kept
  <2>2. CASE i > v
    <3>1. i - 1 \in 1..Len(s) /\ s[i - 1] = r[i]
      BY <1>2, <1>3, <2>2
    <3> QED
      BY <3>1 DEF Kept
  <2> QED
    BY <2>1, <2>2
<1>7. Rising(s)
  <2> SUFFICES ASSUME NEW i \in 1..Len(s), NEW j \in 1..Len(s), i < j
               PROVE  s[i].id < s[j].id
    BY DEF Rising
  <2>0. /\ Len(r) \in Nat /\ Len(s) = Len(r) - 1
        /\ \A n \in 1..(Len(r) - 1) : s[n] = IF n < v THEN r[n] ELSE r[n + 1]
    <3>1. r \in Seq(Batch)
      BY <1>2
    <3>2. Len(r) \in Nat
      BY <3>1
    <3> QED
      BY <1>3, <3>2
  <2>1. PICK a \in 1..Len(r) : s[i] = r[a] /\ a = IF i < v THEN i ELSE i + 1
    BY <2>0
  <2>2. PICK b \in 1..Len(r) : s[j] = r[b] /\ b = IF j < v THEN j ELSE j + 1
    BY <2>0
  <2>3. a < b
    BY <2>1, <2>2
  <2> QED
    BY <1>2, <2>1, <2>2, <2>3 DEF Rising
<1>8. \A n \in 1..Len(s) : Kept(q, s[n])
  BY <1>2, <1>5
<1>9. ASSUME NEW j \in 1..Len(q) PROVE Kept(s, q[j]) \/ OlderOfTopic(s, t, q[j])
  <2>1. CASE OlderOfTopic(r, t, q[j])
    BY <1>5, <2>1 DEF OlderOfTopic
  <2>2. CASE Kept(r, q[j])
    <3>1. PICK i \in 1..Len(r) : r[i] = q[j]
      BY <2>2 DEF Kept
    <3>2. CASE i # v
      BY <1>6, <3>1, <3>2
    <3>3. CASE i = v
      <4>1. ASSUME NEW n \in 1..Len(s), s[n].lane = t
            PROVE  q[j].id < s[n].id
        <5>1. PICK a \in 1..Len(r) : a # v /\ s[n] = r[a]
          BY <1>5
        <5>2. v < a
          BY <4>1, <5>1
        <5> QED
          BY <1>2, <3>1, <3>3, <5>1, <5>2 DEF Rising
      <4> QED
        BY <3>1, <3>3, <4>1 DEF OlderOfTopic
    <3> QED
      BY <3>2, <3>3
  <2> QED
    BY <1>2, <2>1, <2>2
<1>10. k + 1 \in Nat /\ Len(s) + (k + 1) = Len(q)
  <2>1. /\ k \in Nat /\ Len(r) \in Nat /\ Len(q) \in Nat
        /\ Len(r) + k = Len(q) /\ Len(s) = Len(r) - 1
    BY <1>2, <1>3
  <2> QED
    BY <2>1
<1>11. used - r[v].bytes <= Bytes(q)
  <2>1. used \in Nat /\ r[v].bytes \in Nat /\ Bytes(q) \in Nat
    BY <1>2, BytesType, ElementBytes
  <2> QED
    BY <1>2, <2>1
<1>12. EvictedFrom(q, t, s, used - r[v].bytes, k + 1)
  BY <1>3, <1>4, <1>7, <1>8, <1>9, <1>10, <1>11 DEF EvictedFrom
<1> QED
  BY <1>1, <1>12

LEMMA EvictTurn ==
    ASSUME NEW q \in Seq(Batch), NEW t, NEW limit, NEW bytes,
           NEW lane, NEW next,
           EvictedFrom(q, t, lane.queue, lane.used, lane.dropped),
           next = EvictOne(lane, t, limit, bytes)
    PROVE  EvictedFrom(q, t, next.queue, next.used, next.dropped)
<1>1. PICK r : r = lane.queue
  OBVIOUS
<1>2. PICK O : O = Own(r, t)
  OBVIOUS
<1>3. CASE next = lane
  BY <1>3
<1>4. CASE MustEvict(lane, t, limit, bytes) /\ O # {}
  <2>1. PICK v : v = Min(O)
    OBVIOUS
  <2>2. /\ next.queue = RemoveAt(r, v)
        /\ next.used = lane.used - r[v].bytes
        /\ next.dropped = lane.dropped + 1
    BY <1>1, <1>2, <1>4, <2>1 DEF EvictOne, Victim
  <2>3. r \in Seq(Batch)
    BY <1>1 DEF EvictedFrom
  <2>4. O = {i \in 1..Len(r) : r[i].lane = t}
    BY <1>2, <2>3 DEF Own
  <2>5. O \subseteq Nat /\ O # {}
    BY <1>4, <2>4
  <2>6. v \in O /\ \A i \in O : v <= i
    BY <2>1, <2>5, LeastNatural
  <2>7. v \in 1..Len(r) /\ r[v].lane = t
        /\ \A i \in 1..Len(r) : r[i].lane = t => v <= i
    BY <2>4, <2>6
  <2> QED
    BY <1>1, <2>2, <2>7, RemoveOldest
<1>5. next = lane \/ (MustEvict(lane, t, limit, bytes) /\ O # {})
  BY <1>1, <1>2 DEF EvictOne
<1> QED
  BY <1>3, <1>4, <1>5

LEMMA EvictResult ==
    ASSUME NEW q \in Seq(Batch), Rising(q), NEW u, u = Bytes(q),
           NEW t, NEW limit, NEW bytes, NEW lane,
           lane = Evict(q, u, t, limit, bytes)
    PROVE  EvictedFrom(q, t, lane.queue, lane.used, lane.dropped)
<1>1. PICK f : \E m \in 0..Len(q) :
                 /\ lane = f[m]
                 /\ f[0] = [queue |-> q, used |-> u, dropped |-> 0]
                 /\ \A n \in 1..Len(q) :
                       f[n] = EvictOne(f[n - 1], t, limit, bytes)
  BY EvictTurns
<1>2. PICK m \in 0..Len(q) :
                 /\ lane = f[m]
                 /\ f[0] = [queue |-> q, used |-> u, dropped |-> 0]
                 /\ \A n \in 1..Len(q) :
                       f[n] = EvictOne(f[n - 1], t, limit, bytes)
  BY <1>1
<1> DEFINE Good(n) == EvictedFrom(q, t, f[n].queue, f[n].used, f[n].dropped)
<1>3. Good(0)
  <2>1. f[0].queue = q /\ f[0].used = u /\ f[0].dropped = 0
    BY <1>2
  <2>2. \A i \in 1..Len(q) : Kept(q, q[i])
    BY DEF Kept
  <2>3. u <= Bytes(q)
    BY BytesType
  <2> QED
    BY <2>1, <2>2, <2>3 DEF EvictedFrom
<1>4. ASSUME NEW n \in Nat, n < Len(q), Good(n) PROVE Good(n + 1)
  <2>1. PICK a, b : a = f[n] /\ b = f[n + 1]
    OBVIOUS
  <2>2. b = EvictOne(a, t, limit, bytes)
    BY <1>2, <1>4, <2>1
  <2>3. EvictedFrom(q, t, a.queue, a.used, a.dropped)
    BY <1>4, <2>1
  <2>4. EvictedFrom(q, t, b.queue, b.used, b.dropped)
    BY <2>2, <2>3, EvictTurn
  <2> QED
    BY <2>1, <2>4
<1> HIDE DEF Good
<1>5. PICK T : T = {n \in Nat : n <= Len(q) => Good(n)}
  OBVIOUS
<1>6. 0 \in T /\ \A n \in Nat : n \in T => n + 1 \in T
  BY <1>3, <1>4, <1>5
<1>7. Nat \subseteq T
  BY <1>6, Induction
<1>8. Good(m)
  BY <1>5, <1>7
<1> QED
  BY <1>2, <1>8 DEF Good

-----------------------------------------------------------------------------
(***************************************************************************)
(* What holds of one connection: z is "open" or "closed", T and K are its  *)
(* lanes with tb and kb bytes, p and b the writer and its batch, d what    *)
(* was dropped, ts and ks what was offered, tg and kg what was delivered.  *)
(***************************************************************************)
TopicFlying(p, b) == p = "encoding" /\ b.lane # Control
ControlFlying(p, b) == p = "encoding" /\ b.lane = Control
Aloft(p, b) == IF TopicFlying(p, b) THEN 1 ELSE 0
ControlAloft(p, b) == IF ControlFlying(p, b) THEN 1 ELSE 0

Shape(T, K, tb, kb, p, b, d, ts, ks, tg, kg) ==
    /\ T \in Seq(Batch) /\ Len(T) <= Capacity
    /\ \A i \in 1..Len(T) : T[i].lane # Control
    /\ K \in Seq(Batch) /\ Len(K) <= ControlCapacity
    /\ \A i \in 1..Len(K) : K[i].lane = Control
    /\ tb \in 0..ByteLimit /\ kb \in 0..ByteLimit
    /\ b \in Batch \cup {NoBatch} /\ (p = "encoding" => b \in Batch)
    /\ d \in Nat /\ ts \in Nat /\ ks \in Nat
    /\ tg \in Seq(Nat) /\ kg \in Nat

(* Delivered, then in flight, then queued, all offered. *)
Order(T, p, b, ts, tg) ==
    /\ Rising(T)
    /\ \A i \in 1..Len(T) : T[i].id <= ts
    /\ TopicFlying(p, b) =>
          b.id <= ts /\ \A i \in 1..Len(T) : b.id < T[i].id
    /\ \A i, j \in 1..Len(tg) : i < j => tg[i] < tg[j]
    /\ \A j \in 1..Len(tg) :
          /\ tg[j] <= ts
          /\ TopicFlying(p, b) => tg[j] < b.id
          /\ \A i \in 1..Len(T) : tg[j] < T[i].id

Books(T, K, tb, kb, p, b, d, ts, ks, tg, kg) ==
    /\ tb = Bytes(T) /\ kb = Bytes(K)
    /\ ts = Len(tg) + d + Len(T) + Aloft(p, b)
    /\ ks = kg + Len(K) + ControlAloft(p, b)
    /\ ControlFlying(p, b) => b.id = kg + 1
    /\ \A i \in 1..Len(K) : K[i].id = kg + i + ControlAloft(p, b)

ConnOK(z, T, K, tb, kb, p, b, d, ts, ks, tg, kg) ==
    /\ Shape(T, K, tb, kb, p, b, d, ts, ks, tg, kg)
    /\ Order(T, p, b, ts, tg)
    /\ z = "closed" => T = << >> /\ K = << >>
    /\ z = "open" => Books(T, K, tb, kb, p, b, d, ts, ks, tg, kg)

(* The lanes are cleared when the connection is closed; the writer goes on *)
(* with its batch or gives it up.                                          *)
LEMMA ClosedOK ==
    ASSUME NEW z, NEW T, NEW K, NEW tb, NEW kb, NEW p, NEW b, NEW d, NEW ts,
           NEW ks, NEW tg, NEW kg,
           ConnOK(z, T, K, tb, kb, p, b, d, ts, ks, tg, kg),
           NEW tb2 \in 0..ByteLimit, NEW kb2 \in 0..ByteLimit,
           NEW ks2 \in Nat, NEW p2, NEW b2,
           \/ p2 = p /\ b2 = b
           \/ p2 # "encoding" /\ b2 \in {b, NoBatch}
    PROVE  ConnOK("closed", << >>, << >>, tb2, kb2, p2, b2, d, ts, ks2, tg, kg)
<1>1. /\ Shape(T, K, tb, kb, p, b, d, ts, ks, tg, kg)
      /\ Order(T, p, b, ts, tg)
  BY DEF ConnOK
<1>2. Shape(<< >>, << >>, tb2, kb2, p2, b2, d, ts, ks2, tg, kg)
  BY <1>1, LimitAssumption DEF Shape
<1>3. Order(<< >>, p2, b2, ts, tg)
  BY <1>1 DEF Order, TopicFlying, Rising
<1> QED
  BY <1>2, <1>3 DEF ConnOK

(* A step of the writer between two batches. *)
LEMMA IdleOK ==
    ASSUME NEW z, NEW T, NEW K, NEW tb, NEW kb, NEW p, NEW b, NEW d, NEW ts,
           NEW ks, NEW tg, NEW kg,
           ConnOK(z, T, K, tb, kb, p, b, d, ts, ks, tg, kg),
           NEW p2, p # "encoding", p2 # "encoding"
    PROVE  ConnOK(z, T, K, tb, kb, p2, b, d, ts, ks, tg, kg)
BY DEF ConnOK, Shape, Order, Books, TopicFlying, ControlFlying, Aloft,
       ControlAloft

(* A batch that finishes after the close is discarded. *)
LEMMA DiscardOK ==
    ASSUME NEW T, NEW K, NEW tb, NEW kb, NEW p, NEW b, NEW d, NEW ts,
           NEW ks, NEW tg, NEW kg,
           ConnOK("closed", T, K, tb, kb, p, b, d, ts, ks, tg, kg),
           NEW p2, p2 # "encoding"
    PROVE  ConnOK("closed", T, K, tb, kb, p2, NoBatch, d, ts, ks, tg, kg)
BY DEF ConnOK, Shape, Order, TopicFlying

LEMMA TakeControlOK ==
    ASSUME NEW T, NEW K, NEW tb, NEW kb, NEW p, NEW b, NEW d, NEW ts,
           NEW ks, NEW tg, NEW kg,
           ConnOK("open", T, K, tb, kb, p, b, d, ts, ks, tg, kg),
           p # "encoding", K # << >>
    PROVE  ConnOK("open", T, Tail(K), tb, kb - Head(K).bytes, "encoding",
                  Head(K), d, ts, ks, tg, kg)
<1>1. /\ Shape(T, K, tb, kb, p, b, d, ts, ks, tg, kg)
      /\ Order(T, p, b, ts, tg)
      /\ Books(T, K, tb, kb, p, b, d, ts, ks, tg, kg)
  BY DEF ConnOK
<1>2. PICK h, R : h = Head(K) /\ R = Tail(K)
  OBVIOUS
<1>3. /\ K \in Seq(Batch) /\ h \in Batch /\ h = K[1] /\ Len(K) \in Nat \ {0}
      /\ R \in Seq(Batch) /\ Len(R) = Len(K) - 1
      /\ \A i \in 1..Len(R) : R[i] = K[i + 1] /\ i + 1 \in 1..Len(K)
      /\ 1 \in 1..Len(K)
  BY <1>1, <1>2 DEF Shape
<1>4. Bytes(R) = kb - h.bytes /\ Bytes(R) \in Nat /\ h.bytes \in Nat
      /\ kb \in 0..ByteLimit
  BY <1>1, <1>2, <1>3, BytesTail, BytesType DEF Shape, Books, Batch
<1>5. kb - h.bytes \in 0..ByteLimit
  BY <1>4, LimitAssumption
<1>6. h.lane = Control /\ \A i \in 1..Len(R) : R[i].lane = Control
  BY <1>1, <1>3 DEF Shape
<1>7. Shape(T, R, tb, kb - h.bytes, "encoding", h, d, ts, ks, tg, kg)
  BY <1>1, <1>3, <1>5, <1>6, LimitAssumption DEF Shape
<1>8. Order(T, "encoding", h, ts, tg)
  BY <1>1, <1>6 DEF Order, TopicFlying
<1>9. /\ Aloft(p, b) = 0 /\ ControlAloft(p, b) = 0
      /\ Aloft("encoding", h) = 0 /\ ControlAloft("encoding", h) = 1
  BY <1>6 DEF Aloft, ControlAloft, TopicFlying, ControlFlying
<1>10. /\ tb = Bytes(T) /\ ts = Len(tg) + d + Len(T) + 0
       /\ ks = kg + Len(K) + 0 /\ kg \in Nat
       /\ \A i \in 1..Len(K) : K[i].id = kg + i + 0
  BY <1>1, <1>9 DEF Books, Shape
<1>11. h.id = kg + 1 /\ ks = kg + Len(R) + 1
       /\ \A i \in 1..Len(R) : R[i].id = kg + i + 1
  <2>1. h.id = kg + 1 /\ ks = kg + Len(R) + 1
    BY <1>3, <1>10
  <2>2. ASSUME NEW i \in 1..Len(R) PROVE R[i].id = kg + i + 1
    <3>1. R[i].id = kg + (i + 1) + 0
      BY <1>3, <1>10
    <3> QED
      BY <1>10, <3>1
  <2> QED
    BY <2>1, <2>2
<1>12. Books(T, R, tb, kb - h.bytes, "encoding", h, d, ts, ks, tg, kg)
  BY <1>4, <1>9, <1>10, <1>11 DEF Books
<1> QED
  BY <1>2, <1>7, <1>8, <1>12 DEF ConnOK

LEMMA TakeTopicOK ==
    ASSUME NEW T, NEW K, NEW tb, NEW kb, NEW p, NEW b, NEW d, NEW ts,
           NEW ks, NEW tg, NEW kg,
           ConnOK("open", T, K, tb, kb, p, b, d, ts, ks, tg, kg),
           p # "encoding", T # << >>
    PROVE  ConnOK("open", Tail(T), K, tb - Head(T).bytes, kb, "encoding",
                  Head(T), d, ts, ks, tg, kg)
<1>1. /\ Shape(T, K, tb, kb, p, b, d, ts, ks, tg, kg)
      /\ Order(T, p, b, ts, tg)
      /\ Books(T, K, tb, kb, p, b, d, ts, ks, tg, kg)
  BY DEF ConnOK
<1>2. PICK h, R : h = Head(T) /\ R = Tail(T)
  OBVIOUS
<1>3. /\ T \in Seq(Batch) /\ h \in Batch /\ h = T[1] /\ Len(T) \in Nat \ {0}
      /\ R \in Seq(Batch) /\ Len(R) = Len(T) - 1
      /\ \A i \in 1..Len(R) : R[i] = T[i + 1] /\ i + 1 \in 1..Len(T)
      /\ 1 \in 1..Len(T)
  BY <1>1, <1>2 DEF Shape
<1>4. Bytes(R) = tb - h.bytes /\ Bytes(R) \in Nat /\ h.bytes \in Nat
      /\ tb \in 0..ByteLimit
  BY <1>1, <1>2, <1>3, BytesTail, BytesType DEF Shape, Books, Batch
<1>5. tb - h.bytes \in 0..ByteLimit
  BY <1>4, LimitAssumption
<1>6. h.lane # Control /\ \A i \in 1..Len(R) : R[i].lane # Control
  BY <1>1, <1>3 DEF Shape
<1>7. Shape(R, K, tb - h.bytes, kb, "encoding", h, d, ts, ks, tg, kg)
  BY <1>1, <1>3, <1>5, <1>6, LimitAssumption DEF Shape
<1>8. Order(R, "encoding", h, ts, tg)
  <2>1. Rising(R)
    <3>1. \A i, j \in 1..Len(T) : i < j => T[i].id < T[j].id
      BY <1>1 DEF Order, Rising
    <3>2. ASSUME NEW i \in 1..Len(R), NEW j \in 1..Len(R), i < j
          PROVE  R[i].id < R[j].id
      <4>1. i + 1 \in 1..Len(T) /\ j + 1 \in 1..Len(T) /\ i + 1 < j + 1
        BY <1>3, <3>2
      <4> QED
        BY <1>3, <3>1, <4>1
    <3> QED
      BY <3>2 DEF Rising
  <2>2. h.id <= ts /\ \A i \in 1..Len(R) : R[i].id <= ts /\ h.id < R[i].id
    <3>1. /\ \A i \in 1..Len(T) : T[i].id <= ts
          /\ \A i, j \in 1..Len(T) : i < j => T[i].id < T[j].id
      BY <1>1 DEF Order, Rising
    <3>2. \A i \in 1..Len(R) : 1 < i + 1
      BY <1>3
    <3> QED
      BY <1>3, <3>1, <3>2
  <2>3. \A j \in 1..Len(tg) : /\ tg[j] <= ts /\ tg[j] < h.id
                              /\ \A i \in 1..Len(R) : tg[j] < R[i].id
    BY <1>1, <1>3 DEF Order
  <2> QED
    BY <1>1, <2>1, <2>2, <2>3 DEF Order
<1>9. /\ Aloft(p, b) = 0 /\ ControlAloft(p, b) = 0
      /\ Aloft("encoding", h) = 1 /\ ControlAloft("encoding", h) = 0
      /\ ~ControlFlying("encoding", h)
  BY <1>6 DEF Aloft, ControlAloft, TopicFlying, ControlFlying
<1>10. /\ kb = Bytes(K) /\ ts = Len(tg) + d + Len(T) + 0
       /\ ks = kg + Len(K) + 0
       /\ \A i \in 1..Len(K) : K[i].id = kg + i + 0
  BY <1>1, <1>9 DEF Books
<1>11. Len(tg) \in Nat /\ d \in Nat
  BY <1>1 DEF Shape
<1>12. ts = Len(tg) + d + Len(R) + 1
  BY <1>3, <1>10, <1>11
<1>13. Books(R, K, tb - h.bytes, kb, "encoding", h, d, ts, ks, tg, kg)
  BY <1>4, <1>9, <1>10, <1>12 DEF Books
<1> QED
  BY <1>2, <1>7, <1>8, <1>13 DEF ConnOK

(* An offer to the topic lane: what eviction left, with or without the new *)
(* batch.                                                                  *)
LEMMA EvictOK ==
    ASSUME NEW T, NEW K, NEW tb, NEW kb, NEW p, NEW b, NEW d, NEW ts,
           NEW ks, NEW tg, NEW kg,
           ConnOK("open", T, K, tb, kb, p, b, d, ts, ks, tg, kg),
           NEW t, NEW r, NEW used, NEW k, EvictedFrom(T, t, r, used, k)
    PROVE  ConnOK("open", r, K, used, kb, p, b, d + k + 1, ts + 1, ks, tg, kg)
<1>1. /\ Shape(T, K, tb, kb, p, b, d, ts, ks, tg, kg)
      /\ Order(T, p, b, ts, tg)
      /\ Books(T, K, tb, kb, p, b, d, ts, ks, tg, kg)
  BY DEF ConnOK
<1>2. /\ r \in Seq(Batch) /\ Rising(r) /\ used = Bytes(r) /\ used \in Nat
      /\ k \in Nat /\ Len(r) + k = Len(T)
      /\ \A i \in 1..Len(r) : \E j \in 1..Len(T) : r[i] = T[j]
      /\ used <= Bytes(T)
  BY BytesType DEF EvictedFrom, Kept
<1>3. used \in 0..ByteLimit
  BY <1>1, <1>2, LimitAssumption DEF Shape, Books
<1>4. /\ T \in Seq(Batch) /\ Len(T) \in Nat /\ Len(r) \in Nat
      /\ Len(T) <= Capacity /\ Capacity \in Nat
      /\ d \in Nat /\ ts \in Nat /\ tg \in Seq(Nat) /\ Len(tg) \in Nat
  <2>1. /\ T \in Seq(Batch) /\ Len(T) <= Capacity /\ d \in Nat /\ ts \in Nat
        /\ tg \in Seq(Nat)
    BY <1>1 DEF Shape
  <2>2. r \in Seq(Batch) /\ Capacity \in Nat
    BY <1>2, LimitAssumption
  <2> QED
    BY <2>1, <2>2
<1>5. Len(r) <= Capacity /\ d + k + 1 \in Nat /\ ts + 1 \in Nat
  BY <1>2, <1>4
<1>6. \A i \in 1..Len(r) : r[i].lane # Control
  BY <1>1, <1>2 DEF Shape
<1>7. Shape(r, K, used, kb, p, b, d + k + 1, ts + 1, ks, tg, kg)
  BY <1>1, <1>2, <1>3, <1>5, <1>6 DEF Shape
<1>8. Order(r, p, b, ts + 1, tg)
  <2>1. /\ \A i \in 1..Len(T) : T[i].id <= ts /\ T[i].id \in Nat
        /\ TopicFlying(p, b) =>
              b.id <= ts /\ b.id \in Nat /\ \A i \in 1..Len(T) : b.id < T[i].id
        /\ \A j \in 1..Len(tg) :
              /\ tg[j] \in Nat /\ tg[j] <= ts
              /\ TopicFlying(p, b) => tg[j] < b.id
              /\ \A i \in 1..Len(T) : tg[j] < T[i].id
        /\ \A i, j \in 1..Len(tg) : i < j => tg[i] < tg[j]
    <3>1. TopicFlying(p, b) => b.id \in Nat
      BY <1>1 DEF Shape, TopicFlying, Batch
    <3>2. \A i \in 1..Len(T) : T[i].id \in Nat
      BY <1>4, ElementBytes
    <3> QED
      BY <1>1, <1>4, <3>1, <3>2 DEF Order
  <2>2. \A i \in 1..Len(r) : r[i].id <= ts + 1
    <3> SUFFICES ASSUME NEW i \in 1..Len(r) PROVE r[i].id <= ts + 1
      OBVIOUS
    <3>1. PICK j \in 1..Len(T) : r[i] = T[j]
      BY <1>2
    <3>2. T[j].id <= ts /\ T[j].id \in Nat
      BY <2>1
    <3> QED
      BY <1>4, <3>1, <3>2
  <2>3. TopicFlying(p, b) =>
          b.id <= ts + 1 /\ \A i \in 1..Len(r) : b.id < r[i].id
    <3> SUFFICES ASSUME TopicFlying(p, b)
                 PROVE  b.id <= ts + 1 /\ \A i \in 1..Len(r) : b.id < r[i].id
      OBVIOUS
    <3>1. /\ b.id <= ts /\ b.id \in Nat
          /\ \A i \in 1..Len(T) : b.id < T[i].id
      BY <2>1
    <3>2. b.id <= ts + 1
      BY <1>4, <3>1
    <3>3. \A i \in 1..Len(r) : b.id < r[i].id
      BY <1>2, <3>1
    <3> QED
      BY <3>2, <3>3
  <2>4. \A j \in 1..Len(tg) :
          /\ tg[j] <= ts + 1
          /\ TopicFlying(p, b) => tg[j] < b.id
          /\ \A i \in 1..Len(r) : tg[j] < r[i].id
    <3> SUFFICES ASSUME NEW j \in 1..Len(tg)
                 PROVE  /\ tg[j] <= ts + 1
                        /\ TopicFlying(p, b) => tg[j] < b.id
                        /\ \A i \in 1..Len(r) : tg[j] < r[i].id
      OBVIOUS
    <3>1. tg[j] \in Nat /\ tg[j] <= ts /\ (TopicFlying(p, b) => tg[j] < b.id)
      BY <2>1
    <3>2. \A i \in 1..Len(r) : tg[j] < r[i].id
      BY <1>2, <2>1
    <3> QED
      BY <1>4, <3>1, <3>2
  <2> QED
    BY <1>2, <2>1, <2>2, <2>3, <2>4 DEF Order
<1>9. ts + 1 = Len(tg) + (d + k + 1) + Len(r) + Aloft(p, b)
  <2>1. Aloft(p, b) \in Nat
    BY DEF Aloft
  <2>2. ts = Len(tg) + d + Len(T) + Aloft(p, b)
    BY <1>1 DEF Books
  <2>3. k \in Nat /\ Len(r) + k = Len(T)
    BY <1>2
  <2>4. PICK x \in Nat : x = Len(tg)
    BY <1>4
  <2>5. PICK y \in Nat : y = Len(T)
    BY <1>4
  <2>6. PICK z \in Nat : z = Len(r)
    BY <1>4
  <2>7. PICK n \in Nat : n = Aloft(p, b)
    BY <2>1
  <2>8. ts = x + d + y + n /\ z + k = y
    BY <2>2, <2>3, <2>4, <2>5, <2>6, <2>7
  <2>9. ts + 1 = x + (d + k + 1) + z + n
    BY <1>4, <2>3, <2>8
  <2> QED
    BY <2>4, <2>6, <2>7, <2>9
<1>10. Books(r, K, used, kb, p, b, d + k + 1, ts + 1, ks, tg, kg)
  BY <1>1, <1>2, <1>9 DEF Books
<1> QED
  BY <1>7, <1>8, <1>10 DEF ConnOK

(* The new batch instead of one more drop. *)
LEMMA AppendOK ==
    ASSUME NEW T, NEW K, NEW tb, NEW kb, NEW p, NEW b, NEW d, NEW ts,
           NEW ks, NEW tg, NEW kg, NEW e \in Nat,
           ConnOK("open", T, K, tb, kb, p, b, e + 1, ts, ks, tg, kg),
           \A i \in 1..Len(T) : T[i].id < ts,
           TopicFlying(p, b) => b.id < ts,
           \A j \in 1..Len(tg) : tg[j] < ts,
           NEW new \in Batch, new.id = ts, new.lane # Control,
           Len(T) < Capacity, new.bytes <= Room(tb)
    PROVE  ConnOK("open", Append(T, new), K, tb + new.bytes, kb, p, b, e, ts,
                  ks, tg, kg)
<1>1. /\ Shape(T, K, tb, kb, p, b, e + 1, ts, ks, tg, kg)
      /\ Order(T, p, b, ts, tg)
      /\ Books(T, K, tb, kb, p, b, e + 1, ts, ks, tg, kg)
  BY DEF ConnOK
<1>2. PICK R : R = Append(T, new)
  OBVIOUS
<1>3. /\ T \in Seq(Batch) /\ R \in Seq(Batch) /\ Len(T) \in Nat
      /\ Len(R) = Len(T) + 1 /\ R[Len(R)] = new
      /\ \A i \in 1..Len(T) : R[i] = T[i]
      /\ \A i \in 1..Len(R) : i = Len(R) \/ i \in 1..Len(T)
      /\ ts \in Nat /\ Len(tg) \in Nat
  BY <1>1, <1>2 DEF Shape
<1>4. Bytes(R) = tb + new.bytes /\ new.bytes \in Nat /\ tb \in 0..ByteLimit
  BY <1>1, <1>2, <1>3, BytesAppend DEF Books, Shape, Batch
<1>5. tb + new.bytes \in 0..ByteLimit
  BY <1>4, LimitAssumption DEF Room
<1>6. \A i \in 1..Len(R) : R[i].lane # Control
  BY <1>1, <1>3 DEF Shape
<1>7. Len(R) <= Capacity
  BY <1>3, LimitAssumption
<1>8. Shape(R, K, tb + new.bytes, kb, p, b, e, ts, ks, tg, kg)
  BY <1>1, <1>3, <1>5, <1>6, <1>7 DEF Shape
<1>9. Order(R, p, b, ts, tg)
  <2>1. Rising(R)
    <3> SUFFICES ASSUME NEW i \in 1..Len(R), NEW j \in 1..Len(R), i < j
                 PROVE  R[i].id < R[j].id
      BY DEF Rising
    <3>1. i \in 1..Len(T) /\ R[i] = T[i]
      BY <1>3
    <3>2. CASE j = Len(R)
      BY <1>3, <3>1, <3>2
    <3>3. CASE j \in 1..Len(T)
      BY <1>1, <1>3, <3>1, <3>3 DEF Order, Rising
    <3> QED
      BY <1>3, <3>2, <3>3
  <2>2. \A i \in 1..Len(R) : R[i].id <= ts
    BY <1>1, <1>3 DEF Order
  <2>3. TopicFlying(p, b) =>
          b.id <= ts /\ \A i \in 1..Len(R) : b.id < R[i].id
    BY <1>1, <1>3 DEF Order
  <2>4. \A j \in 1..Len(tg) :
          /\ tg[j] <= ts
          /\ TopicFlying(p, b) => tg[j] < b.id
          /\ \A i \in 1..Len(R) : tg[j] < R[i].id
    BY <1>1, <1>3 DEF Order
  <2> QED
    BY <1>1, <2>1, <2>2, <2>3, <2>4 DEF Order
<1>10. ts = Len(tg) + e + Len(R) + Aloft(p, b)
  <2>1. Aloft(p, b) \in Nat
    BY DEF Aloft
  <2>2. ts = Len(tg) + (e + 1) + Len(T) + Aloft(p, b)
    BY <1>1 DEF Books
  <2> QED
    BY <1>3, <2>1, <2>2
<1>11. Books(R, K, tb + new.bytes, kb, p, b, e, ts, ks, tg, kg)
  BY <1>1, <1>4, <1>10 DEF Books
<1> QED
  BY <1>2, <1>8, <1>9, <1>11 DEF ConnOK

LEMMA EnqueueControlOK ==
    ASSUME NEW T, NEW K, NEW tb, NEW kb, NEW p, NEW b, NEW d, NEW ts,
           NEW ks, NEW tg, NEW kg,
           ConnOK("open", T, K, tb, kb, p, b, d, ts, ks, tg, kg),
           NEW new \in Batch, new.id = ks + 1, new.lane = Control,
           Len(K) < ControlCapacity, new.bytes <= Room(kb)
    PROVE  ConnOK("open", T, Append(K, new), tb, kb + new.bytes, p, b, d, ts,
                  ks + 1, tg, kg)
<1>1. /\ Shape(T, K, tb, kb, p, b, d, ts, ks, tg, kg)
      /\ Order(T, p, b, ts, tg)
      /\ Books(T, K, tb, kb, p, b, d, ts, ks, tg, kg)
  BY DEF ConnOK
<1>2. PICK R : R = Append(K, new)
  OBVIOUS
<1>3. /\ K \in Seq(Batch) /\ R \in Seq(Batch) /\ Len(K) \in Nat
      /\ Len(R) = Len(K) + 1 /\ R[Len(R)] = new
      /\ \A i \in 1..Len(K) : R[i] = K[i]
      /\ \A i \in 1..Len(R) : i = Len(R) \/ i \in 1..Len(K)
      /\ ks \in Nat /\ kg \in Nat
  BY <1>1, <1>2 DEF Shape
<1>4. Bytes(R) = kb + new.bytes /\ new.bytes \in Nat /\ kb \in 0..ByteLimit
  BY <1>1, <1>2, <1>3, BytesAppend DEF Books, Shape, Batch
<1>5. kb + new.bytes \in 0..ByteLimit
  BY <1>4, LimitAssumption DEF Room
<1>6. \A i \in 1..Len(R) : R[i].lane = Control
  BY <1>1, <1>3 DEF Shape
<1>7. Len(R) <= ControlCapacity
  BY <1>3, LimitAssumption
<1>8. Shape(T, R, tb, kb + new.bytes, p, b, d, ts, ks + 1, tg, kg)
  BY <1>1, <1>3, <1>5, <1>6, <1>7 DEF Shape
<1>9. PICK n \in Nat : n = ControlAloft(p, b)
  BY DEF ControlAloft
<1>10. /\ ks = kg + Len(K) + n
       /\ \A i \in 1..Len(K) : K[i].id = kg + i + n
  BY <1>1, <1>9 DEF Books
<1>11. /\ ks + 1 = kg + Len(R) + n
       /\ \A i \in 1..Len(R) : R[i].id = kg + i + n
  <2>1. ks + 1 = kg + Len(R) + n
    BY <1>3, <1>9, <1>10
  <2>2. \A i \in 1..Len(K) : R[i].id = kg + i + n
    BY <1>3, <1>10
  <2>3. R[Len(R)].id = kg + Len(R) + n
    BY <1>3, <2>1
  <2> QED
    BY <1>3, <2>1, <2>2, <2>3
<1>12. Books(T, R, tb, kb + new.bytes, p, b, d, ts, ks + 1, tg, kg)
  BY <1>1, <1>4, <1>9, <1>11 DEF Books
<1> QED
  BY <1>1, <1>2, <1>8, <1>12 DEF ConnOK

(* The writer hands a control batch to the socket. *)
LEMMA DeliverControlOK ==
    ASSUME NEW T, NEW K, NEW tb, NEW kb, NEW b, NEW d, NEW ts,
           NEW ks, NEW tg, NEW kg,
           ConnOK("open", T, K, tb, kb, "encoding", b, d, ts, ks, tg, kg),
           b.lane = Control
    PROVE  ConnOK("open", T, K, tb, kb, "check", NoBatch, d, ts, ks, tg, b.id)
<1>1. /\ Shape(T, K, tb, kb, "encoding", b, d, ts, ks, tg, kg)
      /\ Order(T, "encoding", b, ts, tg)
      /\ Books(T, K, tb, kb, "encoding", b, d, ts, ks, tg, kg)
  BY DEF ConnOK
<1>2. /\ ControlAloft("encoding", b) = 1 /\ Aloft("encoding", b) = 0
      /\ ControlAloft("check", NoBatch) = 0 /\ Aloft("check", NoBatch) = 0
      /\ ControlFlying("encoding", b)
      /\ ~ControlFlying("check", NoBatch) /\ ~TopicFlying("check", NoBatch)
  BY DEF ControlAloft, Aloft, ControlFlying, TopicFlying
<1>3. b.id = kg + 1 /\ kg \in Nat /\ Len(K) \in Nat
  BY <1>1, <1>2 DEF Books, Shape
<1>4. /\ ks = b.id + Len(K) + 0
      /\ \A i \in 1..Len(K) : K[i].id = b.id + i + 0
  <2>1. /\ ks = kg + Len(K) + 1
        /\ \A i \in 1..Len(K) : K[i].id = kg + i + 1
    BY <1>1, <1>2 DEF Books
  <2> QED
    BY <1>3, <2>1
<1>5. Shape(T, K, tb, kb, "check", NoBatch, d, ts, ks, tg, b.id)
  BY <1>1, <1>3 DEF Shape
<1>6. Order(T, "check", NoBatch, ts, tg)
  BY <1>1, <1>2 DEF Order
<1>7. Books(T, K, tb, kb, "check", NoBatch, d, ts, ks, tg, b.id)
  BY <1>1, <1>2, <1>4 DEF Books
<1> QED
  BY <1>5, <1>6, <1>7 DEF ConnOK

LEMMA DeliverTopicOK ==
    ASSUME NEW T, NEW K, NEW tb, NEW kb, NEW b, NEW d, NEW ts,
           NEW ks, NEW tg, NEW kg,
           ConnOK("open", T, K, tb, kb, "encoding", b, d, ts, ks, tg, kg),
           b.lane # Control
    PROVE  ConnOK("open", T, K, tb, kb, "check", NoBatch, d, ts, ks,
                  Append(tg, b.id), kg)
<1>1. /\ Shape(T, K, tb, kb, "encoding", b, d, ts, ks, tg, kg)
      /\ Order(T, "encoding", b, ts, tg)
      /\ Books(T, K, tb, kb, "encoding", b, d, ts, ks, tg, kg)
  BY DEF ConnOK
<1>2. /\ ControlAloft("encoding", b) = 0 /\ Aloft("encoding", b) = 1
      /\ ControlAloft("check", NoBatch) = 0 /\ Aloft("check", NoBatch) = 0
      /\ TopicFlying("encoding", b)
      /\ ~ControlFlying("check", NoBatch) /\ ~TopicFlying("check", NoBatch)
  BY DEF ControlAloft, Aloft, ControlFlying, TopicFlying
<1>3. PICK g : g = Append(tg, b.id)
  OBVIOUS
<1>4. b.id \in Nat /\ tg \in Seq(Nat) /\ d \in Nat /\ Len(T) \in Nat
  BY <1>1 DEF Shape, Batch
<1>5. /\ g \in Seq(Nat) /\ Len(g) = Len(tg) + 1 /\ g[Len(g)] = b.id
      /\ \A i \in 1..Len(tg) : g[i] = tg[i]
      /\ \A i \in 1..Len(g) : i = Len(g) \/ i \in 1..Len(tg)
      /\ Len(tg) \in Nat
  BY <1>3, <1>4
<1>6. Shape(T, K, tb, kb, "check", NoBatch, d, ts, ks, g, kg)
  BY <1>1, <1>5 DEF Shape
<1>7. Order(T, "check", NoBatch, ts, g)
  <2>1. \A i, j \in 1..Len(g) : i < j => g[i] < g[j]
    <3> SUFFICES ASSUME NEW i \in 1..Len(g), NEW j \in 1..Len(g), i < j
                 PROVE  g[i] < g[j]
      OBVIOUS
    <3>1. i \in 1..Len(tg) /\ g[i] = tg[i]
      BY <1>5
    <3>2. CASE j = Len(g)
      BY <1>1, <1>2, <1>5, <3>1, <3>2 DEF Order
    <3>3. CASE j \in 1..Len(tg)
      BY <1>1, <1>5, <3>1, <3>3 DEF Order
    <3> QED
      BY <1>5, <3>2, <3>3
  <2>2. \A j \in 1..Len(g) :
          g[j] <= ts /\ \A i \in 1..Len(T) : g[j] < T[i].id
    BY <1>1, <1>2, <1>5 DEF Order
  <2> QED
    BY <1>1, <1>2, <2>1, <2>2 DEF Order
<1>8. ts = Len(g) + d + Len(T) + 0
  <2>1. ts = Len(tg) + d + Len(T) + 1
    BY <1>1, <1>2 DEF Books
  <2> QED
    BY <1>4, <1>5, <2>1
<1>9. Books(T, K, tb, kb, "check", NoBatch, d, ts, ks, g, kg)
  BY <1>1, <1>2, <1>8 DEF Books
<1> QED
  BY <1>3, <1>6, <1>7, <1>9 DEF ConnOK

(* A topic batch that cannot be encoded is dropped. *)
LEMMA RejectTopicOK ==
    ASSUME NEW T, NEW K, NEW tb, NEW kb, NEW b, NEW d, NEW ts,
           NEW ks, NEW tg, NEW kg,
           ConnOK("open", T, K, tb, kb, "encoding", b, d, ts, ks, tg, kg),
           b.lane # Control
    PROVE  ConnOK("open", T, K, tb, kb, "check", NoBatch, d + 1, ts, ks, tg, kg)
<1>1. /\ Shape(T, K, tb, kb, "encoding", b, d, ts, ks, tg, kg)
      /\ Order(T, "encoding", b, ts, tg)
      /\ Books(T, K, tb, kb, "encoding", b, d, ts, ks, tg, kg)
  BY DEF ConnOK
<1>2. /\ ControlAloft("encoding", b) = 0 /\ Aloft("encoding", b) = 1
      /\ ControlAloft("check", NoBatch) = 0 /\ Aloft("check", NoBatch) = 0
      /\ ~ControlFlying("check", NoBatch) /\ ~TopicFlying("check", NoBatch)
  BY DEF ControlAloft, Aloft, ControlFlying, TopicFlying
<1>3. d + 1 \in Nat /\ d \in Nat /\ Len(tg) \in Nat /\ Len(T) \in Nat
  BY <1>1 DEF Shape
<1>4. Shape(T, K, tb, kb, "check", NoBatch, d + 1, ts, ks, tg, kg)
  BY <1>1, <1>3 DEF Shape
<1>5. Order(T, "check", NoBatch, ts, tg)
  BY <1>1, <1>2 DEF Order
<1>6. ts = Len(tg) + (d + 1) + Len(T) + 0
  <2>1. ts = Len(tg) + d + Len(T) + 1
    BY <1>1, <1>2 DEF Books
  <2> QED
    BY <1>3, <2>1
<1>7. Books(T, K, tb, kb, "check", NoBatch, d + 1, ts, ks, tg, kg)
  BY <1>1, <1>2, <1>6 DEF Books
<1> QED
  BY <1>4, <1>5, <1>7 DEF ConnOK

-----------------------------------------------------------------------------
(***************************************************************************)
(* The invariant of the lanes.  Every step gives one connection new        *)
(* values, for which the lemmas above show ConnOK.                         *)
(***************************************************************************)
Phase(c) == IF Closed(c) THEN "closed" ELSE "open"

LaneFields ==
    /\ topics = [c \in Conn |-> topics[c]]
    /\ control = [c \in Conn |-> control[c]]
    /\ topicBytes = [c \in Conn |-> topicBytes[c]]
    /\ controlBytes = [c \in Conn |-> controlBytes[c]]
    /\ pc = [c \in Conn |-> pc[c]]
    /\ batch = [c \in Conn |-> batch[c]]
    /\ dropped = [c \in Conn |-> dropped[c]]
    /\ topicSent = [c \in Conn |-> topicSent[c]]
    /\ controlSent = [c \in Conn |-> controlSent[c]]
    /\ topicGot = [c \in Conn |-> topicGot[c]]
    /\ controlGot = [c \in Conn |-> controlGot[c]]

LaneOK(c) ==
    ConnOK(Phase(c), topics[c], control[c], topicBytes[c], controlBytes[c],
           pc[c], batch[c], dropped[c], topicSent[c], controlSent[c],
           topicGot[c], controlGot[c])

LaneInv == LaneFields /\ \A c \in Conn : LaneOK(c)

(* Connection c has new values, the others keep theirs. *)
Becomes(c, z, T, K, tb, kb, p, b, d, ts, ks, tg, kg) ==
    /\ topics' = [topics EXCEPT ![c] = T]
    /\ control' = [control EXCEPT ![c] = K]
    /\ topicBytes' = [topicBytes EXCEPT ![c] = tb]
    /\ controlBytes' = [controlBytes EXCEPT ![c] = kb]
    /\ pc' = [pc EXCEPT ![c] = p]
    /\ batch' = [batch EXCEPT ![c] = b]
    /\ dropped' = [dropped EXCEPT ![c] = d]
    /\ topicSent' = [topicSent EXCEPT ![c] = ts]
    /\ controlSent' = [controlSent EXCEPT ![c] = ks]
    /\ topicGot' = [topicGot EXCEPT ![c] = tg]
    /\ controlGot' = [controlGot EXCEPT ![c] = kg]
    /\ Phase(c)' = z
    /\ \A e \in Conn \ {c} : Phase(e)' = Phase(e)

LEMMA LaneStep ==
    ASSUME LaneInv, NEW c \in Conn, NEW z, NEW T, NEW K, NEW tb, NEW kb,
           NEW p, NEW b, NEW d, NEW ts, NEW ks, NEW tg, NEW kg,
           Becomes(c, z, T, K, tb, kb, p, b, d, ts, ks, tg, kg),
           ConnOK(z, T, K, tb, kb, p, b, d, ts, ks, tg, kg)
    PROVE  LaneInv'
<1>1. LaneFields'
  BY DEF LaneInv, LaneFields, Becomes
<1>2. LaneOK(c)'
  BY DEF LaneInv, LaneFields, Becomes, LaneOK
<1>3. ASSUME NEW e \in Conn, e # c PROVE LaneOK(e)'
  <2>1. /\ topics'[e] = topics[e] /\ control'[e] = control[e]
        /\ topicBytes'[e] = topicBytes[e] /\ controlBytes'[e] = controlBytes[e]
        /\ pc'[e] = pc[e] /\ batch'[e] = batch[e] /\ dropped'[e] = dropped[e]
        /\ topicSent'[e] = topicSent[e] /\ controlSent'[e] = controlSent[e]
        /\ topicGot'[e] = topicGot[e] /\ controlGot'[e] = controlGot[e]
    BY <1>3 DEF LaneInv, LaneFields, Becomes
  <2>2. Phase(e)' = Phase(e)
    BY <1>3 DEF Becomes
  <2>3. LaneOK(e)
    BY DEF LaneInv
  <2> QED
    BY <2>1, <2>2, <2>3 DEF LaneOK
<1> QED
  BY <1>1, <1>2, <1>3 DEF LaneInv

LEMMA SamePhase ==
    ASSUME UNCHANGED closeVars PROVE \A e : Phase(e)' = Phase(e)
BY DEF closeVars, Phase, Closed

(* Only connection c is closed. *)
LEMMA ClosePhase ==
    ASSUME WakeInv, NEW c \in Conn,
           \/ /\ senderClosed' = [senderClosed EXCEPT ![c] = TRUE]
              /\ UNCHANGED receiverClosed
           \/ /\ receiverClosed' = [receiverClosed EXCEPT ![c] = TRUE]
              /\ UNCHANGED senderClosed
    PROVE  /\ Phase(c)' = "closed"
           /\ \A e \in Conn \ {c} : Phase(e)' = Phase(e)
BY DEF WakeInv, WakeType, Phase, Closed

LEMMA LaneUntouched ==
    ASSUME LaneInv, UNCHANGED <<queueVars, closeVars, dropped, topicSent,
                                controlSent, pc, batch, gotVars>>
    PROVE  LaneInv'
<1>1. \A e : Phase(e)' = Phase(e)
  BY SamePhase
<1> QED
  BY <1>1 DEF LaneInv, LaneFields, LaneOK, queueVars, gotVars

(* The writer moves between two batches. *)
LEMMA LaneIdle ==
    ASSUME LaneInv, NEW c \in Conn, NEW p, pc[c] # "encoding", p # "encoding",
           pc' = [pc EXCEPT ![c] = p],
           UNCHANGED <<queueVars, closeVars, dropped, topicSent, controlSent,
                       batch, gotVars>>
    PROVE  LaneInv'
<1>1. \A e : Phase(e)' = Phase(e)
  BY SamePhase
<1>2. Becomes(c, Phase(c), topics[c], control[c], topicBytes[c],
              controlBytes[c], p, batch[c], dropped[c], topicSent[c],
              controlSent[c], topicGot[c], controlGot[c])
  BY <1>1 DEF LaneInv, LaneFields, Becomes, queueVars, gotVars
<1>3. LaneOK(c)
  BY DEF LaneInv
<1>4. ConnOK(Phase(c), topics[c], control[c], topicBytes[c],
             controlBytes[c], p, batch[c], dropped[c], topicSent[c],
             controlSent[c], topicGot[c], controlGot[c])
  BY <1>3, IdleOK DEF LaneOK
<1> QED
  BY <1>2, <1>4, LaneStep

(* The connection is closed and its lanes are cleared. *)
LEMMA LaneClose ==
    ASSUME LaneInv, WakeInv, NEW c \in Conn,
           \/ /\ senderClosed' = [senderClosed EXCEPT ![c] = TRUE]
              /\ UNCHANGED receiverClosed
           \/ /\ receiverClosed' = [receiverClosed EXCEPT ![c] = TRUE]
              /\ UNCHANGED senderClosed,
           topics' = [topics EXCEPT ![c] = << >>],
           control' = [control EXCEPT ![c] = << >>],
           NEW tb, topicBytes' = [topicBytes EXCEPT ![c] = tb],
           NEW kb, controlBytes' = [controlBytes EXCEPT ![c] = kb],
           tb \in {0, topicBytes[c]}, kb \in {0, controlBytes[c]},
           NEW p, pc' = [pc EXCEPT ![c] = p],
           NEW b, batch' = [batch EXCEPT ![c] = b],
           \/ p = pc[c] /\ b = batch[c]
           \/ p # "encoding" /\ b \in {batch[c], NoBatch},
           NEW ks, controlSent' = [controlSent EXCEPT ![c] = ks],
           ks \in {controlSent[c], controlSent[c] + 1},
           UNCHANGED <<dropped, topicSent, gotVars>>
    PROVE  LaneInv'
<1>1. LaneOK(c)
  BY DEF LaneInv
<1>2. /\ topicBytes[c] \in 0..ByteLimit /\ controlBytes[c] \in 0..ByteLimit
      /\ controlSent[c] \in Nat
  BY <1>1 DEF LaneOK, ConnOK, Shape
<1>3. tb \in 0..ByteLimit /\ kb \in 0..ByteLimit /\ ks \in Nat
  BY <1>2, LimitAssumption
<1>4. Phase(c)' = "closed" /\ \A e \in Conn \ {c} : Phase(e)' = Phase(e)
  BY ClosePhase
<1>5. Becomes(c, "closed", << >>, << >>, tb, kb, p, b, dropped[c],
              topicSent[c], ks, topicGot[c], controlGot[c])
  BY <1>4 DEF LaneInv, LaneFields, Becomes, gotVars
<1>6. ConnOK("closed", << >>, << >>, tb, kb, p, b, dropped[c],
             topicSent[c], ks, topicGot[c], controlGot[c])
  BY <1>1, <1>3, ClosedOK DEF LaneOK
<1> QED
  BY <1>5, <1>6, LaneStep

LEMMA OpenPhase ==
    ASSUME NEW c, ~Closed(c) PROVE Phase(c) = "open"
BY DEF Phase

LEMMA ClosedPhase ==
    ASSUME NEW c, Closed(c) PROVE Phase(c) = "closed"
BY DEF Phase

(* A lane that holds something belongs to an open connection. *)
LEMMA PendingOpen ==
    ASSUME LaneInv, NEW c \in Conn, topics[c] # << >> \/ control[c] # << >>
    PROVE  Phase(c) = "open"
<1>1. LaneOK(c)
  BY DEF LaneInv
<1>2. Phase(c) # "closed"
  BY <1>1 DEF LaneOK, ConnOK
<1> QED
  BY <1>2 DEF Phase

(* An offer of a topic batch, by the values of the action. *)
LEMMA LaneEnqueueTopic ==
    ASSUME LaneInv, NEW c \in Conn, NEW t \in Topic, NEW limit \in TopicLimits,
           NEW bytes \in Sizes, NEW encode \in Encodings,
           EnqueueTopic(c, t, limit, bytes, encode)
    PROVE  /\ LaneInv'
           /\ \E r, used, k :
                 /\ EvictedFrom(topics[c], t, r, used, k)
                 /\ topics[c] \in Seq(Batch)
                 /\ \/ topics'[c] = r
                    \/ \E new \in Batch : /\ topics'[c] = Append(r, new)
                                          /\ new.lane = t
                                          /\ new.id = topicSent[c] + 1
                 /\ topicSent'[c] = topicSent[c] + 1
                 /\ \A i \in 1..Len(topics[c]) :
                       topics[c][i].id <= topicSent[c]
                 /\ topicSent[c] \in Nat
<1>1. PICK lane : lane = Evict(topics[c], topicBytes[c], t, limit, bytes)
  OBVIOUS
<1>2. PICK new : new = [lane |-> t, id |-> topicSent[c] + 1, bytes |-> bytes,
                        encode |-> encode]
  OBVIOUS
<1> DEFINE fits == Len(lane.queue) < Capacity /\ bytes <= Room(lane.used)
<1>3. /\ ~Closed(c)
      /\ topics' = [topics EXCEPT ![c] =
                       IF fits THEN Append(lane.queue, new) ELSE lane.queue]
      /\ topicBytes' = [topicBytes EXCEPT ![c] =
                           IF fits THEN lane.used + bytes ELSE lane.used]
      /\ dropped' = [dropped EXCEPT ![c] =
                        @ + lane.dropped + IF fits THEN 0 ELSE 1]
      /\ topicSent' = [topicSent EXCEPT ![c] = topicSent[c] + 1]
      /\ UNCHANGED <<control, controlBytes, closeVars, controlSent, pc, batch,
                     gotVars>>
  BY <1>1, <1>2 DEF EnqueueTopic, receiverVars
<1>4. PICK r, used, k : r = lane.queue /\ used = lane.used /\ k = lane.dropped
  OBVIOUS
<1>5. ConnOK("open", topics[c], control[c], topicBytes[c], controlBytes[c],
             pc[c], batch[c], dropped[c], topicSent[c], controlSent[c],
             topicGot[c], controlGot[c])
  BY <1>3, OpenPhase DEF LaneInv, LaneOK
<1>6. /\ topics[c] \in Seq(Batch) /\ Rising(topics[c])
      /\ topicBytes[c] = Bytes(topics[c])
      /\ topicSent[c] \in Nat /\ dropped[c] \in Nat
      /\ \A i \in 1..Len(topics[c]) : topics[c][i].id <= topicSent[c]
  BY <1>5 DEF ConnOK, Shape, Order, Books
<1>7. EvictedFrom(topics[c], t, r, used, k)
  BY <1>1, <1>4, <1>6, EvictResult
<1>8. ConnOK("open", r, control[c], used, controlBytes[c], pc[c], batch[c],
             dropped[c] + k + 1, topicSent[c] + 1, controlSent[c],
             topicGot[c], controlGot[c])
  BY <1>5, <1>7, EvictOK
<1>9. Phase(c)' = "open" /\ \A e \in Conn \ {c} : Phase(e)' = Phase(e)
  BY <1>3, SamePhase, OpenPhase
<1>10. k \in Nat /\ r \in Seq(Batch)
       /\ \A i \in 1..Len(r) : r[i].id <= topicSent[c]
  BY <1>6, <1>7 DEF EvictedFrom, Kept
<1>11. /\ topicSent'[c] = topicSent[c] + 1
       /\ topics'[c] = IF fits THEN Append(r, new) ELSE r
  BY <1>3, <1>4 DEF LaneInv, LaneFields
<1>12. new \in Batch /\ new.lane = t /\ new.id = topicSent[c] + 1
       /\ new.bytes = bytes /\ new.lane # Control
  BY <1>2, <1>6, LimitAssumption, ControlAssumption DEF Batch
<1>13. CASE ~fits
  <2>1. Becomes(c, "open", r, control[c], used, controlBytes[c], pc[c],
                batch[c], dropped[c] + k + 1, topicSent[c] + 1,
                controlSent[c], topicGot[c], controlGot[c])
    BY <1>3, <1>4, <1>9, <1>13 DEF LaneInv, LaneFields, Becomes, gotVars
  <2>2. LaneInv'
    BY <1>8, <2>1, LaneStep
  <2> QED
    BY <1>6, <1>7, <1>10, <1>11, <1>13, <2>2
<1>14. CASE fits
  <2>1. PICK e \in Nat : e = dropped[c] + k
    BY <1>6, <1>10
  <2>2. Becomes(c, "open", Append(r, new), control[c], used + bytes,
                controlBytes[c], pc[c], batch[c], e, topicSent[c] + 1,
                controlSent[c], topicGot[c], controlGot[c])
    <3>1. dropped[c] + k + 0 = e
      BY <1>6, <1>10, <2>1
    <3>2. /\ topics' = [topics EXCEPT ![c] = Append(r, new)]
          /\ topicBytes' = [topicBytes EXCEPT ![c] = used + bytes]
          /\ dropped' = [dropped EXCEPT ![c] = e]
      BY <1>3, <1>4, <1>14, <3>1
    <3> QED
      BY <1>3, <1>9, <3>2 DEF LaneInv, LaneFields, Becomes, gotVars
  <2>3. PICK ts \in Nat : ts = topicSent[c] + 1
    BY <1>6
  <2>4. Order(topics[c], pc[c], batch[c], topicSent[c], topicGot[c])
        /\ Shape(topics[c], control[c], topicBytes[c], controlBytes[c], pc[c],
                 batch[c], dropped[c], topicSent[c], controlSent[c],
                 topicGot[c], controlGot[c])
    BY <1>5 DEF ConnOK
  <2>5. /\ \A i \in 1..Len(r) : r[i].id < ts
        /\ TopicFlying(pc[c], batch[c]) => batch[c].id < ts
        /\ \A j \in 1..Len(topicGot[c]) : topicGot[c][j] < ts
    <3>1. \A i \in 1..Len(r) : r[i].id \in Nat
      BY <1>10, ElementBytes
    <3>2. TopicFlying(pc[c], batch[c]) =>
             batch[c].id \in Nat /\ batch[c].id <= topicSent[c]
      BY <2>4 DEF Order, Shape, TopicFlying, Batch
    <3>3. \A j \in 1..Len(topicGot[c]) :
             topicGot[c][j] \in Nat /\ topicGot[c][j] <= topicSent[c]
      BY <2>4 DEF Order, Shape
    <3> QED
      BY <1>6, <1>10, <2>3, <3>1, <3>2, <3>3
  <2>6. ConnOK("open", r, control[c], used, controlBytes[c], pc[c], batch[c],
               e + 1, ts, controlSent[c], topicGot[c], controlGot[c])
    BY <1>8, <2>1, <2>3
  <2>7. ConnOK("open", Append(r, new), control[c], used + bytes,
               controlBytes[c], pc[c], batch[c], e, ts,
               controlSent[c], topicGot[c], controlGot[c])
    BY <1>4, <1>12, <1>14, <2>3, <2>5, <2>6, AppendOK
  <2>8. LaneInv'
    BY <2>2, <2>3, <2>7, LaneStep
  <2> QED
    BY <1>6, <1>7, <1>10, <1>11, <1>12, <1>14, <2>8
<1> QED
  BY <1>13, <1>14

LEMMA LaneEnqueueControl ==
    ASSUME LaneInv, WakeInv, NEW c \in Conn, NEW bytes \in Sizes,
           NEW encode \in Encodings, EnqueueControl(c, bytes, encode)
    PROVE  LaneInv'
<1>1. PICK new : new = [lane |-> Control, id |-> controlSent[c] + 1,
                        bytes |-> bytes, encode |-> encode]
  OBVIOUS
<1>2. /\ ~Closed(c)
      /\ controlSent' = [controlSent EXCEPT ![c] = controlSent[c] + 1]
      /\ UNCHANGED <<dropped, topicSent, pc, batch, gotVars>>
  BY DEF EnqueueControl, receiverVars
<1>3. ConnOK("open", topics[c], control[c], topicBytes[c], controlBytes[c],
             pc[c], batch[c], dropped[c], topicSent[c], controlSent[c],
             topicGot[c], controlGot[c])
  BY <1>2, OpenPhase DEF LaneInv, LaneOK
<1>4. controlSent[c] \in Nat
  BY <1>3 DEF ConnOK, Shape
<1>5. new \in Batch /\ new.lane = Control /\ new.id = controlSent[c] + 1
      /\ new.bytes = bytes
  BY <1>1, <1>4, LimitAssumption DEF Batch
<1>6. CASE ControlFits(c, bytes)
  <2>1. /\ control' = [control EXCEPT ![c] = Append(control[c], new)]
        /\ controlBytes' = [controlBytes EXCEPT ![c] = controlBytes[c] + bytes]
        /\ UNCHANGED <<topics, topicBytes, closeVars>>
    BY <1>1, <1>6 DEF EnqueueControl
  <2>2. Phase(c)' = "open" /\ \A e \in Conn \ {c} : Phase(e)' = Phase(e)
    BY <1>2, <2>1, SamePhase, OpenPhase
  <2>3. Becomes(c, "open", topics[c], Append(control[c], new), topicBytes[c],
                controlBytes[c] + bytes, pc[c], batch[c], dropped[c],
                topicSent[c], controlSent[c] + 1, topicGot[c], controlGot[c])
    BY <1>2, <2>1, <2>2 DEF LaneInv, LaneFields, Becomes, gotVars
  <2>4. Len(control[c]) < ControlCapacity /\ new.bytes <= Room(controlBytes[c])
    BY <1>5, <1>6 DEF ControlFits
  <2>5. ConnOK("open", topics[c], Append(control[c], new), topicBytes[c],
               controlBytes[c] + new.bytes, pc[c], batch[c], dropped[c],
               topicSent[c], controlSent[c] + 1, topicGot[c], controlGot[c])
    BY <1>3, <1>5, <2>4, EnqueueControlOK
  <2> QED
    BY <1>5, <2>3, <2>5, LaneStep
<1>7. CASE ~ControlFits(c, bytes)
  <2>1. /\ senderClosed' = [senderClosed EXCEPT ![c] = TRUE]
        /\ UNCHANGED receiverClosed
        /\ topics' = [topics EXCEPT ![c] = << >>]
        /\ control' = [control EXCEPT ![c] = << >>]
        /\ topicBytes' = [topicBytes EXCEPT ![c] = 0]
        /\ controlBytes' = [controlBytes EXCEPT ![c] = 0]
    BY <1>7 DEF EnqueueControl, ClearLanes
  <2>2. /\ pc' = [pc EXCEPT ![c] = pc[c]]
        /\ batch' = [batch EXCEPT ![c] = batch[c]]
    BY <1>2 DEF LaneInv, LaneFields
  <2> QED
    BY <1>2, <2>1, <2>2, LaneClose
<1> QED
  BY <1>6, <1>7

LEMMA LaneDropOutput ==
    ASSUME LaneInv, WakeInv, NEW c \in Conn, DropOutput(c)
    PROVE  LaneInv'
<1>1. /\ senderClosed' = [senderClosed EXCEPT ![c] = TRUE]
      /\ UNCHANGED receiverClosed
      /\ topics' = [topics EXCEPT ![c] = << >>]
      /\ control' = [control EXCEPT ![c] = << >>]
      /\ topicBytes' = [topicBytes EXCEPT ![c] = 0]
      /\ controlBytes' = [controlBytes EXCEPT ![c] = 0]
      /\ UNCHANGED <<dropped, topicSent, controlSent, pc, batch, gotVars>>
  BY DEF DropOutput, ClearLanes, receiverVars
<1>2. /\ pc' = [pc EXCEPT ![c] = pc[c]]
      /\ batch' = [batch EXCEPT ![c] = batch[c]]
      /\ controlSent' = [controlSent EXCEPT ![c] = controlSent[c]]
  BY <1>1 DEF LaneInv, LaneFields
<1> QED
  BY <1>1, <1>2, LaneClose

LEMMA LaneDropReceiver ==
    ASSUME LaneInv, WakeInv, NEW c \in Conn, DropReceiver(c)
    PROVE  LaneInv'
<1>1. /\ receiverClosed' = [receiverClosed EXCEPT ![c] = TRUE]
      /\ UNCHANGED senderClosed
      /\ topics' = [topics EXCEPT ![c] = << >>]
      /\ control' = [control EXCEPT ![c] = << >>]
      /\ pc' = [pc EXCEPT ![c] = "gone"]
      /\ UNCHANGED <<topicBytes, controlBytes, dropped, topicSent,
                     controlSent, batch, gotVars>>
  BY DEF DropReceiver, senderVars
<1>2. /\ topicBytes' = [topicBytes EXCEPT ![c] = topicBytes[c]]
      /\ controlBytes' = [controlBytes EXCEPT ![c] = controlBytes[c]]
      /\ batch' = [batch EXCEPT ![c] = batch[c]]
      /\ controlSent' = [controlSent EXCEPT ![c] = controlSent[c]]
  BY <1>1 DEF LaneInv, LaneFields
<1>3. PICK p : p # "encoding" /\ pc' = [pc EXCEPT ![c] = p]
  BY <1>1
<1>4. PICK tb, kb, b, ks : /\ tb = topicBytes[c] /\ kb = controlBytes[c]
                           /\ b = batch[c] /\ ks = controlSent[c]
  OBVIOUS
<1>5. /\ topicBytes' = [topicBytes EXCEPT ![c] = tb]
      /\ controlBytes' = [controlBytes EXCEPT ![c] = kb]
      /\ batch' = [batch EXCEPT ![c] = b]
      /\ controlSent' = [controlSent EXCEPT ![c] = ks]
      /\ tb \in {0, topicBytes[c]} /\ kb \in {0, controlBytes[c]}
      /\ b \in {batch[c], NoBatch}
      /\ ks \in {controlSent[c], controlSent[c] + 1}
  BY <1>2, <1>4
<1>6. /\ receiverClosed' = [receiverClosed EXCEPT ![c] = TRUE]
      /\ UNCHANGED senderClosed
      /\ topics' = [topics EXCEPT ![c] = << >>]
      /\ control' = [control EXCEPT ![c] = << >>]
      /\ UNCHANGED <<dropped, topicSent, gotVars>>
  BY <1>1
<1> QED
  BY <1>3, <1>5, <1>6, LaneClose

LEMMA LaneTake ==
    ASSUME LaneInv, NEW c \in Conn, TakeControl(c) \/ TakeTopic(c)
    PROVE  LaneInv'
<1>1. pc[c] # "encoding" /\ Phase(c) = "open"
  BY PendingOpen DEF TakeControl, TakeTopic
<1>2. ConnOK("open", topics[c], control[c], topicBytes[c], controlBytes[c],
             pc[c], batch[c], dropped[c], topicSent[c], controlSent[c],
             topicGot[c], controlGot[c])
  BY <1>1 DEF LaneInv, LaneOK
<1>3. UNCHANGED closeVars
  BY DEF TakeControl, TakeTopic
<1>4. Phase(c)' = "open" /\ \A e \in Conn \ {c} : Phase(e)' = Phase(e)
  BY <1>1, <1>3, SamePhase
<1>5. CASE TakeControl(c)
  <2>1. Becomes(c, "open", topics[c], Tail(control[c]), topicBytes[c],
                controlBytes[c] - Head(control[c]).bytes, "encoding",
                Head(control[c]), dropped[c], topicSent[c], controlSent[c],
                topicGot[c], controlGot[c])
    BY <1>4, <1>5 DEF TakeControl, Start, LaneInv, LaneFields, Becomes,
                      gotVars, senderVars
  <2>2. ConnOK("open", topics[c], Tail(control[c]), topicBytes[c],
               controlBytes[c] - Head(control[c]).bytes, "encoding",
               Head(control[c]), dropped[c], topicSent[c], controlSent[c],
               topicGot[c], controlGot[c])
    BY <1>1, <1>2, <1>5, TakeControlOK DEF TakeControl
  <2> QED
    BY <2>1, <2>2, LaneStep
<1>6. CASE TakeTopic(c)
  <2>1. Becomes(c, "open", Tail(topics[c]), control[c],
                topicBytes[c] - Head(topics[c]).bytes, controlBytes[c],
                "encoding", Head(topics[c]), dropped[c], topicSent[c],
                controlSent[c], topicGot[c], controlGot[c])
    BY <1>4, <1>6 DEF TakeTopic, Start, LaneInv, LaneFields, Becomes,
                      gotVars, senderVars
  <2>2. ConnOK("open", Tail(topics[c]), control[c],
               topicBytes[c] - Head(topics[c]).bytes, controlBytes[c],
               "encoding", Head(topics[c]), dropped[c], topicSent[c],
               controlSent[c], topicGot[c], controlGot[c])
    BY <1>1, <1>2, <1>6, TakeTopicOK DEF TakeTopic
  <2> QED
    BY <2>1, <2>2, LaneStep
<1> QED
  BY <1>5, <1>6

LEMMA LaneFinish ==
    ASSUME LaneInv, WakeInv, NEW c \in Conn, Finish(c)
    PROVE  LaneInv'
<1>1. /\ pc[c] = "encoding"
      /\ pc' = [pc EXCEPT ![c] = "check"]
      /\ batch' = [batch EXCEPT ![c] = NoBatch]
      /\ UNCHANGED <<topicSent, controlSent>>
  BY DEF Finish, senderVars
<1>2. CASE Closed(c)
  <2>1. UNCHANGED <<queueVars, closeVars, dropped, gotVars>>
    BY <1>2 DEF Finish, Discards
  <2>2. Phase(c)' = "closed" /\ \A e \in Conn \ {c} : Phase(e)' = Phase(e)
    BY <1>2, <2>1, SamePhase, ClosedPhase
  <2>3. Becomes(c, "closed", topics[c], control[c], topicBytes[c],
                controlBytes[c], "check", NoBatch, dropped[c], topicSent[c],
                controlSent[c], topicGot[c], controlGot[c])
    BY <1>1, <2>1, <2>2 DEF LaneInv, LaneFields, Becomes, queueVars, gotVars
  <2>4. ConnOK("closed", topics[c], control[c], topicBytes[c],
               controlBytes[c], pc[c], batch[c], dropped[c], topicSent[c],
               controlSent[c], topicGot[c], controlGot[c])
    BY <1>2, ClosedPhase DEF LaneInv, LaneOK
  <2>5. ConnOK("closed", topics[c], control[c], topicBytes[c],
               controlBytes[c], "check", NoBatch, dropped[c], topicSent[c],
               controlSent[c], topicGot[c], controlGot[c])
    <3>1. PICK p : p = "check" /\ p # "encoding"
      OBVIOUS
    <3> QED
      BY <2>4, <3>1, DiscardOK
  <2> QED
    BY <2>3, <2>5, LaneStep
<1>3. CASE ~Closed(c)
  <2>1. ConnOK("open", topics[c], control[c], topicBytes[c],
               controlBytes[c], "encoding", batch[c], dropped[c],
               topicSent[c], controlSent[c], topicGot[c], controlGot[c])
    BY <1>1, <1>3, OpenPhase DEF LaneInv, LaneOK
  <2>2. ASSUME UNCHANGED closeVars
        PROVE  Phase(c)' = "open" /\ \A e \in Conn \ {c} : Phase(e)' = Phase(e)
    BY <1>3, <2>2, SamePhase, OpenPhase
  <2>3. CASE Deliver(c) /\ UNCHANGED <<queueVars, closeVars, dropped>>
    <3>1. CASE batch[c].lane = Control
      <4>1. controlGot' = [controlGot EXCEPT ![c] = batch[c].id]
            /\ UNCHANGED topicGot
        BY <2>3, <3>1 DEF Deliver
      <4>2. Becomes(c, "open", topics[c], control[c], topicBytes[c],
                    controlBytes[c], "check", NoBatch, dropped[c],
                    topicSent[c], controlSent[c], topicGot[c], batch[c].id)
        BY <1>1, <2>2, <2>3, <4>1 DEF LaneInv, LaneFields, Becomes, queueVars
      <4>3. ConnOK("open", topics[c], control[c], topicBytes[c],
                   controlBytes[c], "check", NoBatch, dropped[c],
                   topicSent[c], controlSent[c], topicGot[c], batch[c].id)
        BY <2>1, <3>1, DeliverControlOK
      <4> QED
        BY <4>2, <4>3, LaneStep
    <3>2. CASE batch[c].lane # Control
      <4>1. topicGot' = [topicGot EXCEPT ![c] =
                            Append(topicGot[c], batch[c].id)]
            /\ UNCHANGED controlGot
        BY <2>3, <3>2 DEF Deliver
      <4>2. Becomes(c, "open", topics[c], control[c], topicBytes[c],
                    controlBytes[c], "check", NoBatch, dropped[c],
                    topicSent[c], controlSent[c],
                    Append(topicGot[c], batch[c].id), controlGot[c])
        BY <1>1, <2>2, <2>3, <4>1 DEF LaneInv, LaneFields, Becomes, queueVars
      <4>3. ConnOK("open", topics[c], control[c], topicBytes[c],
                   controlBytes[c], "check", NoBatch, dropped[c],
                   topicSent[c], controlSent[c],
                   Append(topicGot[c], batch[c].id), controlGot[c])
        BY <2>1, <3>2, DeliverTopicOK
      <4> QED
        BY <4>2, <4>3, LaneStep
    <3> QED
      BY <3>1, <3>2
  <2>4. CASE ~ClosesOn(c) /\ RejectTopic(c)
    <3>1. /\ batch[c].lane # Control
          /\ dropped' = [dropped EXCEPT ![c] = dropped[c] + 1]
          /\ UNCHANGED <<queueVars, closeVars, gotVars>>
      BY <2>4 DEF ClosesOn, RejectTopic
    <3>2. Becomes(c, "open", topics[c], control[c], topicBytes[c],
                  controlBytes[c], "check", NoBatch, dropped[c] + 1,
                  topicSent[c], controlSent[c], topicGot[c], controlGot[c])
      BY <1>1, <2>2, <3>1 DEF LaneInv, LaneFields, Becomes, queueVars, gotVars
    <3>3. ConnOK("open", topics[c], control[c], topicBytes[c],
                 controlBytes[c], "check", NoBatch, dropped[c] + 1,
                 topicSent[c], controlSent[c], topicGot[c], controlGot[c])
      BY <2>1, <3>1, RejectTopicOK
    <3> QED
      BY <3>2, <3>3, LaneStep
  <2>5. CASE RejectControl(c)
    <3>1. /\ senderClosed' = [senderClosed EXCEPT ![c] = TRUE]
          /\ UNCHANGED receiverClosed
          /\ topics' = [topics EXCEPT ![c] = << >>]
          /\ control' = [control EXCEPT ![c] = << >>]
          /\ topicBytes' = [topicBytes EXCEPT ![c] = 0]
          /\ controlBytes' = [controlBytes EXCEPT ![c] = 0]
          /\ UNCHANGED <<dropped, topicSent, gotVars>>
      BY <1>1, <2>5 DEF RejectControl, ClearLanes
    <3>2. PICK p : p # "encoding" /\ pc' = [pc EXCEPT ![c] = p]
      BY <1>1
    <3>3. PICK b, ks : b = NoBatch /\ ks = controlSent[c]
      OBVIOUS
    <3>4. /\ batch' = [batch EXCEPT ![c] = b] /\ b \in {batch[c], NoBatch}
          /\ controlSent' = [controlSent EXCEPT ![c] = ks]
          /\ ks \in {controlSent[c], controlSent[c] + 1}
      BY <1>1, <3>3 DEF LaneInv, LaneFields
    <3> QED
      BY <3>1, <3>2, <3>4, LaneClose
  <2> QED
    BY <1>3, <2>3, <2>4, <2>5 DEF Finish, Discards
<1> QED
  BY <1>2, <1>3

LEMMA InitLane == Init => LaneInv
<1> SUFFICES ASSUME Init PROVE LaneInv
  OBVIOUS
<1>1. LaneFields
  BY DEF Init, LaneFields
<1>2. ASSUME NEW c \in Conn PROVE LaneOK(c)
  <2>1. /\ topics[c] = << >> /\ control[c] = << >> /\ topicBytes[c] = 0
        /\ controlBytes[c] = 0 /\ pc[c] = "check" /\ batch[c] = NoBatch
        /\ dropped[c] = 0 /\ topicSent[c] = 0 /\ controlSent[c] = 0
        /\ topicGot[c] = << >> /\ controlGot[c] = 0
    BY DEF Init
  <2>2. Phase(c) = "open"
    BY DEF Init, Phase, Closed
  <2>3. Shape(<< >>, << >>, 0, 0, "check", NoBatch, 0, 0, 0, << >>, 0)
    BY LimitAssumption DEF Shape
  <2>4. Order(<< >>, "check", NoBatch, 0, << >>)
    BY DEF Order, Rising, TopicFlying
  <2>5. Books(<< >>, << >>, 0, 0, "check", NoBatch, 0, 0, 0, << >>, 0)
    BY BytesEmpty DEF Books, Aloft, ControlAloft, TopicFlying, ControlFlying
  <2> QED
    BY <2>1, <2>2, <2>3, <2>4, <2>5 DEF LaneOK, ConnOK
<1> QED
  BY <1>1, <1>2 DEF LaneInv

LEMMA NextLane == LaneInv /\ WakeInv /\ [Next]_vars => LaneInv'
<1> SUFFICES ASSUME LaneInv, WakeInv, [Next]_vars PROVE LaneInv'
  OBVIOUS
<1>1. ASSUME NEW c \in Conn, Sender(c) PROVE LaneInv'
  BY <1>1, LaneEnqueueTopic, LaneEnqueueControl, LaneDropOutput DEF Sender
<1>2. ASSUME NEW c \in Conn, Notify(c) \/ Job(c) PROVE LaneInv'
  <2>1. UNCHANGED <<queueVars, closeVars, dropped, topicSent, controlSent, pc,
                    batch, gotVars>>
    BY <1>2 DEF Notify, Job, JobCheck, JobEnd, senderVars, receiverVars
  <2> QED
    BY <2>1, LaneUntouched
<1>3. ASSUME NEW c \in Conn,
             RecvCheck(c) \/ RecvWake(c) \/ Acquire(c) \/ AcquireClosed(c)
             \/ TakeNothing(c)
      PROVE  LaneInv'
  <2>1. PICK p : /\ pc[c] # "encoding" /\ p # "encoding"
                 /\ pc' = [pc EXCEPT ![c] = p]
    BY <1>3 DEF RecvCheck, RecvWake, Acquire, AcquireClosed, TakeNothing
  <2>2. UNCHANGED <<queueVars, closeVars, dropped, topicSent, controlSent,
                    batch, gotVars>>
    BY <1>3 DEF RecvCheck, RecvWake, Acquire, AcquireClosed, TakeNothing,
                senderVars
  <2> QED
    BY <2>1, <2>2, LaneIdle
<1>4. ASSUME NEW c \in Conn, Recv(c) PROVE LaneInv'
  BY <1>3, <1>4, LaneTake, LaneFinish DEF Recv
<1>5. ASSUME NEW c \in Conn, DropReceiver(c) PROVE LaneInv'
  BY <1>5, LaneDropReceiver
<1>6. CASE UNCHANGED vars
  BY <1>6, LaneUntouched DEF vars, senderVars, receiverVars
<1> QED
  BY <1>1, <1>2, <1>4, <1>5, <1>6 DEF Next

(* The lanes of every connection stay as ConnOK describes them. *)
THEOREM LaneInvariance == Spec => []LaneInv
<1>1. LaneInv /\ WakeInv /\ [Next]_vars => LaneInv'
  BY NextLane
<1> QED
  BY <1>1, InitLane, WakeInvariance, PTL DEF Spec

-----------------------------------------------------------------------------
(* The fields that no lane depends on. *)
OtherFields ==
    /\ closeReason \in [Conn -> {"none", "full", "big", "err"}]
    /\ output \in [Conn -> BOOLEAN]
    /\ result \in [Conn -> {"ok", "big", "err", "panic"}]
    /\ waiters \in Seq(Conn)

LEMMA InitOther == Init => OtherFields
BY DEF Init, OtherFields

LEMMA NextOther == OtherFields /\ [Next]_vars => OtherFields'
<1> SUFFICES ASSUME OtherFields, [Next]_vars PROVE OtherFields'
  OBVIOUS
<1> USE DEF OtherFields, closeVars, senderVars, receiverVars, poolVars
<1>1. ASSUME NEW c \in Conn, Sender(c) \/ Notify(c) PROVE OtherFields'
  <2>1. ASSUME NEW t, NEW limit, NEW bytes, NEW encode,
               EnqueueTopic(c, t, limit, bytes, encode)
        PROVE  OtherFields'
    BY <2>1 DEF EnqueueTopic
  <2>2. ASSUME NEW bytes, NEW encode, EnqueueControl(c, bytes, encode)
        PROVE  OtherFields'
    <3>1. /\ UNCHANGED <<output, result, waiters>>
          /\ \/ UNCHANGED closeReason
             \/ closeReason' = [closeReason EXCEPT ![c] = "full"]
      BY <2>2 DEF EnqueueControl
    <3> QED
      BY <3>1
  <2>3. ASSUME DropOutput(c) \/ Notify(c) PROVE OtherFields'
    BY <2>3 DEF DropOutput, Notify
  <2> QED
    BY <1>1, <2>1, <2>2, <2>3 DEF Sender
<1>2. ASSUME NEW c \in Conn,
             RecvCheck(c) \/ RecvWake(c) \/ Acquire(c) \/ TakeNothing(c)
      PROVE  OtherFields'
  <2>1. UNCHANGED <<closeReason, output, result>>
    BY <1>2 DEF RecvCheck, RecvWake, Acquire, TakeNothing
  <2>2. \/ UNCHANGED waiters
        \/ waiters' = Append(waiters, c)
        \/ waiters' = Tail(waiters) /\ waiters # << >>
    BY <1>2 DEF RecvCheck, RecvWake, Acquire, TakeNothing
  <2>3. waiters' \in Seq(Conn)
    <3>1. waiters \in Seq(Conn)
      OBVIOUS
    <3>2. Append(waiters, c) \in Seq(Conn)
      BY <3>1
    <3>3. waiters # << >> => Tail(waiters) \in Seq(Conn)
      BY <3>1
    <3> QED
      BY <2>2, <3>1, <3>2, <3>3
  <2> QED
    BY <2>1, <2>3
<1>3. ASSUME NEW c \in Conn, AcquireClosed(c) \/ DropReceiver(c)
      PROVE  OtherFields'
  <2>1. UNCHANGED <<closeReason, output, result>>
        /\ waiters' = RemoveFirst(waiters, c)
    BY <1>3 DEF AcquireClosed, DropReceiver
  <2>2. waiters' \in Seq(Conn)
    BY <2>1, RemoveFirstType
  <2> QED
    BY <2>1, <2>2
<1>4. ASSUME NEW c \in Conn, TakeControl(c) \/ TakeTopic(c) PROVE OtherFields'
  <2>1. UNCHANGED <<closeReason, output, waiters>>
        /\ result' = [result EXCEPT ![c] = "ok"]
    BY <1>4 DEF TakeControl, TakeTopic, Start
  <2> QED
    BY <2>1
<1>5. ASSUME NEW c \in Conn, Job(c) PROVE OtherFields'
  <2>1. /\ UNCHANGED <<closeReason, output, waiters>>
        /\ \/ UNCHANGED result
           \/ \E r \in {"ok", "big", "err", "panic"} :
                 result' = [result EXCEPT ![c] = r]
    BY <1>5 DEF Job, JobCheck, JobEnd
  <2> QED
    BY <2>1
<1>6. ASSUME NEW c \in Conn, Finish(c) PROVE OtherFields'
  <2>1. /\ UNCHANGED <<output, waiters>>
        /\ result' = [result EXCEPT ![c] = "ok"]
    BY <1>6 DEF Finish
  <2>2. \/ UNCHANGED closeReason
        \/ \E r \in {"big", "err"} :
              closeReason' = [closeReason EXCEPT ![c] = r]
    BY <1>6 DEF Finish, RejectTopic, RejectControl
  <2> QED
    BY <2>1, <2>2
<1>7. CASE UNCHANGED vars
  BY <1>7 DEF vars
<1> QED
  BY <1>1, <1>2, <1>3, <1>4, <1>5, <1>6, <1>7 DEF Next, Recv

LEMMA TypeFromInvariants ==
    PoolInv /\ WakeInv /\ LaneInv /\ OtherFields => TypeOK
<1> SUFFICES ASSUME PoolInv, WakeInv, LaneInv, OtherFields PROVE TypeOK
  OBVIOUS
<1>1. ASSUME NEW c \in Conn
      PROVE  /\ topics[c] \in Seq(Batch) /\ control[c] \in Seq(Batch)
             /\ Len(topics[c]) <= Capacity
             /\ Len(control[c]) <= ControlCapacity
             /\ topicBytes[c] \in 0..ByteLimit
             /\ controlBytes[c] \in 0..ByteLimit
             /\ dropped[c] \in Nat /\ batch[c] \in Batch \cup {NoBatch}
             /\ topicSent[c] \in Nat /\ controlSent[c] \in Nat
             /\ topicGot[c] \in Seq(Nat) /\ controlGot[c] \in Nat
  BY DEF LaneInv, LaneOK, ConnOK, Shape
<1>2. available \in 0..Workers
  <2>1. Cardinality(Holders) \in Nat /\ available \in Nat
        /\ available + Cardinality(Holders) = Workers /\ Workers \in Nat
    BY HoldersFinite, LimitAssumption
       DEF PoolInv, PoolType, PermitsConserved
  <2> QED
    BY <2>1
<1>3. /\ topics \in [Conn -> Seq(Batch)] /\ control \in [Conn -> Seq(Batch)]
      /\ topicBytes \in [Conn -> 0..ByteLimit]
      /\ controlBytes \in [Conn -> 0..ByteLimit]
      /\ dropped \in [Conn -> Nat] /\ batch \in [Conn -> Batch \cup {NoBatch}]
      /\ topicSent \in [Conn -> Nat] /\ controlSent \in [Conn -> Nat]
      /\ topicGot \in [Conn -> Seq(Nat)] /\ controlGot \in [Conn -> Nat]
  BY <1>1 DEF LaneInv, LaneFields
<1> QED
  BY <1>1, <1>2, <1>3
     DEF TypeOK, WakeInv, WakeType, PoolInv, PoolType, OtherFields

(* What is in flight on a lane is a queue of at most one batch. *)
LEMMA InFlightTopic ==
    ASSUME NEW c
    PROVE  InFlight(c, IsTopic) =
             IF TopicFlying(pc[c], batch[c]) THEN <<batch[c]>> ELSE << >>
BY DEF InFlight, IsTopic, TopicFlying

LEMMA InFlightControl ==
    ASSUME NEW c
    PROVE  InFlight(c, IsControl) =
             IF ControlFlying(pc[c], batch[c]) THEN <<batch[c]>> ELSE << >>
BY DEF InFlight, IsControl, ControlFlying

(* A batch in flight goes before the lane. *)
LEMMA IdsJoined ==
    ASSUME NEW f \in Seq(Batch), NEW q \in Seq(Batch)
    PROVE  /\ Ids(f \o q) \in Seq(Nat)
           /\ Len(Ids(f \o q)) = Len(f) + Len(q)
           /\ DOMAIN Ids(f \o q) = 1..(Len(f) + Len(q))
           /\ \A i \in 1..(Len(f) + Len(q)) :
                 Ids(f \o q)[i] = IF i <= Len(f) THEN f[i].id
                                  ELSE q[i - Len(f)].id
<1>1. PICK a : a = f \o q
  OBVIOUS
<1>2. /\ a \in Seq(Batch) /\ Len(a) = Len(f) + Len(q)
      /\ \A i \in 1..Len(a) : a[i] = IF i <= Len(f) THEN f[i]
                                     ELSE q[i - Len(f)]
  BY <1>1, ConcatProperties
<1>3. PICK n \in Nat : n = Len(a) /\ DOMAIN a = 1..n
  BY <1>2
<1>4. Ids(a) = [i \in 1..n |-> a[i].id]
  BY <1>3 DEF Ids
<1>5. \A i \in 1..n : a[i].id \in Nat
  BY <1>2, <1>3, ElementBytes
<1>6. Ids(a) \in Seq(Nat) /\ Len(Ids(a)) = n /\ DOMAIN Ids(a) = 1..n
      /\ \A i \in 1..n : Ids(a)[i] = a[i].id
  BY <1>4, <1>5
<1> QED
  BY <1>1, <1>2, <1>3, <1>6

(* The control lane, with what is in flight. *)
LEMMA ControlInOrder ==
    ASSUME LaneInv, NEW c \in Conn, ~Closed(c)
    PROVE  Ids(InFlight(c, IsControl) \o control[c]) =
             [i \in 1..(controlSent[c] - controlGot[c]) |-> controlGot[c] + i]
<1>1. ConnOK("open", topics[c], control[c], topicBytes[c], controlBytes[c],
             pc[c], batch[c], dropped[c], topicSent[c], controlSent[c],
             topicGot[c], controlGot[c])
  BY OpenPhase DEF LaneInv, LaneOK
<1>2. PICK f, q, n, k, s : /\ f = InFlight(c, IsControl) /\ q = control[c]
                           /\ n = ControlAloft(pc[c], batch[c])
                           /\ k = controlGot[c] /\ s = controlSent[c]
  OBVIOUS
<1>3. /\ q \in Seq(Batch) /\ Len(q) \in Nat /\ k \in Nat /\ s \in Nat
      /\ n \in 0..1
      /\ s = k + Len(q) + n
      /\ \A i \in 1..Len(q) : q[i].id = k + i + n
      /\ ControlFlying(pc[c], batch[c]) =>
            batch[c].id = k + 1 /\ batch[c] \in Batch
  BY <1>1, <1>2 DEF ConnOK, Shape, Books, ControlFlying, ControlAloft
<1>4. f \in Seq(Batch) /\ Len(f) = n /\ \A i \in 1..n : f[i].id = k + i
  <2>1. CASE ControlFlying(pc[c], batch[c])
    <3>1. n = 1 /\ f = <<batch[c]>>
      BY <1>2, <2>1, InFlightControl DEF ControlAloft
    <3> QED
      BY <1>3, <2>1, <3>1
  <2>2. CASE ~ControlFlying(pc[c], batch[c])
    <3>1. n = 0 /\ f = << >>
      BY <1>2, <2>2, InFlightControl DEF ControlAloft
    <3> QED
      BY <3>1
  <2> QED
    BY <2>1, <2>2
<1>5. PICK g : g = Ids(f \o q)
  OBVIOUS
<1>6. /\ g \in Seq(Nat) /\ DOMAIN g = 1..(n + Len(q))
      /\ \A i \in 1..(n + Len(q)) :
            g[i] = IF i <= n THEN f[i].id ELSE q[i - n].id
  BY <1>3, <1>4, <1>5, IdsJoined
<1>7. \A i \in 1..(n + Len(q)) : g[i] = k + i
  <2> SUFFICES ASSUME NEW i \in 1..(n + Len(q)) PROVE g[i] = k + i
    OBVIOUS
  <2>1. CASE i <= n
    <3>1. i \in 1..n
      BY <1>3, <2>1
    <3>2. g[i] = f[i].id
      BY <1>6, <2>1
    <3> QED
      BY <1>4, <3>1, <3>2
  <2>2. CASE i > n
    <3>1. PICK j \in 1..Len(q) : j = i - n
      BY <1>3, <2>2
    <3>2. g[i] = q[j].id
      <4>1. ~(i <= n)
        BY <1>3, <2>2
      <4> QED
        BY <1>6, <3>1, <4>1
    <3>3. q[j].id = k + j + n
      BY <1>3
    <3> QED
      BY <1>3, <3>1, <3>2, <3>3
  <2> QED
    BY <1>3, <2>1, <2>2
<1>8. n + Len(q) = s - k
  BY <1>3
<1>9. g = [i \in 1..(s - k) |-> k + i]
  BY <1>6, <1>7, <1>8
<1> QED
  BY <1>2, <1>5, <1>9

(* Delivered, in flight and queued topic batches. *)
LEMMA TopicsInOrder ==
    ASSUME LaneInv, NEW c \in Conn
    PROVE  LET all == topicGot[c] \o Ids(InFlight(c, IsTopic) \o topics[c])
           IN  \A i, j \in DOMAIN all : i < j => all[i] < all[j]
<1>1. /\ Shape(topics[c], control[c], topicBytes[c], controlBytes[c], pc[c],
               batch[c], dropped[c], topicSent[c], controlSent[c],
               topicGot[c], controlGot[c])
      /\ Order(topics[c], pc[c], batch[c], topicSent[c], topicGot[c])
  BY DEF LaneInv, LaneOK, ConnOK
<1>2. PICK f, q, g : /\ f = InFlight(c, IsTopic) /\ q = topics[c]
                     /\ g = topicGot[c]
  OBVIOUS
<1>3. /\ q \in Seq(Batch) /\ Len(q) \in Nat /\ g \in Seq(Nat) /\ Len(g) \in Nat
      /\ \A i, j \in 1..Len(q) : i < j => q[i].id < q[j].id
      /\ \A i, j \in 1..Len(g) : i < j => g[i] < g[j]
      /\ \A j \in 1..Len(g), i \in 1..Len(q) : g[j] < q[i].id
  BY <1>1, <1>2 DEF Shape, Order, Rising
<1>4. /\ f \in Seq(Batch) /\ Len(f) \in 0..1
      /\ \A j \in 1..Len(f) : \A i \in 1..Len(q) : f[j].id < q[i].id
      /\ \A j \in 1..Len(f) : \A i \in 1..Len(g) : g[i] < f[j].id
  <2>1. CASE TopicFlying(pc[c], batch[c])
    <3>1. f = <<batch[c]>> /\ batch[c] \in Batch
      BY <1>1, <1>2, <2>1, InFlightTopic DEF Shape, TopicFlying
    <3>2. /\ \A i \in 1..Len(q) : batch[c].id < q[i].id
          /\ \A i \in 1..Len(g) : g[i] < batch[c].id
      BY <1>1, <1>2, <2>1 DEF Order
    <3>3. f \in Seq(Batch) /\ Len(f) = 1 /\ f[1] = batch[c]
      BY <3>1
    <3> QED
      BY <3>2, <3>3
  <2>2. CASE ~TopicFlying(pc[c], batch[c])
    <3>1. f = << >>
      BY <1>2, <2>2, InFlightTopic
    <3> QED
      BY <3>1
  <2> QED
    BY <2>1, <2>2
<1>5. PICK h : h = Ids(f \o q)
  OBVIOUS
<1>6. PICK n \in 0..1 : n = Len(f)
  BY <1>4
<1>7. /\ h \in Seq(Nat) /\ Len(h) = n + Len(q)
      /\ \A i \in 1..(n + Len(q)) :
            h[i] = IF i <= n THEN f[i].id ELSE q[i - n].id
  BY <1>3, <1>4, <1>5, <1>6, IdsJoined
<1>8. \A i, j \in 1..Len(h) : i < j => h[i] < h[j]
  <2> SUFFICES ASSUME NEW i \in 1..Len(h), NEW j \in 1..Len(h), i < j
               PROVE  h[i] < h[j]
    OBVIOUS
  <2>0. Len(q) \in Nat /\ Len(h) = n + Len(q) /\ n < j
    <3>1. Len(q) \in Nat /\ Len(h) = n + Len(q) /\ n \in 0..1
      BY <1>3, <1>6, <1>7
    <3> QED
      BY <3>1
  <2>1. PICK b \in 1..Len(q) : b = j - n /\ h[j] = q[b].id
    <3>1. j - n \in 1..Len(q) /\ j \in 1..(n + Len(q)) /\ ~(j <= n)
      BY <2>0
    <3> QED
      BY <1>7, <3>1
  <2>2. CASE i <= n
    <3>1. i \in 1..Len(f) /\ i \in 1..(n + Len(q))
      BY <1>6, <2>0, <2>2
    <3>2. h[i] = f[i].id
      BY <1>7, <2>2, <3>1
    <3> QED
      BY <1>4, <2>1, <3>1, <3>2
  <2>3. CASE i > n
    <3>1. PICK a \in 1..Len(q) : a = i - n /\ h[i] = q[a].id
      <4>1. i - n \in 1..Len(q) /\ i \in 1..(n + Len(q)) /\ ~(i <= n)
        BY <2>0, <2>3
      <4> QED
        BY <1>7, <4>1
    <3>2. a < b
      BY <2>1, <3>1
    <3> QED
      BY <1>3, <2>1, <3>1, <3>2
  <2> QED
    BY <1>3, <1>6, <1>7, <2>2, <2>3
<1>9. \A i \in 1..Len(g), j \in 1..Len(h) : g[i] < h[j]
  <2> SUFFICES ASSUME NEW i \in 1..Len(g), NEW j \in 1..Len(h)
               PROVE  g[i] < h[j]
    OBVIOUS
  <2>1. CASE j <= n
    <3>1. j \in 1..Len(f) /\ j \in 1..(n + Len(q))
      BY <1>3, <1>6, <2>1
    <3>2. h[j] = f[j].id
      BY <1>7, <2>1, <3>1
    <3> QED
      BY <1>4, <3>1, <3>2
  <2>2. CASE j > n
    <3>1. PICK b \in 1..Len(q) : b = j - n /\ h[j] = q[b].id
      BY <1>3, <1>6, <1>7, <2>2
    <3> QED
      BY <1>3, <3>1
  <2> QED
    BY <1>3, <1>6, <1>7, <2>1, <2>2
<1>10. PICK all : all = g \o h
  OBVIOUS
<1>11. /\ all \in Seq(Nat) /\ Len(all) = Len(g) + Len(h)
       /\ \A i \in 1..Len(all) :
             all[i] = IF i <= Len(g) THEN g[i] ELSE h[i - Len(g)]
  <2>1. g \in Seq(Nat) /\ h \in Seq(Nat)
    BY <1>3, <1>7
  <2> QED
    BY <1>10, <2>1, ConcatProperties
<1>12. ASSUME NEW i \in 1..Len(all), NEW j \in 1..Len(all), i < j
       PROVE  all[i] < all[j]
  <2>1. Len(h) \in Nat /\ Len(g) \in Nat /\ Len(all) = Len(g) + Len(h)
    BY <1>3, <1>7, <1>11
  <2>2. CASE j <= Len(g)
    <3>1. all[i] = g[i] /\ all[j] = g[j] /\ i \in 1..Len(g) /\ j \in 1..Len(g)
      BY <1>11, <1>12, <2>1, <2>2
    <3> QED
      BY <1>3, <1>12, <3>1
  <2>3. CASE j > Len(g)
    <3>1. PICK b \in 1..Len(h) : b = j - Len(g) /\ all[j] = h[b]
      <4>1. j - Len(g) \in 1..Len(h) /\ ~(j <= Len(g))
        BY <2>1, <2>3
      <4> QED
        BY <1>11, <4>1
    <3>2. CASE i <= Len(g)
      <4>1. all[i] = g[i] /\ i \in 1..Len(g)
        BY <1>11, <2>1, <3>2
      <4> QED
        BY <1>9, <3>1, <4>1
    <3>3. CASE i > Len(g)
      <4>1. PICK a \in 1..Len(h) : a = i - Len(g) /\ all[i] = h[a]
        <5>1. i - Len(g) \in 1..Len(h) /\ ~(i <= Len(g))
          BY <2>1, <3>3
        <5> QED
          BY <1>11, <5>1
      <4>2. a < b
        BY <1>12, <2>1, <3>1, <4>1
      <4> QED
        BY <1>8, <3>1, <4>1, <4>2
    <3> QED
      BY <2>1, <3>2, <3>3
  <2> QED
    BY <2>1, <2>2, <2>3
<1>13. DOMAIN all = 1..Len(all)
  BY <1>11
<1> QED
  BY <1>2, <1>5, <1>10, <1>12, <1>13

(* However many connections and topics there are and whatever is evicted,  *)
(* rejected or cut short, the counters of the outgoing queues are exact,   *)
(* control batches are neither lost nor reordered while the connection is  *)
(* open, and topic batches keep their order.                               *)
THEOREM FaithfulLanes == Spec => []LanesFaithful
<1>1. PoolInv /\ WakeInv /\ LaneInv /\ OtherFields => LanesFaithful
  <2> SUFFICES ASSUME PoolInv, WakeInv, LaneInv, OtherFields
               PROVE  LanesFaithful
    OBVIOUS
  <2>1. TypeOK
    BY TypeFromInvariants
  <2>2. Accounting
    <3> SUFFICES ASSUME NEW c \in Conn, ~Closed(c)
                 PROVE  /\ topicBytes[c] = Bytes(topics[c])
                        /\ controlBytes[c] = Bytes(control[c])
                        /\ topicSent[c] = Len(topicGot[c]) + dropped[c]
                              + Len(topics[c]) + Len(InFlight(c, IsTopic))
      BY DEF Accounting
    <3>1. Books(topics[c], control[c], topicBytes[c], controlBytes[c], pc[c],
                batch[c], dropped[c], topicSent[c], controlSent[c],
                topicGot[c], controlGot[c])
      BY OpenPhase DEF LaneInv, LaneOK, ConnOK
    <3>2. Len(InFlight(c, IsTopic)) = Aloft(pc[c], batch[c])
      BY InFlightTopic DEF Aloft
    <3> QED
      BY <3>1, <3>2 DEF Books
  <2>3. ControlLossless
    BY ControlInOrder DEF ControlLossless
  <2>4. TopicFifo
    BY TopicsInOrder DEF TopicFifo
  <2> QED
    BY <2>1, <2>2, <2>3, <2>4 DEF LanesFaithful
<1>2. Spec => []PoolInv
  BY InitPool, NextPool, PTL DEF Spec
<1>3. Spec => []OtherFields
  BY InitOther, NextOther, PTL DEF Spec
<1> QED
  BY <1>1, <1>2, <1>3, WakeInvariance, LaneInvariance, PTL

(* What an offer evicts is of its own topic and older than what stays.     *)
THEOREM EvictsOwnTopic == Spec => EvictOwnTopic
<1> DEFINE Step ==
      \A c \in Conn : topicSent'[c] # topicSent[c] =>
          \E t \in Topic :
             /\ \A b \in Range(topics[c]) \ Range(topics'[c]) :
                   /\ b.lane = t
                   /\ \A k \in Range(topics'[c]) : k.lane = t => b.id < k.id
             /\ \A b \in Range(topics'[c]) \ Range(topics[c]) :
                   b.lane = t /\ b.id = topicSent'[c]
<1>1. LaneInv /\ [Next]_vars => [Step]_vars
  <2> SUFFICES ASSUME LaneInv, Next, NEW c \in Conn,
                      topicSent'[c] # topicSent[c]
               PROVE  \E t \in Topic :
                        /\ \A b \in Range(topics[c]) \ Range(topics'[c]) :
                              /\ b.lane = t
                              /\ \A k \in Range(topics'[c]) :
                                    k.lane = t => b.id < k.id
                        /\ \A b \in Range(topics'[c]) \ Range(topics[c]) :
                              b.lane = t /\ b.id = topicSent'[c]
    OBVIOUS
  <2>1. PICK e \in Conn : Sender(e) \/ Notify(e) \/ Recv(e) \/ Job(e)
                          \/ DropReceiver(e)
    BY DEF Next
  <2>2. PICK t \in Topic, limit \in TopicLimits, bytes \in Sizes,
             encode \in Encodings : EnqueueTopic(e, t, limit, bytes, encode)
    <3>1. ASSUME NEW bytes, NEW encode, EnqueueControl(e, bytes, encode)
          PROVE  topicSent' = topicSent
      BY <3>1 DEF EnqueueControl
    <3>2. ASSUME DropOutput(e) \/ Notify(e) PROVE topicSent' = topicSent
      BY <3>2 DEF DropOutput, Notify
    <3>3. ASSUME Recv(e) \/ Job(e) \/ DropReceiver(e)
          PROVE  UNCHANGED senderVars
      BY <3>3 DEF Recv, RecvCheck, RecvWake, Acquire, AcquireClosed,
                  TakeControl, TakeTopic, TakeNothing, Finish, Job, JobCheck,
                  JobEnd, DropReceiver
    <3>4. ASSUME UNCHANGED senderVars PROVE topicSent' = topicSent
      BY <3>4 DEF senderVars
    <3> QED
      BY <2>1, <3>1, <3>2, <3>3, <3>4 DEF Sender
  <2>3. e = c
    <3>1. \E n : topicSent' = [topicSent EXCEPT ![e] = n]
      BY <2>2 DEF EnqueueTopic
    <3> QED
      BY <3>1 DEF LaneInv, LaneFields
  <2>4. PICK r, used, k :
           /\ EvictedFrom(topics[c], t, r, used, k)
           /\ topics[c] \in Seq(Batch)
           /\ \/ topics'[c] = r
              \/ \E new \in Batch : /\ topics'[c] = Append(r, new)
                                    /\ new.lane = t
                                    /\ new.id = topicSent[c] + 1
           /\ topicSent'[c] = topicSent[c] + 1
           /\ \A i \in 1..Len(topics[c]) : topics[c][i].id <= topicSent[c]
           /\ topicSent[c] \in Nat
    BY <2>2, <2>3, LaneEnqueueTopic
  <2>5. PICK q, s, m : q = topics[c] /\ s = topics'[c] /\ m = topicSent[c]
    OBVIOUS
  <2>6. /\ q \in Seq(Batch) /\ r \in Seq(Batch) /\ m \in Nat
        /\ \A i \in 1..Len(r) : Kept(q, r[i])
        /\ \A j \in 1..Len(q) : Kept(r, q[j]) \/ OlderOfTopic(r, t, q[j])
        /\ \A j \in 1..Len(q) : q[j].id <= m
        /\ topicSent'[c] = m + 1
    BY <2>4, <2>5 DEF EvictedFrom
  <2>7. ASSUME NEW x \in Seq(Batch), NEW b PROVE b \in Range(x) <=> Kept(x, b)
    BY <2>7 DEF Range, Kept
  <2>8. CASE s = r
    <3>1. ASSUME NEW b \in Range(q), b \notin Range(s)
          PROVE  b.lane = t /\ \A k2 \in Range(s) : k2.lane = t => b.id < k2.id
      <4>1. PICK j \in 1..Len(q) : q[j] = b
        BY <2>6, <2>7, <3>1 DEF Kept
      <4>2. OlderOfTopic(r, t, b)
        BY <2>6, <2>7, <2>8, <3>1, <4>1
      <4> QED
        BY <2>6, <2>7, <2>8, <4>2 DEF OlderOfTopic, Kept
    <3>2. ASSUME NEW b \in Range(s) PROVE b \in Range(q)
      BY <2>6, <2>7, <2>8, <3>2 DEF Kept
    <3> QED
      BY <2>5, <3>1, <3>2
  <2>9. CASE \E new \in Batch : s = Append(r, new) /\ new.lane = t
                                /\ new.id = m + 1
    <3>1. PICK new \in Batch : s = Append(r, new) /\ new.lane = t
                               /\ new.id = m + 1
      BY <2>9
    <3>2. /\ s \in Seq(Batch)
          /\ \A i \in 1..Len(r) : Kept(s, r[i])
          /\ \A i \in 1..Len(s) : s[i] = new \/ Kept(r, s[i])
      <4>1. /\ s \in Seq(Batch) /\ Len(s) = Len(r) + 1 /\ Len(r) \in Nat
            /\ s[Len(s)] = new /\ \A i \in 1..Len(r) : s[i] = r[i]
        BY <2>6, <3>1
      <4>2. \A i \in 1..Len(s) : i = Len(s) \/ i \in 1..Len(r)
        BY <4>1
      <4>3. \A i \in 1..Len(r) : i \in 1..Len(s)
        BY <4>1
      <4> QED
        BY <4>1, <4>2, <4>3 DEF Kept
    <3>3. ASSUME NEW b \in Range(q), b \notin Range(s)
          PROVE  b.lane = t /\ \A k2 \in Range(s) : k2.lane = t => b.id < k2.id
      <4>1. PICK j \in 1..Len(q) : q[j] = b
        BY <2>6, <2>7, <3>3 DEF Kept
      <4>2. ~Kept(r, b)
        <5> SUFFICES ASSUME Kept(r, b) PROVE FALSE
          OBVIOUS
        <5>1. PICK i \in 1..Len(r) : r[i] = b
          BY DEF Kept
        <5>2. Kept(s, b)
          BY <3>2, <5>1
        <5> QED
          BY <2>7, <3>2, <3>3, <5>2
      <4>3. OlderOfTopic(r, t, b)
        BY <2>6, <4>1, <4>2
      <4>4. b.id <= m /\ b.id \in Nat
        BY <2>6, <4>1, ElementBytes
      <4>5. ASSUME NEW k2 \in Range(s), k2.lane = t PROVE b.id < k2.id
        <5>1. PICK i \in 1..Len(s) : s[i] = k2
          BY <2>7, <3>2, <4>5 DEF Kept
        <5>2. CASE k2 = new
          BY <2>6, <3>1, <4>4, <5>2
        <5>3. CASE Kept(r, k2)
          BY <4>3, <4>5, <5>3 DEF OlderOfTopic, Kept
        <5> QED
          BY <3>2, <5>1, <5>2, <5>3
      <4> QED
        BY <4>3, <4>5 DEF OlderOfTopic
    <3>4. ASSUME NEW b \in Range(s), b \notin Range(q)
          PROVE  b.lane = t /\ b.id = m + 1
      <4>1. PICK i \in 1..Len(s) : s[i] = b
        BY <2>7, <3>2, <3>4 DEF Kept
      <4>2. ~Kept(r, b)
        <5> SUFFICES ASSUME Kept(r, b) PROVE FALSE
          OBVIOUS
        <5>1. PICK i2 \in 1..Len(r) : r[i2] = b
          BY DEF Kept
        <5> QED
          BY <2>6, <2>7, <3>4, <5>1
      <4> QED
        BY <3>1, <3>2, <4>1, <4>2
    <3> QED
      BY <2>5, <2>6, <3>3, <3>4
  <2> QED
    BY <2>4, <2>5, <2>8, <2>9
<1> QED
  BY <1>1, LaneInvariance, PTL DEF Spec, EvictOwnTopic
=============================================================================

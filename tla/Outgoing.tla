------------------------------ MODULE Outgoing ------------------------------
(***************************************************************************)
(* The outgoing queues (src/src/outgoing.rs) and the encoding pool they    *)
(* share (src/src/encoding.rs).  Every connection has a lane for topic     *)
(* batches, which may be dropped, and a reserved lane for control batches, *)
(* which may not.  The ROS worker enqueues; the writer task of the         *)
(* connection takes one batch at a time, encodes it under a permit of the  *)
(* shared pool and hands the frames to the socket.                         *)
(*                                                                         *)
(* A section under the connection's mutex is one action, and so is each    *)
(* wait that follows it; the Notify calls come after the lock is released  *)
(* and are steps of their own.  A batch carries its lane, its number       *)
(* within the lane, its size and whether it still has to be encoded.       *)
(***************************************************************************)
EXTENDS Integers, Sequences, FiniteSets, SequencesExt

CONSTANTS
    Conn,               \* connections, each with its Output and Receiver
    Topic,              \* topics a connection subscribes to
    Control,            \* the lane of batches that belong to no topic
    Capacity,           \* write_queue_size: topic batches per connection
    ControlCapacity,    \* CONTROL_CAPACITY
    ByteLimit,          \* write_queue_bytes, for each lane
    Workers,            \* permits of the encoding pool
    Sizes,              \* sizes of the batches offered
    TopicLimits,        \* values of topic_limit offered
    Encodings,          \* payloads offered: FALSE Frames, TRUE Encode
    MaxTopic,           \* bound: topic batches offered per connection
    MaxControl          \* bound: control batches offered per connection

ASSUME ControlAssumption == Control \notin Topic
ASSUME LimitAssumption ==
    /\ Capacity \in Nat \ {0}
    /\ ControlCapacity \in Nat \ {0}
    /\ ByteLimit \in Nat \ {0}
    /\ Workers \in Nat \ {0}
    /\ Sizes \subseteq Nat
    /\ TopicLimits \subseteq Nat
    /\ Encodings \subseteq BOOLEAN
ASSUME ConnAssumption == IsFiniteSet(Conn)

VARIABLES
    topics, control,            \* State.topics, State.control
    topicBytes, controlBytes,   \* State.topic_bytes, State.control_bytes
    senderClosed,               \* State.sender_closed
    receiverClosed,             \* State.receiver_closed
    closeReason,                \* State.close_reason
    dropped,                    \* State.dropped
    output,                     \* the ROS worker still holds the Output
    notifying,                  \* notify_one calls the ROS worker still owes
    readyNote, closedNote,      \* stored permits of Shared.ready and .closed
    pc,                         \* where Receiver::recv is
    batch,                      \* the batch recv has taken, if any
    job,                        \* its encoding: none, spawned, running, ended
    result,                     \* what the encoding returned
    available,                  \* free permits of the pool
    waiters,                    \* connections waiting for a permit, in order
    (* History: what was offered and what reached the socket. *)
    topicSent, controlSent,     \* number of the last batch offered
    topicGot,                   \* numbers of the topic batches delivered
    controlGot                  \* number of the last control batch delivered

queueVars == <<topics, control, topicBytes, controlBytes>>
closeVars == <<senderClosed, receiverClosed, closeReason>>
senderVars == <<output, notifying, topicSent, controlSent>>
receiverVars == <<pc, batch, job, result>>
poolVars == <<available, waiters>>
gotVars == <<topicGot, controlGot>>
noteVars == <<readyNote, closedNote>>
vars == <<queueVars, closeVars, dropped, senderVars, noteVars, receiverVars,
          poolVars, gotVars>>

Batch == [lane : Topic \cup {Control}, id : Nat, bytes : Nat,
          encode : BOOLEAN]

NoBatch == << >>

(* The shape of the state.  Each lane stays within its batch capacity and  *)
(* its byte limit, and no counter underflows.                              *)
TypeOK ==
    /\ topics \in [Conn -> Seq(Batch)]
    /\ control \in [Conn -> Seq(Batch)]
    /\ \A c \in Conn : /\ Len(topics[c]) <= Capacity
                       /\ Len(control[c]) <= ControlCapacity
    /\ topicBytes \in [Conn -> 0..ByteLimit]
    /\ controlBytes \in [Conn -> 0..ByteLimit]
    /\ senderClosed \in [Conn -> BOOLEAN]
    /\ receiverClosed \in [Conn -> BOOLEAN]
    /\ closeReason \in [Conn -> {"none", "full", "big", "err"}]
    /\ dropped \in [Conn -> Nat]
    /\ output \in [Conn -> BOOLEAN]
    /\ notifying \in [Conn -> {<< >>, <<"ready">>, <<"ready", "closed">>,
                               <<"closed">>}]
    /\ readyNote \in [Conn -> BOOLEAN]
    /\ closedNote \in [Conn -> BOOLEAN]
    /\ pc \in [Conn -> {"check", "idle", "acquire", "take", "encoding",
                        "returned", "gone"}]
    /\ batch \in [Conn -> Batch \cup {NoBatch}]
    /\ job \in [Conn -> {"none", "spawned", "running", "ended"}]
    /\ result \in [Conn -> {"ok", "big", "err", "panic"}]
    /\ available \in 0..Workers
    /\ waiters \in Seq(Conn)
    /\ topicSent \in [Conn -> Nat]
    /\ controlSent \in [Conn -> Nat]
    /\ topicGot \in [Conn -> Seq(Nat)]
    /\ controlGot \in [Conn -> Nat]

Closed(c) == senderClosed[c] \/ receiverClosed[c]

-----------------------------------------------------------------------------
(* channel_with_pool, once per connection, and Pool::new. *)
Init ==
    /\ topics = [c \in Conn |-> << >>]
    /\ control = [c \in Conn |-> << >>]
    /\ topicBytes = [c \in Conn |-> 0]
    /\ controlBytes = [c \in Conn |-> 0]
    /\ senderClosed = [c \in Conn |-> FALSE]
    /\ receiverClosed = [c \in Conn |-> FALSE]
    /\ closeReason = [c \in Conn |-> "none"]
    /\ dropped = [c \in Conn |-> 0]
    /\ output = [c \in Conn |-> TRUE]
    /\ notifying = [c \in Conn |-> << >>]
    /\ readyNote = [c \in Conn |-> FALSE]
    /\ closedNote = [c \in Conn |-> FALSE]
    /\ pc = [c \in Conn |-> "check"]
    /\ batch = [c \in Conn |-> NoBatch]
    /\ job = [c \in Conn |-> "none"]
    /\ result = [c \in Conn |-> "ok"]
    /\ available = Workers
    /\ waiters = << >>
    /\ topicSent = [c \in Conn |-> 0]
    /\ controlSent = [c \in Conn |-> 0]
    /\ topicGot = [c \in Conn |-> << >>]
    /\ controlGot = [c \in Conn |-> 0]

(* Space left in a lane of `used' bytes; usize::saturating_sub. *)
Room(used) == IF used > ByteLimit THEN 0 ELSE ByteLimit - used

(* The batches of a topic, by position, and the one eviction removes. *)
Own(queue, t) == {i \in DOMAIN queue : queue[i].lane = t}

(* Mutant: eviction removes the oldest batch of the lane. *)
VictimOfAnyTopic(queue, t) == 1

Victim(queue, t) == Min(Own(queue, t))

(* The loop of enqueue removes the oldest batch of the topic as long as    *)
(* the topic is at its limit, the lane is full or the bytes do not fit,    *)
(* and stops when no batch of the topic is left.  Turn n of the loop is    *)
(* turn[n]; a turn that evicts nothing is the last one, and no more turns  *)
(* than the lane has batches do anything.                                  *)
MustEvict(lane, t, limit, bytes) ==
    \/ Cardinality(Own(lane.queue, t)) >= limit
    \/ Len(lane.queue) >= Capacity
    \/ bytes > Room(lane.used)

EvictOne(lane, t, limit, bytes) ==
    LET v == Victim(lane.queue, t)
    IN  IF MustEvict(lane, t, limit, bytes) /\ Own(lane.queue, t) # {}
        THEN [queue |-> RemoveAt(lane.queue, v),
              used |-> lane.used - lane.queue[v].bytes,
              dropped |-> lane.dropped + 1]
        ELSE lane

Evict(queue, used, t, limit, bytes) ==
    LET turn[n \in 0..Len(queue)] ==
            IF n = 0 THEN [queue |-> queue, used |-> used, dropped |-> 0]
            ELSE EvictOne(turn[n - 1], t, limit, bytes)
    IN  turn[IF bytes <= ByteLimit /\ limit > 0 THEN Len(queue) ELSE 0]

(* Output::enqueue for a topic batch: evict, then append or drop it. *)
EnqueueTopic(c, t, limit, bytes, encode) ==
    /\ output[c] /\ notifying[c] = << >>
    /\ ~Closed(c)
    /\ topicSent[c] < MaxTopic
    /\ LET id == topicSent[c] + 1
           lane == Evict(topics[c], topicBytes[c], t, limit, bytes)
           fits == Len(lane.queue) < Capacity /\ bytes <= Room(lane.used)
           new == [lane |-> t, id |-> id, bytes |-> bytes, encode |-> encode]
       IN  /\ topics' = [topics EXCEPT ![c] =
                            IF fits THEN Append(lane.queue, new)
                            ELSE lane.queue]
           /\ topicBytes' = [topicBytes EXCEPT ![c] =
                                IF fits THEN lane.used + bytes ELSE lane.used]
           /\ dropped' = [dropped EXCEPT ![c] =
                             @ + lane.dropped + IF fits THEN 0 ELSE 1]
           /\ topicSent' = [topicSent EXCEPT ![c] = id]
    /\ notifying' = [notifying EXCEPT ![c] = <<"ready">>]
    /\ UNCHANGED <<control, controlBytes, closeVars, output, controlSent,
                   noteVars, receiverVars, poolVars, gotVars>>

(* Both lanes are cleared and their counters reset. *)
ClearLanes(c) ==
    /\ topics' = [topics EXCEPT ![c] = << >>]
    /\ control' = [control EXCEPT ![c] = << >>]
    /\ topicBytes' = [topicBytes EXCEPT ![c] = 0]
    /\ controlBytes' = [controlBytes EXCEPT ![c] = 0]

(* Output::enqueue for a control batch.  A batch that does not fit closes  *)
(* the connection (SendError::ControlFull).                                *)
ControlFits(c, bytes) ==
    /\ Len(control[c]) < ControlCapacity
    /\ bytes <= Room(controlBytes[c])

EnqueueControl(c, bytes, encode) ==
    /\ output[c] /\ notifying[c] = << >>
    /\ ~Closed(c)
    /\ controlSent[c] < MaxControl
    /\ LET id == controlSent[c] + 1
           new == [lane |-> Control, id |-> id, bytes |-> bytes,
                   encode |-> encode]
       IN  /\ controlSent' = [controlSent EXCEPT ![c] = id]
           /\ IF ControlFits(c, bytes)
              THEN /\ control' = [control EXCEPT ![c] = Append(@, new)]
                   /\ controlBytes' = [controlBytes EXCEPT ![c] = @ + bytes]
                   /\ notifying' = [notifying EXCEPT ![c] = <<"ready">>]
                   /\ UNCHANGED <<topics, topicBytes, closeVars>>
              ELSE /\ closeReason' = [closeReason EXCEPT ![c] = "full"]
                   /\ senderClosed' = [senderClosed EXCEPT ![c] = TRUE]
                   /\ ClearLanes(c)
                   /\ notifying' = [notifying EXCEPT ![c] =
                                       <<"ready", "closed">>]
                   /\ UNCHANGED receiverClosed
    /\ UNCHANGED <<dropped, output, topicSent, noteVars, receiverVars,
                   poolVars, gotVars>>

(* Mutant: the drop wakes a writer that waits for a permit, but not one    *)
(* that waits for data.                                                    *)
DropOutputSilently(c) ==
    /\ output[c] /\ notifying[c] = << >>
    /\ output' = [output EXCEPT ![c] = FALSE]
    /\ senderClosed' = [senderClosed EXCEPT ![c] = TRUE]
    /\ ClearLanes(c)
    /\ notifying' = [notifying EXCEPT ![c] = <<"closed">>]
    /\ UNCHANGED <<receiverClosed, closeReason, dropped, topicSent,
                   controlSent, noteVars, receiverVars, poolVars, gotVars>>

(* Drop for Output, when the bridge forgets the connection. *)
DropOutput(c) ==
    /\ output[c] /\ notifying[c] = << >>
    /\ output' = [output EXCEPT ![c] = FALSE]
    /\ senderClosed' = [senderClosed EXCEPT ![c] = TRUE]
    /\ ClearLanes(c)
    /\ notifying' = [notifying EXCEPT ![c] = <<"ready", "closed">>]
    /\ UNCHANGED <<receiverClosed, closeReason, dropped, topicSent,
                   controlSent, noteVars, receiverVars, poolVars, gotVars>>

(* The notify_one calls after the lock is released.  Without a waiter a    *)
(* Notify stores one permit, however often it is notified.                 *)
Notify(c) ==
    /\ notifying[c] # << >>
    /\ notifying' = [notifying EXCEPT ![c] = Tail(@)]
    /\ IF Head(notifying[c]) = "ready"
       THEN /\ readyNote' = [readyNote EXCEPT ![c] = TRUE]
            /\ UNCHANGED closedNote
       ELSE /\ closedNote' = [closedNote EXCEPT ![c] = TRUE]
            /\ UNCHANGED readyNote
    /\ UNCHANGED <<queueVars, closeVars, dropped, output, topicSent,
                   controlSent, receiverVars, poolVars, gotVars>>

-----------------------------------------------------------------------------
(* Receiver::recv, one action per section between two waits. *)

Pending(c) == control[c] # << >> \/ topics[c] # << >>

(* The head of the loop: return None, wait for a notification or queue up  *)
(* for a permit.  The data stays in its lane meanwhile.                    *)
RecvCheck(c) ==
    /\ pc[c] = "check"
    /\ pc' = [pc EXCEPT ![c] = IF senderClosed[c] THEN "returned"
                               ELSE IF Pending(c) THEN "acquire"
                               ELSE "idle"]
    /\ waiters' = IF pc'[c] = "acquire" THEN Append(waiters, c) ELSE waiters
    /\ UNCHANGED <<queueVars, closeVars, dropped, senderVars, noteVars, batch,
                   job, result, available, gotVars>>

RecvWake(c) ==
    /\ pc[c] = "idle"
    /\ readyNote[c]
    /\ readyNote' = [readyNote EXCEPT ![c] = FALSE]
    /\ pc' = [pc EXCEPT ![c] = "check"]
    /\ UNCHANGED <<queueVars, closeVars, dropped, senderVars, closedNote,
                   batch, job, result, poolVars, gotVars>>

(* The select! between acquire_owned and closed.notified.  The semaphore   *)
(* serves its waiters in the order in which they came.                     *)
Acquire(c) ==
    /\ pc[c] = "acquire"
    /\ available > 0
    /\ waiters # << >> /\ Head(waiters) = c
    /\ available' = available - 1
    /\ waiters' = Tail(waiters)
    /\ pc' = [pc EXCEPT ![c] = "take"]
    /\ UNCHANGED <<queueVars, closeVars, dropped, senderVars, noteVars, batch,
                   job, result, gotVars>>

AcquireClosed(c) ==
    /\ pc[c] = "acquire"
    /\ closedNote[c]
    /\ closedNote' = [closedNote EXCEPT ![c] = FALSE]
    /\ waiters' = RemoveFirst(waiters, c)
    /\ pc' = [pc EXCEPT ![c] = "returned"]
    /\ UNCHANGED <<queueVars, closeVars, dropped, senderVars, readyNote,
                   batch, job, result, available, gotVars>>

(* Receiver::take and what recv makes of it.  Control batches come first.  *)
(* A batch of frames gives its permit back at once; one that must be       *)
(* encoded passes it to the blocking job.                                  *)
Start(c, b) ==
    /\ batch' = [batch EXCEPT ![c] = b]
    /\ pc' = [pc EXCEPT ![c] = "encoding"]
    /\ job' = [job EXCEPT ![c] = IF b.encode THEN "spawned" ELSE "ended"]
    /\ result' = [result EXCEPT ![c] = "ok"]
    /\ available' = IF b.encode THEN available ELSE available + 1

TakeControl(c) ==
    /\ pc[c] = "take"
    /\ control[c] # << >>
    /\ control' = [control EXCEPT ![c] = Tail(@)]
    /\ controlBytes' = [controlBytes EXCEPT ![c] = @ - Head(control[c]).bytes]
    /\ Start(c, Head(control[c]))
    /\ UNCHANGED <<topics, topicBytes, closeVars, dropped, senderVars,
                   noteVars, waiters, gotVars>>

TakeTopic(c) ==
    /\ pc[c] = "take"
    /\ control[c] = << >>
    /\ topics[c] # << >>
    /\ topics' = [topics EXCEPT ![c] = Tail(@)]
    /\ topicBytes' = [topicBytes EXCEPT ![c] = @ - Head(topics[c]).bytes]
    /\ Start(c, Head(topics[c]))
    /\ UNCHANGED <<control, controlBytes, closeVars, dropped, senderVars,
                   noteVars, waiters, gotVars>>

TakeNothing(c) ==
    /\ pc[c] = "take"
    /\ ~Pending(c)
    /\ pc' = [pc EXCEPT ![c] = IF senderClosed[c] THEN "returned"
                               ELSE "check"]
    /\ available' = available + 1
    /\ UNCHANGED <<queueVars, closeVars, dropped, senderVars, noteVars, batch,
                   job, result, waiters, gotVars>>

(* Mutant: a canceled job keeps its permit. *)
JobCheckLeaks(c) ==
    /\ job[c] = "spawned"
    /\ IF Closed(c)
       THEN /\ job' = [job EXCEPT ![c] = "ended"]
            /\ result' = [result EXCEPT ![c] = "err"]
       ELSE /\ job' = [job EXCEPT ![c] = "running"]
            /\ UNCHANGED result
    /\ UNCHANGED <<queueVars, closeVars, dropped, senderVars, noteVars, pc,
                   batch, available, waiters, gotVars>>

(* The blocking job.  It looks at the closed flags before it starts; its   *)
(* permit is released when it ends, also when the writer is gone and also  *)
(* when it panics.                                                         *)
JobCheck(c) ==
    /\ job[c] = "spawned"
    /\ IF Closed(c)
       THEN /\ job' = [job EXCEPT ![c] = "ended"]
            /\ result' = [result EXCEPT ![c] = "err"]
            /\ available' = available + 1
       ELSE /\ job' = [job EXCEPT ![c] = "running"]
            /\ UNCHANGED <<result, available>>
    /\ UNCHANGED <<queueVars, closeVars, dropped, senderVars, noteVars, pc,
                   batch, waiters, gotVars>>

JobEnd(c) ==
    /\ job[c] = "running"
    /\ \E r \in {"ok", "big", "err", "panic"} :
          result' = [result EXCEPT ![c] = r]
    /\ job' = [job EXCEPT ![c] = "ended"]
    /\ available' = available + 1
    /\ UNCHANGED <<queueVars, closeVars, dropped, senderVars, noteVars, pc,
                   batch, waiters, gotVars>>

(* Receiver::finish.  A batch that finishes after the close is discarded;  *)
(* a bad topic batch is counted as dropped, a bad control batch closes the *)
(* connection, and so does a panic of the job whatever the lane.           *)
Deliver(c) ==
    IF batch[c].lane = Control
    THEN /\ controlGot' = [controlGot EXCEPT ![c] = batch[c].id]
         /\ UNCHANGED topicGot
    ELSE /\ topicGot' = [topicGot EXCEPT ![c] = Append(@, batch[c].id)]
         /\ UNCHANGED controlGot

RejectTopic(c) ==
    /\ dropped' = [dropped EXCEPT ![c] = @ + 1]
    /\ UNCHANGED <<queueVars, closeVars, gotVars>>

RejectControl(c) ==
    /\ closeReason' = [closeReason EXCEPT ![c] =
                          IF result[c] = "big" THEN "big" ELSE "err"]
    /\ senderClosed' = [senderClosed EXCEPT ![c] = TRUE]
    /\ ClearLanes(c)
    /\ UNCHANGED <<receiverClosed, dropped, gotVars>>

(* Mutant: only a dropped receiver makes finish discard the frames. *)
DiscardsReceiverOnly(c) == receiverClosed[c]

Discards(c) == Closed(c)

(* Mutant: a control batch that cannot be encoded is dropped like a topic  *)
(* batch.                                                                  *)
ClosesOnPanicOnly(c) == result[c] = "panic"

ClosesOn(c) == batch[c].lane = Control \/ result[c] = "panic"

Finish(c) ==
    /\ pc[c] = "encoding"
    /\ job[c] = "ended"
    /\ pc' = [pc EXCEPT ![c] = "check"]
    /\ job' = [job EXCEPT ![c] = "none"]
    /\ batch' = [batch EXCEPT ![c] = NoBatch]
    /\ result' = [result EXCEPT ![c] = "ok"]
    /\ \/ /\ Discards(c)
          /\ UNCHANGED <<queueVars, closeVars, dropped, gotVars>>
       \/ /\ ~Discards(c) /\ result[c] = "ok"
          /\ Deliver(c)
          /\ UNCHANGED <<queueVars, closeVars, dropped>>
       \/ /\ ~Discards(c) /\ result[c] # "ok" /\ ~ClosesOn(c)
          /\ RejectTopic(c)
       \/ /\ ~Discards(c) /\ result[c] # "ok" /\ ClosesOn(c)
          /\ RejectControl(c)
    /\ UNCHANGED <<senderVars, noteVars, poolVars>>

(* Mutant: the permit belongs to the recv future and not to the job. *)
DropReceiverFreesPermit(c) ==
    /\ pc[c] \in {"check", "idle", "acquire", "encoding", "returned"}
    /\ pc' = [pc EXCEPT ![c] = "gone"]
    /\ receiverClosed' = [receiverClosed EXCEPT ![c] = TRUE]
    /\ topics' = [topics EXCEPT ![c] = << >>]
    /\ control' = [control EXCEPT ![c] = << >>]
    /\ waiters' = RemoveFirst(waiters, c)
    /\ available' = IF job[c] \in {"spawned", "running"} THEN available + 1
                    ELSE available
    /\ UNCHANGED <<topicBytes, controlBytes, senderClosed, closeReason,
                   dropped, senderVars, noteVars, batch, job, result, gotVars>>

(* The session ends at one of its awaits: the recv future is dropped with  *)
(* whatever it waits for, then Drop for Receiver runs.  A blocking job     *)
(* goes on without it.                                                     *)
DropReceiver(c) ==
    /\ pc[c] \in {"check", "idle", "acquire", "encoding", "returned"}
    /\ pc' = [pc EXCEPT ![c] = "gone"]
    /\ receiverClosed' = [receiverClosed EXCEPT ![c] = TRUE]
    /\ topics' = [topics EXCEPT ![c] = << >>]
    /\ control' = [control EXCEPT ![c] = << >>]
    /\ waiters' = RemoveFirst(waiters, c)
    /\ UNCHANGED <<topicBytes, controlBytes, senderClosed, closeReason,
                   dropped, senderVars, noteVars, batch, job, result,
                   available, gotVars>>

Sender(c) ==
    \/ \E t \in Topic, limit \in TopicLimits, bytes \in Sizes,
          encode \in Encodings : EnqueueTopic(c, t, limit, bytes, encode)
    \/ \E bytes \in Sizes, encode \in Encodings :
          EnqueueControl(c, bytes, encode)
    \/ DropOutput(c)

Recv(c) ==
    \/ RecvCheck(c) \/ RecvWake(c)
    \/ Acquire(c) \/ AcquireClosed(c)
    \/ TakeControl(c) \/ TakeTopic(c) \/ TakeNothing(c)
    \/ Finish(c)

Job(c) == JobCheck(c) \/ JobEnd(c)

Next == \E c \in Conn :
    Sender(c) \/ Notify(c) \/ Recv(c) \/ Job(c) \/ DropReceiver(c)

Spec == Init /\ [][Next]_vars

(* The ROS worker completes the call it is in, the runtime polls a task    *)
(* that can move, and a codec terminates.  Nothing obliges the ROS worker  *)
(* to send, or the session to end.                                         *)
FairSpec ==
    /\ Spec
    /\ \A c \in Conn : /\ WF_vars(Notify(c))
                       /\ WF_vars(Recv(c))
                       /\ WF_vars(Job(c))

-----------------------------------------------------------------------------
InFlight(c, lane(_)) ==
    IF pc[c] = "encoding" /\ lane(batch[c].lane) THEN <<batch[c]>> ELSE << >>

IsTopic(lane) == lane # Control
IsControl(lane) == lane = Control

Ids(queue) == [i \in DOMAIN queue |-> queue[i].id]

Bytes(queue) ==
    LET sum[n \in 0..Len(queue)] ==
            IF n = 0 THEN 0 ELSE sum[n - 1] + queue[n].bytes
    IN  sum[Len(queue)]

(* Byte accounting is exact as long as anything can be queued, and every   *)
(* topic batch offered to an open connection is delivered, in flight,      *)
(* queued or counted in `dropped', exactly one of them.                    *)
Accounting ==
    \A c \in Conn : ~Closed(c) =>
        /\ topicBytes[c] = Bytes(topics[c])
        /\ controlBytes[c] = Bytes(control[c])
        /\ topicSent[c] = Len(topicGot[c]) + dropped[c] + Len(topics[c])
                            + Len(InFlight(c, IsTopic))

(* "Control traffic has reserved capacity and is never silently            *)
(* discarded": while the connection is open, the control batches taken but *)
(* not delivered and those queued are exactly the ones offered since the   *)
(* last delivery, in order.                                                *)
ControlLossless ==
    \A c \in Conn : ~Closed(c) =>
        Ids(InFlight(c, IsControl) \o control[c]) =
            [i \in 1..(controlSent[c] - controlGot[c]) |-> controlGot[c] + i]

(* Topic batches reach the socket in the order in which they were offered, *)
(* whatever was evicted in between.                                        *)
TopicFifo ==
    \A c \in Conn :
        LET all == topicGot[c] \o Ids(InFlight(c, IsTopic) \o topics[c])
        IN  \A i, j \in DOMAIN all : i < j => all[i] < all[j]

(* Neither lane loses or reorders what it may not, and the counters that   *)
(* decide on eviction and on the close say what the lanes hold.            *)
LanesFaithful == TypeOK /\ Accounting /\ ControlLossless /\ TopicFifo

(* A free permit is one that nobody holds: no path of recv and no end of a *)
(* job loses a permit or returns it twice.                                 *)
Holders == {c \in Conn : pc[c] = "take" \/ job[c] \in {"spawned", "running"}}

PermitsConserved == available + Cardinality(Holders) = Workers

(* No lost wakeup: a writer that waits for data has been, or is about to   *)
(* be, notified of data or of the close; one that waits for a permit has   *)
(* been, or is about to be, notified of the close.                         *)
WakeupPending ==
    \A c \in Conn :
        /\ (pc[c] = "idle" /\ (Pending(c) \/ senderClosed[c])) =>
              readyNote[c] \/ Contains(notifying[c], "ready")
        /\ (pc[c] = "acquire" /\ senderClosed[c]) =>
              closedNote[c] \/ Contains(notifying[c], "closed")

(* Nothing reaches the socket after the close, and the reason of the close *)
(* is the first one.                                                       *)
CloseIsFinal ==
    [][\A c \in Conn : Closed(c) =>
          /\ Closed(c)'
          /\ UNCHANGED <<topicGot[c], controlGot[c]>>
          /\ senderClosed[c] => UNCHANGED closeReason[c]]_vars

(* "Evict only this topic; never sacrifice another topic's backlog": what  *)
(* an offer removes from the lane is older than every batch of the offered *)
(* topic that stays, and belongs to that topic; what it adds is at most    *)
(* the batch offered.  (The order of what stays is that of TopicFifo.)     *)
EvictOwnTopic ==
    [][\A c \in Conn : topicSent'[c] # topicSent[c] =>
          \E t \in Topic :
             /\ \A b \in Range(topics[c]) \ Range(topics'[c]) :
                   /\ b.lane = t
                   /\ \A k \in Range(topics'[c]) : k.lane = t => b.id < k.id
             /\ \A b \in Range(topics'[c]) \ Range(topics[c]) :
                   b.lane = t /\ b.id = topicSent'[c]]_vars

(* Every control batch offered reaches the socket or the connection is     *)
(* closed, even when other connections keep the pool busy.                 *)
ControlDelivered ==
    \A c \in Conn, n \in 1..MaxControl :
        controlSent[c] >= n ~> (controlGot[c] >= n \/ Closed(c))
=============================================================================

------------------------------ MODULE Incoming ------------------------------
(***************************************************************************)
(* The incoming command scheduler (src/src/incoming.rs): every WebSocket   *)
(* connection has its own bounded FIFO of protocol commands, and the       *)
(* single ROS worker takes one command at a time, round-robin over the     *)
(* connections that have work.                                             *)
(*                                                                         *)
(* The connection tasks share one Arc<Mutex<State>> with the worker.  Each *)
(* method holds the lock from its first to its last line, so each method   *)
(* is one action.  HashMap<u64, Client> is the set `registered' of its     *)
(* keys and one total function per field of Client; a field of an          *)
(* unregistered connection has its default value.                          *)
(*                                                                         *)
(* A payload is the number of the message within the registration of its   *)
(* connection: 1 for the first accepted message, 2 for the second, ...     *)
(***************************************************************************)
EXTENDS Naturals, Sequences, SequencesExt

CONSTANTS
    Conn,       \* connection identifiers
    Capacity,   \* incoming_queue_size, per connection
    MaxSent     \* bound: messages accepted per registration

ASSUME CapacityAssumption == Capacity \in Nat \ {0}
ASSUME MaxSentAssumption == MaxSent \in Nat

VARIABLES
    registered, \* keys of State.clients
    output,     \* Client.output.is_some(): Connect not delivered yet
    messages,   \* Client.messages
    disconnect, \* Client.disconnect
    scheduled,  \* Client.scheduled
    ready,      \* State.ready
    closed,     \* State.closed
    worker,     \* the ROS worker thread, which owns the Receiver
    (* History: what the connection and the worker have seen. *)
    sent,       \* number of messages accepted in this registration
    got,        \* number of the last message handed to the worker
    bypass      \* bypass[c][d]: commands of d served since c was scheduled

queueVars == <<registered, output, messages, disconnect, scheduled, ready,
               closed>>
historyVars == <<sent, got, bypass>>
vars == <<queueVars, worker, historyVars>>

(* The shape of the state; the backlog of a connection never exceeds the    *)
(* configured incoming_queue_size.                                         *)
TypeOK ==
    /\ registered \subseteq Conn
    /\ output \in [Conn -> BOOLEAN]
    /\ messages \in [Conn -> Seq(Nat)]
    /\ \A c \in Conn : Len(messages[c]) <= Capacity
    /\ disconnect \in [Conn -> BOOLEAN]
    /\ scheduled \in [Conn -> BOOLEAN]
    /\ ready \in Seq(Conn)
    /\ closed \in BOOLEAN
    /\ worker \in {"running", "exited"}
    /\ sent \in [Conn -> Nat]
    /\ got \in [Conn -> Nat]
    /\ bypass \in [Conn -> [Conn -> Nat]]

-----------------------------------------------------------------------------
(* incoming::channel *)
Init ==
    /\ registered = {}
    /\ output = [c \in Conn |-> FALSE]
    /\ messages = [c \in Conn |-> << >>]
    /\ disconnect = [c \in Conn |-> FALSE]
    /\ scheduled = [c \in Conn |-> FALSE]
    /\ ready = << >>
    /\ closed = FALSE
    /\ worker = "running"
    /\ sent = [c \in Conn |-> 0]
    /\ got = [c \in Conn |-> 0]
    /\ bypass = [c \in Conn |-> [d \in Conn |-> 0]]

(* Mutant: the scheduled flag is never consulted, so a connection can      *)
(* stand in the ready queue twice.                                         *)
ScheduleTwice(c) ==
    /\ scheduled' = [scheduled EXCEPT ![c] = TRUE]
    /\ ready' = Append(ready, c)
    /\ bypass' = [bypass EXCEPT ![c] = IF scheduled[c] THEN @
                                       ELSE [d \in Conn |-> 0]]

(* State::schedule: a connection stands in the ready queue at most once.   *)
(* Waiting starts here, so this is where its bypass counts restart.        *)
Schedule(c) ==
    IF scheduled[c]
    THEN UNCHANGED <<scheduled, ready, bypass>>
    ELSE /\ scheduled' = [scheduled EXCEPT ![c] = TRUE]
         /\ ready' = Append(ready, c)
         /\ bypass' = [bypass EXCEPT ![c] = [d \in Conn |-> 0]]

(* Sender::connect.  Its two error returns leave the state alone. *)
Connect(c) ==
    /\ ~closed
    /\ c \notin registered
    /\ registered' = registered \cup {c}
    /\ output' = [output EXCEPT ![c] = TRUE]
    /\ messages' = [messages EXCEPT ![c] = << >>]
    /\ disconnect' = [disconnect EXCEPT ![c] = FALSE]
    /\ Schedule(c)
    /\ sent' = [sent EXCEPT ![c] = 0]
    /\ got' = [got EXCEPT ![c] = 0]
    /\ UNCHANGED <<closed, worker>>

(* Mutant: a closing connection still accepts messages. *)
MessageGuardClosing(c) ==
    /\ ~closed
    /\ c \in registered
    /\ Len(messages[c]) < Capacity

(* Sender::message.  A closed receiver, an unregistered or closing         *)
(* connection and a full queue are errors that leave the state alone.      *)
MessageGuard(c) ==
    /\ ~closed
    /\ c \in registered
    /\ ~disconnect[c]
    /\ Len(messages[c]) < Capacity

Message(c) ==
    /\ MessageGuard(c)
    /\ sent[c] < MaxSent
    /\ messages' = [messages EXCEPT ![c] = Append(@, sent[c] + 1)]
    /\ Schedule(c)
    /\ sent' = [sent EXCEPT ![c] = @ + 1]
    /\ UNCHANGED <<registered, output, disconnect, closed, worker, got>>

(* Sender::disconnect: discards the backlog and takes no queue capacity.   *)
Disconnect(c) ==
    /\ c \in registered
    /\ messages' = [messages EXCEPT ![c] = << >>]
    /\ disconnect' = [disconnect EXCEPT ![c] = TRUE]
    /\ Schedule(c)
    /\ UNCHANGED <<registered, output, closed, worker, sent, got>>

(* The body shared by Sender::shutdown and Drop for Receiver. *)
Close ==
    /\ closed' = TRUE
    /\ registered' = {}
    /\ output' = [c \in Conn |-> FALSE]
    /\ messages' = [c \in Conn |-> << >>]
    /\ disconnect' = [c \in Conn |-> FALSE]
    /\ scheduled' = [c \in Conn |-> FALSE]
    /\ ready' = << >>
    /\ UNCHANGED historyVars

Shutdown ==
    /\ ~closed
    /\ Close
    /\ UNCHANGED worker

(* Every other connection in the ready queue sees one more command of c. *)
Served(c, queue) ==
    [d \in Conn |-> IF d # c /\ Contains(queue, d)
                    THEN [bypass[d] EXCEPT ![c] = @ + 1]
                    ELSE bypass[d]]

(* Receiver::try_recv on a client that is closing. *)
RecvDisconnect ==
    /\ worker = "running"
    /\ ~closed
    /\ ready # << >>
    /\ LET c == Head(ready)
       IN  /\ disconnect[c]
           /\ registered' = registered \ {c}
           /\ output' = [output EXCEPT ![c] = FALSE]
           /\ disconnect' = [disconnect EXCEPT ![c] = FALSE]
           /\ scheduled' = [scheduled EXCEPT ![c] = FALSE]
           /\ ready' = Tail(ready)
           /\ bypass' = Served(c, Tail(ready))
    /\ UNCHANGED <<messages, closed, worker, sent, got>>

(* Mutant: the client is put back only when more than one message is left. *)
RequeueOffByOne(c, rest) ==
    IF Len(rest) > 1
    THEN /\ ready' = Append(Tail(ready), c)
         /\ bypass' = [Served(c, Tail(ready)) EXCEPT ![c] = [d \in Conn |-> 0]]
         /\ UNCHANGED scheduled
    ELSE /\ ready' = Tail(ready)
         /\ bypass' = Served(c, Tail(ready))
         /\ scheduled' = [scheduled EXCEPT ![c] = FALSE]

(* Mutant: a client with messages left is served again at once. *)
RequeueFront(c, rest) ==
    IF rest # << >>
    THEN /\ ready' = ready
         /\ bypass' = [Served(c, Tail(ready)) EXCEPT ![c] = [d \in Conn |-> 0]]
         /\ UNCHANGED scheduled
    ELSE /\ ready' = Tail(ready)
         /\ bypass' = Served(c, Tail(ready))
         /\ scheduled' = [scheduled EXCEPT ![c] = FALSE]

(* The tail of try_recv: the client goes to the back of the ready queue    *)
(* exactly when it still has messages.                                     *)
Requeue(c, rest) ==
    IF rest # << >>
    THEN /\ ready' = Append(Tail(ready), c)
         /\ bypass' = [Served(c, Tail(ready)) EXCEPT ![c] = [d \in Conn |-> 0]]
         /\ UNCHANGED scheduled
    ELSE /\ ready' = Tail(ready)
         /\ bypass' = Served(c, Tail(ready))
         /\ scheduled' = [scheduled EXCEPT ![c] = FALSE]

RecvConnect ==
    /\ worker = "running"
    /\ ~closed
    /\ ready # << >>
    /\ LET c == Head(ready)
       IN  /\ ~disconnect[c]
           /\ output[c]
           /\ output' = [output EXCEPT ![c] = FALSE]
           /\ Requeue(c, messages[c])
    /\ UNCHANGED <<registered, messages, disconnect, closed, worker, sent,
                   got>>

RecvMessage ==
    /\ worker = "running"
    /\ ~closed
    /\ ready # << >>
    /\ LET c == Head(ready)
       IN  /\ ~disconnect[c]
           /\ ~output[c]
           /\ messages[c] # << >>
           /\ messages' = [messages EXCEPT ![c] = Tail(@)]
           /\ got' = [got EXCEPT ![c] = Head(messages[c])]
           /\ Requeue(c, Tail(messages[c]))
    /\ UNCHANGED <<registered, output, disconnect, closed, worker, sent>>

(* try_recv returns Command::Shutdown, the worker returns and drops the    *)
(* Receiver (src/src/server.rs).                                           *)
RecvShutdown ==
    /\ worker = "running"
    /\ closed
    /\ worker' = "exited"
    /\ UNCHANGED <<queueVars, historyVars>>

(* The worker leaves its loop on an error of backend.wait or bridge.tick;  *)
(* Drop for Receiver closes the channel.                                   *)
WorkerFails ==
    /\ worker = "running"
    /\ worker' = "exited"
    /\ Close

Next ==
    \/ \E c \in Conn : Connect(c) \/ Message(c) \/ Disconnect(c)
    \/ Shutdown
    \/ RecvDisconnect
    \/ RecvConnect
    \/ RecvMessage
    \/ RecvShutdown
    \/ WorkerFails

Spec == Init /\ [][Next]_vars

(* The worker loop polls try_recv again after a wait bounded by 100 ms.    *)
Recv == RecvDisconnect \/ RecvConnect \/ RecvMessage \/ RecvShutdown

FairSpec == Spec /\ WF_vars(Recv)

-----------------------------------------------------------------------------
HasWork(c) == output[c] \/ disconnect[c] \/ messages[c] # << >>

Waiting(c) == Contains(ready, c)

(* Whoever stands in the ready queue is registered and has something for   *)
(* the worker: neither clients.get_mut(&id).unwrap() nor the               *)
(* messages.pop_front().unwrap() of try_recv can panic the ROS worker.     *)
ReadyHasWork ==
    \A i \in 1..Len(ready) : ready[i] \in registered /\ HasWork(ready[i])

(* A connection with a pending Connect, Disconnect or message stands in    *)
(* the ready queue, exactly once: try_recv and message together never      *)
(* forget a connection that still has work.                                *)
WorkIsReady ==
    /\ \A c \in registered : HasWork(c) => Waiting(c)
    /\ IsInjective(ready)

(* A message of a connection that is not closing is refused exactly when   *)
(* Capacity of the messages accepted before it have not been handed over:  *)
(* not later, and not earlier, whatever else of the connection (its        *)
(* Connect) or of the others waits.                                        *)
RefusedOnlyWhenFull ==
    \A c \in registered :
        ~disconnect[c] => (MessageGuard(c) <=> sent[c] < got[c] + Capacity)

(* Both ways: the ready queue names exactly the connections with work,     *)
(* each once, and a backlog takes Capacity messages and no more, whatever  *)
(* order sessions and the worker take the lock in.                         *)
ReadyIffWork ==
    /\ TypeOK
    /\ ReadyHasWork /\ WorkIsReady
    /\ RefusedOnlyWhenFull

(* The backlog holds exactly the accepted messages the worker has not      *)
(* seen, in the order in which they arrived; that of a closing connection  *)
(* stays empty, so nothing is handed over after Sender::disconnect.        *)
Backlog ==
    \A c \in registered :
        IF disconnect[c]
        THEN messages[c] = << >>
        ELSE /\ Len(messages[c]) + got[c] = sent[c]
             /\ \A i \in 1..Len(messages[c]) : messages[c][i] = got[c] + i

(* Round-robin: while a connection waits for its turn, no other connection *)
(* is served more than once, whatever its backlog ("noisy client cannot    *)
(* starve other clients").                                                 *)
BoundedBypass ==
    \A c, d \in Conn : (c # d /\ Waiting(c)) => bypass[c][d] <= 1

(* The scheduler implements the abstract channel: connect first, then      *)
(* every accepted message once and in order, and none after disconnect.    *)
Phase(c) ==
    CASE c \notin registered -> "absent"
      [] c \in registered /\ disconnect[c] -> "closing"
      [] c \in registered /\ ~disconnect[c] /\ output[c] -> "pending"
      [] OTHER -> "open"

Channel == INSTANCE CommandChannel
             WITH phase <- [c \in Conn |-> Phase(c)], stopped <- closed

ChannelSpec == Channel!Spec

(* Every accepted message reaches the worker, unless its connection is     *)
(* closing or the whole channel is shut down.                              *)
EventuallyServed ==
    \A c \in Conn, n \in 1..MaxSent :
        (c \in registered /\ sent[c] >= n) ~>
            (c \notin registered \/ disconnect[c] \/ got[c] >= n)
=============================================================================

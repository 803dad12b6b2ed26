------------------------------- MODULE Server -------------------------------
(***************************************************************************)
(* The server process, src/src/server.rs: the accept loop, one task per    *)
(* connection, the ROS worker's loop with its wait set and wake-up handle  *)
(* (src/src/ros/wait.rs), and the shutdown by a signal or by the end of    *)
(* the worker.  The command channel (Incoming), the bridge and the         *)
(* sessions (Session) appear as far as the life of an Output needs them.   *)
(*                                                                         *)
(* Time is discrete.  What has a deadline may end before it and must end   *)
(* by it; what has none takes no time.                                     *)
(***************************************************************************)
EXTENDS Naturals, FiniteSets

CONSTANTS
    Conn,           \* bound: connections at any one time, each of which ends and may come again
    HandshakeTime,  \* the WebSocket handshake's time-out, 10 s
    WriteTime,      \* WRITE_TIMEOUT, 10 s
    CloseTime,      \* CLOSE_TIMEOUT, 1 s
    GraceTime,      \* the wait for the connections at shutdown, 12 s
    WaitTime,       \* next_wakeup, at most 100 ms
    NapTime,        \* the sleep of the accept loop, 100 ms
    TickTime,       \* the longest tick of the bridge, usually
    SlowTime,       \* bound: a tick that is held up in ROS
    Budget          \* commands of one round, 64

(* The grace period covers one tick, one batch in flight or a handshake,   *)
(* and a closing handshake.                                                *)
ASSUME GraceAssumption ==
    /\ {HandshakeTime, WriteTime, CloseTime, WaitTime, NapTime, TickTime,
        SlowTime} \subseteq Nat
    /\ Budget \in Nat \ {0, 1}
    /\ GraceTime \in Nat
    /\ GraceTime > TickTime + WriteTime + CloseTime
    /\ GraceTime > HandshakeTime + CloseTime

VARIABLES
    main, grace,    \* the accept loop and then the shutdown; its deadline
    nap,            \* what is left of the accept loop's sleep
    cause,          \* why the loop ended
    task, left,     \* each connection's task; time to its deadline
    entry, ready,   \* the channel: each client's next command; scheduled clients
    closed,         \* the channel is closed
    waking,         \* senders between their command and Wake::trigger
    triggered,      \* the guard condition
    worker, rest,   \* the ROS worker; time to its deadline
    round, slow,    \* commands it has taken in this round; its last tick is slow
    bridge          \* clients whose Output the bridge holds

chanVars == <<entry, ready, closed>>
workVars == <<worker, rest, round, slow, bridge>>
mainVars == <<main, grace, nap, cause>>
vars == <<mainVars, task, left, chanVars, waking, triggered, workVars>>

Live == {"handshake", "open", "writing", "closing", "leave", "drop"}
Ended(c) == task[c] \in {"none", "ended"}
WorkerGone == worker \in {"ended", "failed"}

(* The Output of c exists, in the channel or in the bridge. *)
OutputAlive(c) == c \in bridge \/ entry[c] = "connect"

Init ==
    /\ main = "start" /\ grace = 0 /\ nap = 0 /\ cause = "none"
    /\ task = [c \in Conn |-> "none"] /\ left = [c \in Conn |-> 0]
    /\ entry = [c \in Conn |-> "none"] /\ ready = {} /\ closed = FALSE
    /\ waking = {} /\ triggered = FALSE
    /\ worker = "start" /\ rest = 0 /\ round = 0 /\ slow = FALSE /\ bridge = {}

--------------------------------------------------------------------------------
(* mutant: a command without a wake-up *)
WakesNot(x) == waking

(* Sender::try_send: the command is in the channel, trigger is next. *)
Wakes(x) == waking \cup {x}

(* Wake::trigger, under the lock that Wait's Drop takes before it destroys *)
(* the guard condition.                                                    *)
Trigger(x) ==
    /\ x \in waking
    /\ waking' = waking \ {x}
    /\ triggered' = (triggered \/ ~WorkerGone)
    /\ UNCHANGED <<mainVars, task, left, chanVars, workVars>>

(* incoming::Sender::shutdown, and the Receiver's Drop. *)
ChannelCloses ==
    /\ closed' = TRUE
    /\ entry' = [c \in Conn |-> "none"]
    /\ ready' = {}

(* mutant: a close handshake as long as a write *)
DeadlineLong(st) == [handshake |-> HandshakeTime, writing |-> WriteTime, closing |-> WriteTime, open |-> 0,
                     leave |-> 0, drop |-> 0, ended |-> 0][st]

(* tokio::time::timeout around each step of a connection. *)
Deadline(st) == [handshake |-> HandshakeTime, writing |-> WriteTime, closing |-> CloseTime, open |-> 0,
                 leave |-> 0, drop |-> 0, ended |-> 0][st]

Become(c, st) == task' = [task EXCEPT ![c] = st] /\ left' = [left EXCEPT ![c] = Deadline(st)]

(* A task's step that touches nothing else. *)
Moves(c, from, st) ==
    /\ task[c] = from /\ c \notin waking
    /\ Become(c, st)
    /\ UNCHANGED <<mainVars, chanVars, waking, triggered, workVars>>

(* connection: the handshake is done; register the Output.  A closed       *)
(* channel drops it, and the session still closes properly.                *)
Register(c) ==
    /\ task[c] = "handshake"
    /\ Become(c, "open")
    /\ entry' = IF closed THEN entry ELSE [entry EXCEPT ![c] = "connect"]
    /\ ready' = IF closed THEN ready ELSE ready \cup {c}
    /\ waking' = IF closed THEN waking ELSE Wakes(c)
    /\ UNCHANGED <<mainVars, closed, triggered, workVars>>

(* The session passes a message on; the backlog of a client, which is      *)
(* Incoming's subject, is its place among the scheduled ones.              *)
Message(c) ==
    /\ task[c] \in {"open", "writing"} /\ c \notin waking
    /\ entry[c] = "known" /\ c \notin ready
    /\ ready' = ready \cup {c}
    /\ waking' = Wakes(c)
    /\ UNCHANGED <<mainVars, task, left, entry, closed, triggered, workVars>>

(* Command::Disconnect, after the session and again when Registration is   *)
(* dropped.                                                                *)
Disconnect(c, from, st) ==
    /\ task[c] = from /\ c \notin waking
    /\ Become(c, st)
    /\ entry' = IF entry[c] = "none" THEN entry ELSE [entry EXCEPT ![c] = "leaving"]
    /\ ready' = IF entry[c] = "none" THEN ready ELSE ready \cup {c}
    /\ waking' = Wakes(c)
    /\ UNCHANGED <<mainVars, closed, triggered, workVars>>

(* The steps of c's session: it may start a batch while it has an Output,  *)
(* end for any reason between two batches, or by a failed write; an end of *)
(* stream has no closing handshake.                                        *)
SessionStep(c) ==
    \/ Moves(c, "handshake", "ended")
    \/ OutputAlive(c) /\ Moves(c, "open", "writing")
    \/ left[c] > 0 /\ Moves(c, "writing", "open")
    \/ Moves(c, "open", "closing") \/ Moves(c, "writing", "closing")
    \/ Moves(c, "open", "leave") \/ Moves(c, "closing", "leave")
    \/ Disconnect(c, "leave", "drop") \/ Disconnect(c, "drop", "ended")

--------------------------------------------------------------------------------
(* The worker thread returns: the bridge and the Receiver are dropped. *)
WorkerReturns(how) ==
    /\ worker' = how /\ rest' = 0 /\ round' = 0 /\ bridge' = {}
    /\ ChannelCloses
    /\ UNCHANGED <<main, grace, nap, task, left, waking, slow>>

(* Ros::new and enable_rosapi. *)
WorkerStarts ==
    /\ worker = "start"
    /\ \/ worker' = "check" /\ UNCHANGED <<chanVars, waking, task, left, mainVars, rest, round, slow, bridge>>
       \/ WorkerReturns("failed") /\ cause' = "start"
    /\ UNCHANGED triggered

(* has_pending decides how long to wait. *)
WorkerChecks ==
    /\ worker = "check"
    /\ worker' = "wait"
    /\ rest' = IF closed \/ ready # {} THEN 0 ELSE WaitTime
    /\ UNCHANGED <<mainVars, task, left, chanVars, waking, triggered, round, slow, bridge>>

(* Ros::wait returns for the guard condition, an entity that is ready, the *)
(* time-out or an error; it takes the trigger.                             *)
WorkerWakes ==
    /\ worker = "wait"
    /\ triggered' = FALSE
    /\ \/ /\ worker' = "commands" /\ rest' = 0 /\ round' = 0
          /\ UNCHANGED <<mainVars, task, left, chanVars, waking, slow, bridge>>
       \/ WorkerReturns("failed") /\ UNCHANGED cause

(* One command.  Before the last of a round the worker triggers the guard  *)
(* condition for the next wait.                                            *)
WorkerCommand(c) ==
    /\ worker = "commands" /\ ~closed
    /\ c \in ready /\ round < Budget
    /\ ready' = ready \ {c}
    /\ entry' = [entry EXCEPT ![c] = IF @ = "leaving" THEN "none" ELSE "known"]
    /\ bridge' = IF entry[c] = "connect" THEN bridge \cup {c}
                 ELSE IF entry[c] = "leaving" THEN bridge \ {c} ELSE bridge
    /\ round' = round + 1
    /\ triggered' = (triggered \/ round' = Budget - 1)
    /\ UNCHANGED <<mainVars, task, left, closed, waking, worker, rest, slow>>

(* Command::Shutdown: disconnect every client and return. *)
WorkerShutdown ==
    /\ worker = "commands" /\ closed /\ round < Budget
    /\ WorkerReturns("ended")
    /\ UNCHANGED <<triggered, cause>>

WorkerTicks ==
    /\ worker = "commands"
    /\ (~closed /\ ready = {}) \/ round = Budget
    /\ worker' = "tick"
    /\ slow' \in BOOLEAN
    /\ rest' = IF slow' THEN SlowTime ELSE TickTime
    /\ UNCHANGED <<mainVars, task, left, chanVars, waking, triggered, round, bridge>>

(* Bridge::tick ends; it reaps the clients whose Receiver is gone, or it   *)
(* fails and the worker returns.                                           *)
WorkerTicked ==
    /\ worker = "tick"
    /\ \/ /\ worker' = "check" /\ rest' = 0 /\ round' = 0
          /\ bridge' = {c \in bridge : task[c] \in {"open", "writing"}}
          /\ UNCHANGED <<mainVars, task, left, chanVars, waking, slow>>
       \/ WorkerReturns("failed") /\ UNCHANGED cause
    /\ UNCHANGED triggered

--------------------------------------------------------------------------------
(* run: the worker reports that it is ready and the listener is bound. *)
Listen ==
    /\ main = "start" /\ worker # "start" /\ cause = "none"
    /\ main' = "accept" /\ nap' = NapTime
    /\ UNCHANGED <<grace, cause, task, left, chanVars, waking, triggered, workVars>>

(* The worker cannot start, or a bind or accept fails: run returns.  After *)
(* a failed bind it stops the worker and joins it; after a failed accept   *)
(* it does not, and the threads die with the process.                      *)
StartFails ==
    /\ main = "start" /\ cause = "start"
    /\ main' = "exited"
    /\ UNCHANGED <<grace, nap, cause, task, left, chanVars, waking, triggered, workVars>>

BindFails ==
    /\ main = "start" /\ worker # "start" /\ cause = "none"
    /\ ChannelCloses
    /\ waking' = Wakes("main")
    /\ main' = "join" /\ cause' = "bind"
    /\ UNCHANGED <<grace, nap, task, left, triggered, workVars>>

(* An aborted task only drops its Registration, if it has one. *)
Aborted == [c \in Conn |-> IF task[c] \in {"open", "writing", "closing", "leave"} THEN "drop"
                           ELSE IF task[c] = "handshake" THEN "ended" ELSE task[c]]

AcceptFails ==
    /\ main = "accept"
    /\ main' = "exited" /\ cause' = "accept"
    /\ task' = [c \in Conn |-> "ended"] /\ worker' = "killed" /\ waking' = {}
    /\ UNCHANGED <<grace, nap, left, chanVars, triggered, rest, round, slow, bridge>>

(* listener.accept(): a connection arrives.  Every turn of the loop begins *)
(* a new sleep.                                                            *)
Accept(c) ==
    /\ main = "accept" /\ task[c] = "none"
    /\ entry[c] = "none" /\ c \notin bridge
    /\ Become(c, "handshake")
    /\ nap' = NapTime
    /\ UNCHANGED <<main, grace, cause, chanVars, waking, triggered, workVars>>

(* connections.join_next(): a connection has ended. *)
JoinNext(c) ==
    /\ main = "accept" /\ task[c] = "ended" /\ c \notin waking
    /\ task' = [task EXCEPT ![c] = "none"]
    /\ nap' = NapTime
    /\ UNCHANGED <<main, grace, cause, left, chanVars, waking, triggered, workVars>>

(* mutant: the accept loop does not look at the worker *)
NoticedNever == FALSE

(* worker.is_finished() *)
Noticed == WorkerGone

(* The sleep is over, and the worker still runs. *)
NapEnds ==
    /\ main = "accept" /\ nap = 0 /\ ~Noticed
    /\ nap' = NapTime
    /\ UNCHANGED <<main, grace, cause, task, left, chanVars, waking, triggered, workVars>>

(* The loop ends: a signal, or the sleep is over and the worker is gone.   *)
Stop(why) ==
    /\ main = "accept"
    /\ why = "worker" => nap = 0 /\ Noticed
    /\ ChannelCloses
    /\ waking' = Wakes("main")
    /\ main' = "stop" /\ cause' = why /\ grace' = GraceTime /\ nap' = 0
    /\ UNCHANGED <<task, left, triggered, workVars>>

(* Every connection has ended, or the grace period is over. *)
Joined ==
    /\ main \in {"stop", "abort"} /\ \A c \in Conn : Ended(c) /\ c \notin waking
    /\ main' = "join"
    /\ UNCHANGED <<grace, nap, cause, task, left, chanVars, waking, triggered, workVars>>

Abort ==
    /\ main = "stop" /\ grace = 0
    /\ main' = "abort"
    /\ task' = Aborted /\ left' = [c \in Conn |-> 0]
    /\ UNCHANGED <<grace, nap, cause, chanVars, waking, triggered, workVars>>

(* worker.join() *)
Exit ==
    /\ main = "join" /\ WorkerGone
    /\ main' = "exited"
    /\ UNCHANGED <<grace, nap, cause, task, left, chanVars, waking, triggered, workVars>>

--------------------------------------------------------------------------------
(* A task that cannot wait: its deadline is here, its Output is gone, or   *)
(* it is on its way out.                                                   *)
Timed(c) == task[c] \in {"handshake", "writing", "closing"}
MustMove(c) ==
    \/ Timed(c) /\ left[c] = 0
    \/ task[c] = "open" /\ ~OutputAlive(c)
    \/ task[c] \in {"leave", "drop"}

(* A unit of time passes when nothing has to happen before. *)
Tick ==
    /\ main # "exited"
    /\ waking = {} /\ \A c \in Conn : ~MustMove(c)
    /\ worker \notin {"check", "commands"}
    /\ worker \in {"wait", "tick"} => rest > 0
    /\ worker = "wait" => ~triggered
    /\ main = "accept" => nap > 0
    /\ main = "stop" => grace > 0 /\ \E c \in Conn : ~Ended(c)
    /\ grace' = IF main = "stop" THEN grace - 1 ELSE grace
    /\ nap' = IF main = "accept" THEN nap - 1 ELSE nap
    /\ left' = [c \in Conn |-> IF Timed(c) THEN left[c] - 1 ELSE left[c]]
    /\ rest' = IF worker \in {"wait", "tick"} THEN rest - 1 ELSE rest
    /\ UNCHANGED <<main, cause, task, chanVars, waking, triggered, worker, round, slow, bridge>>

TaskStep(c) == Register(c) \/ SessionStep(c)
WorkerStep ==
    \/ WorkerStarts \/ WorkerChecks \/ WorkerWakes \/ WorkerShutdown \/ WorkerTicks \/ WorkerTicked
    \/ \E c \in Conn : WorkerCommand(c)
Shutdown == NapEnds \/ Stop("worker") \/ Joined \/ Abort \/ Exit

Next ==
    \/ \E x \in Conn \cup {"main"} : Trigger(x)
    \/ \E c \in Conn : TaskStep(c) \/ Message(c) \/ Accept(c) \/ JoinNext(c)
    \/ WorkerStep
    \/ Listen \/ StartFails \/ BindFails \/ AcceptFails \/ Stop("signal") \/ Shutdown
    \/ Tick

Spec == Init /\ [][Next]_vars

(* The tasks, the worker, the sleep and the clock go on; connections and   *)
(* signals need not come, or may come for ever.                            *)
FairSpec ==
    /\ Spec
    /\ \A x \in Conn \cup {"main"} : WF_vars(Trigger(x))
    /\ \A c \in Conn : WF_vars(MustMove(c) /\ TaskStep(c))
    /\ WF_vars(WorkerStep) /\ WF_vars(Listen \/ StartFails) /\ WF_vars(Shutdown) /\ SF_vars(Tick)

--------------------------------------------------------------------------------
(* The types of the state. *)
TypeOK ==
    /\ main \in {"start", "accept", "stop", "abort", "join", "exited"} /\ grace \in 0 .. GraceTime
    /\ nap \in 0 .. NapTime
    /\ cause \in {"none", "start", "bind", "accept", "signal", "worker"}
    /\ task \in [Conn -> Live \cup {"none", "ended"}] /\ left \in [Conn -> Nat]
    /\ entry \in [Conn -> {"none", "connect", "known", "leaving"}]
    /\ ready \subseteq Conn /\ bridge \subseteq Conn /\ waking \subseteq Conn \cup {"main"}
    /\ {closed, triggered, slow} \subseteq BOOLEAN /\ round \in 0 .. Budget /\ rest \in Nat
    /\ worker \in {"start", "check", "wait", "commands", "tick", "ended", "failed", "killed"}

(* The grace period is never exhausted: after a signal or the end of the   *)
(* worker every connection ends by itself, since the Outputs are dropped   *)
(* and at most one batch, or a handshake, and a close are still to come.   *)
(* Only a worker held up in a tick makes the server abort connections.     *)
GraceSuffices == main = "abort" => slow

(* The worker does not sleep on a command: when it waits for the full time *)
(* and the guard condition is not triggered, the channel is empty or a     *)
(* sender is about to trigger it.                                          *)
NoLostWake ==
    /\ TypeOK
    /\ worker = "wait" /\ rest > 0 /\ ~triggered /\ waking = {} => ready = {} /\ ~closed

(* A signal ends the process, and so does the end of the worker, unless    *)
(* connections keep arriving: the accept loop looks at the worker when its *)
(* sleep is over, and every connection that comes or ends begins a new     *)
(* sleep.                                                                  *)
ServerExits ==
    /\ main = "stop" ~> main = "exited"
    /\ (WorkerGone ~> main = "exited") \/ []<><<\E c \in Conn : Accept(c)>>_vars
=============================================================================

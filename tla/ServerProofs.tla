---------------------------- MODULE ServerProofs ----------------------------
(***************************************************************************)
(* Proofs about the server process: about its shutdown and the loop of the *)
(* ROS worker, for every set of connections and all times and budgets that *)
(* satisfy GraceAssumption, and about the rosapi requests that the worker  *)
(* answers in its ticks, for any number of nodes, requests, clients and    *)
(* events of a poll; and about its log files, for any number of processes  *)
(* that share a directory.                                                 *)
(***************************************************************************)
EXTENDS Server, Rosapi, LogFile, FiniteSetTheorems, TLAPS

(* The parts of NoLostWake: the types that are sets and numbers, the       *)
(* flags, and the wake-up itself.                                          *)
MainType ==
    /\ main \in {"start", "accept", "stop", "abort", "join", "exited"} /\ grace \in 0 .. GraceTime
    /\ nap \in 0 .. NapTime
    /\ cause \in {"none", "start", "bind", "accept", "signal", "worker"}

TaskType ==
    task \in [Conn -> Live \cup {"none", "ended"}] /\ left \in [Conn -> Nat]

ChanType ==
    /\ entry \in [Conn -> {"none", "connect", "known", "leaving"}]
    /\ ready \subseteq Conn /\ waking \subseteq Conn \cup {"main"}

WorkType ==
    /\ bridge \subseteq Conn /\ round \in 0 .. Budget /\ rest \in Nat
    /\ worker \in {"start", "check", "wait", "commands", "tick", "ended", "failed", "killed"}

Flags == closed \in BOOLEAN /\ triggered \in BOOLEAN /\ slow \in BOOLEAN

Awake == worker = "wait" /\ rest > 0 /\ ~triggered /\ waking = {} => ready = {} /\ ~closed

Inv == MainType /\ TaskType /\ ChanType /\ WorkType /\ Flags /\ Awake

LEMMA InvIsNoLostWake == Inv => NoLostWake
<1> SUFFICES ASSUME Inv PROVE NoLostWake
  OBVIOUS
<1>1. {closed, triggered, slow} \subseteq BOOLEAN
  BY Zenon DEF Inv, Flags
<1>2. Awake /\ MainType /\ TaskType /\ ChanType /\ WorkType
  BY Zenon DEF Inv
<1>3. TypeOK
  BY <1>1, <1>2, Zenon DEF MainType, TaskType, ChanType, WorkType, TypeOK
<1> QED
  BY <1>2, <1>3, Zenon DEF Awake, NoLostWake

LEMMA InitInv == Init => Inv
<1> SUFFICES ASSUME Init PROVE Inv
  OBVIOUS
<1>1. Flags
  BY Zenon DEF Init, Flags
<1>2. MainType /\ TaskType /\ ChanType /\ WorkType
  BY GraceAssumption DEF Init, MainType, TaskType, ChanType, WorkType
<1>3. Awake
  BY DEF Init, Awake
<1> QED
  BY <1>1, <1>2, <1>3, Zenon DEF Inv

-----------------------------------------------------------------------------
(* Each part is kept by a step that leaves its variables alone. *)
LEMMA MainSame == ASSUME MainType, UNCHANGED mainVars PROVE MainType'
BY DEF MainType, mainVars
LEMMA TaskSame == ASSUME TaskType, UNCHANGED <<task, left>> PROVE TaskType'
BY DEF TaskType
LEMMA ChanSame == ASSUME ChanType, UNCHANGED <<entry, ready, waking>> PROVE ChanType'
BY DEF ChanType
LEMMA WorkSame == ASSUME WorkType, UNCHANGED <<worker, rest, round, bridge>> PROVE WorkType'
BY DEF WorkType

(* A step that neither queues a command, nor closes the channel, nor takes *)
(* a trigger while the worker waits cannot lose a wake-up.                 *)
LEMMA AwakeSame ==
    ASSUME Awake, UNCHANGED <<worker, rest, triggered, waking, ready, closed>> PROVE Awake'
BY DEF Awake

(* Neither can one after which the worker does not wait, or a sender is    *)
(* about to trigger.                                                       *)
LEMMA AwakeElse ==
    ASSUME worker' # "wait" \/ waking' # {} PROVE Awake'
BY DEF Awake

LEMMA BecomeType ==
    ASSUME TaskType, NEW c \in Conn, NEW st \in Live \cup {"ended"}, Become(c, st)
    PROVE  TaskType'
<1>1. Deadline(st) \in Nat
  BY GraceAssumption DEF Deadline, Live
<1> QED
  BY <1>1 DEF TaskType, Become

LEMMA TriggerStep == ASSUME Inv, NEW x \in Conn \cup {"main"}, Trigger(x) PROVE Inv'
<1>1. Flags'
  BY Zenon DEF Inv, Flags, Trigger, chanVars, workVars
<1>2. MainType' /\ TaskType' /\ WorkType'
  BY MainSame, TaskSame, WorkSame DEF Inv, Trigger, workVars
<1>3. ChanType'
  BY DEF Inv, ChanType, Trigger, chanVars
<1>4. worker' = worker
  BY DEF Trigger, workVars
<1>5. worker = "wait" => triggered'
  BY Zenon DEF Trigger, WorkerGone
<1>6. Awake'
  BY <1>4, <1>5, Zenon DEF Awake
<1> QED
  BY <1>1, <1>2, <1>3, <1>6, Zenon DEF Inv

(* A connection's task moves on. *)
LEMMA MovesStep ==
    ASSUME Inv, NEW c \in Conn, NEW from, NEW st \in Live \cup {"ended"}, Moves(c, from, st)
    PROVE  Inv'
<1>1. TaskType'
  BY BecomeType DEF Inv, Moves
<1>2. MainType' /\ WorkType' /\ ChanType' /\ Awake'
  BY MainSame, WorkSame, ChanSame, AwakeSame DEF Inv, Moves, workVars, chanVars
<1>3. Flags'
  BY Zenon DEF Inv, Flags, Moves, workVars, chanVars
<1> QED
  BY <1>1, <1>2, <1>3, Zenon DEF Inv

(* A disconnect enters the channel and then wakes the worker. *)
LEMMA DisconnectStep ==
    ASSUME Inv, NEW c \in Conn, NEW from, NEW st \in Live \cup {"ended"}, Disconnect(c, from, st)
    PROVE  Inv'
<1>1. TaskType'
  BY BecomeType DEF Inv, Disconnect
<1>2. MainType' /\ WorkType'
  BY MainSame, WorkSame DEF Inv, Disconnect, workVars
<1>3. ChanType'
  BY DEF Inv, ChanType, Disconnect, Wakes
<1>4. Awake'
  BY AwakeElse DEF Disconnect, Wakes
<1>5. Flags'
  BY Zenon DEF Inv, Flags, Disconnect, workVars
<1> QED
  BY <1>1, <1>2, <1>3, <1>4, <1>5, Zenon DEF Inv

LEMMA RegisterStep == ASSUME Inv, NEW c \in Conn, Register(c) PROVE Inv'
<1>1. TaskType'
  BY BecomeType DEF Inv, Register, Live
<1>2. MainType' /\ WorkType'
  BY MainSame, WorkSame DEF Inv, Register, workVars
<1>3. ChanType'
  BY DEF Inv, ChanType, Register, Wakes
<1>4. Awake'
  <2>1. CASE closed
    <3>1. UNCHANGED <<worker, rest, triggered, waking, ready, closed>>
      BY <2>1, Zenon DEF Register, workVars
    <3> QED
      BY <3>1, AwakeSame DEF Inv
  <2>2. CASE ~closed
    <3>1. waking' = Wakes(c)
      BY <2>2, Zenon DEF Register
    <3> QED
      BY <3>1, AwakeElse DEF Wakes
  <2> QED
    BY <2>1, <2>2, Zenon
<1>5. Flags'
  BY Zenon DEF Inv, Flags, Register, workVars
<1> QED
  BY <1>1, <1>2, <1>3, <1>4, <1>5, Zenon DEF Inv

LEMMA MessageStep == ASSUME Inv, NEW c \in Conn, Message(c) PROVE Inv'
<1>1. MainType' /\ TaskType' /\ WorkType'
  BY MainSame, TaskSame, WorkSame DEF Inv, Message, workVars
<1>2. ChanType'
  BY DEF Inv, ChanType, Message, Wakes
<1>3. Awake'
  BY AwakeElse DEF Message, Wakes
<1>4. Flags'
  BY Zenon DEF Inv, Flags, Message, workVars
<1> QED
  BY <1>1, <1>2, <1>3, <1>4, Zenon DEF Inv

LEMMA SessionSteps == ASSUME Inv, NEW c \in Conn, SessionStep(c) PROVE Inv'
<1>1. {"open", "writing", "closing", "leave", "drop", "ended"} \subseteq Live \cup {"ended"}
  BY DEF Live
<1>2. CASE \E from, st \in {"handshake", "open", "writing", "closing", "leave", "drop", "ended"} :
              st # "handshake" /\ Moves(c, from, st)
  BY <1>1, <1>2, MovesStep
<1>3. CASE Disconnect(c, "leave", "drop") \/ Disconnect(c, "drop", "ended")
  BY <1>1, <1>3, DisconnectStep
<1> QED
  BY <1>2, <1>3 DEF SessionStep

-----------------------------------------------------------------------------
(* The end of the worker empties the channel and leaves it closed, and     *)
(* nobody waits any more.                                                  *)
LEMMA ReturnsStep ==
    ASSUME Inv, NEW how \in {"ended", "failed"}, WorkerReturns(how),
           triggered' \in BOOLEAN,
           cause' \in {"none", "start", "bind", "accept", "signal", "worker"}
    PROVE  Inv'
<1>1. MainType'
  BY DEF Inv, MainType, WorkerReturns
<1>2. TaskType'
  BY TaskSame DEF Inv, WorkerReturns
<1>3. ChanType'
  BY DEF Inv, ChanType, WorkerReturns, ChannelCloses
<1>4. WorkType'
  BY GraceAssumption DEF Inv, WorkType, WorkerReturns
<1>5. Awake'
  BY AwakeElse DEF WorkerReturns
<1>6. Flags'
  BY Zenon DEF Inv, Flags, WorkerReturns, ChannelCloses
<1> QED
  BY <1>1, <1>2, <1>3, <1>4, <1>5, <1>6, Zenon DEF Inv

LEMMA WorkerStartsStep == ASSUME Inv, WorkerStarts PROVE Inv'
<1>0. triggered' \in BOOLEAN
  BY Zenon DEF Inv, Flags, WorkerStarts
<1>1. CASE WorkerReturns("failed") /\ cause' = "start"
  BY <1>0, <1>1, ReturnsStep
<1>2. CASE worker' = "check" /\ UNCHANGED <<chanVars, waking, task, left, mainVars, rest, round, slow, bridge>>
  <2>1. MainType' /\ TaskType' /\ ChanType'
    BY <1>2, MainSame, TaskSame, ChanSame DEF Inv, chanVars
  <2>2. WorkType'
    BY <1>2 DEF Inv, WorkType
  <2>3. Awake'
    BY <1>2, AwakeElse
  <2>4. Flags'
    BY <1>0, <1>2, Zenon DEF Inv, Flags, chanVars
  <2> QED
    BY <2>1, <2>2, <2>3, <2>4, Zenon DEF Inv
<1> QED
  BY <1>1, <1>2 DEF WorkerStarts

(* The worker waits for the full time only if the channel is open and      *)
(* empty when it looks.                                                    *)
LEMMA WorkerChecksStep == ASSUME Inv, WorkerChecks PROVE Inv'
<1>1. MainType' /\ TaskType' /\ ChanType'
  BY MainSame, TaskSame, ChanSame DEF Inv, WorkerChecks, chanVars
<1>2. Flags'
  BY Zenon DEF Inv, Flags, WorkerChecks, chanVars
<1>3. CASE closed \/ ready # {}
  <2>1. rest' = 0
    BY <1>3, Zenon DEF WorkerChecks
  <2>2. WorkType' /\ Awake'
    BY <2>1 DEF Inv, WorkType, Awake, WorkerChecks
  <2> QED
    BY <1>1, <1>2, <2>2, Zenon DEF Inv
<1>4. CASE ~closed /\ ready = {}
  <2>1. rest' = WaitTime /\ ready' = {} /\ ~closed'
    BY <1>4, Zenon DEF WorkerChecks, chanVars
  <2>2. WorkType'
    BY <2>1, GraceAssumption DEF Inv, WorkType, WorkerChecks
  <2>3. Awake'
    BY <2>1, Zenon DEF Awake
  <2> QED
    BY <1>1, <1>2, <2>2, <2>3, Zenon DEF Inv
<1> QED
  BY <1>3, <1>4, Zenon

LEMMA WorkerWakesStep == ASSUME Inv, WorkerWakes PROVE Inv'
<1>0. triggered' \in BOOLEAN
  BY Zenon DEF WorkerWakes
<1>1. CASE WorkerReturns("failed") /\ UNCHANGED cause
  <2>1. cause' \in {"none", "start", "bind", "accept", "signal", "worker"}
    BY <1>1 DEF Inv, MainType
  <2> QED
    BY <1>0, <1>1, <2>1, ReturnsStep
<1>2. CASE /\ worker' = "commands" /\ rest' = 0 /\ round' = 0
           /\ UNCHANGED <<mainVars, task, left, chanVars, waking, slow, bridge>>
  <2>1. MainType' /\ TaskType' /\ ChanType'
    BY <1>2, MainSame, TaskSame, ChanSame DEF Inv, chanVars
  <2>2. WorkType'
    BY <1>2, GraceAssumption DEF Inv, WorkType
  <2>3. Awake'
    BY <1>2, AwakeElse
  <2>4. Flags'
    BY <1>0, <1>2, Zenon DEF Inv, Flags, chanVars
  <2> QED
    BY <2>1, <2>2, <2>3, <2>4, Zenon DEF Inv
<1> QED
  BY <1>1, <1>2 DEF WorkerWakes

LEMMA WorkerCommandStep == ASSUME Inv, NEW c \in Conn, WorkerCommand(c) PROVE Inv'
<1>1. MainType' /\ TaskType'
  BY MainSame, TaskSame DEF Inv, WorkerCommand
<1>2. ChanType'
  BY DEF Inv, ChanType, WorkerCommand
<1>3. WorkType'
  <2>1. bridge' \subseteq Conn
    BY DEF Inv, WorkType, WorkerCommand
  <2>2. round' \in 0 .. Budget
    BY GraceAssumption DEF Inv, WorkType, WorkerCommand
  <2> QED
    BY <2>1, <2>2 DEF Inv, WorkType, WorkerCommand
<1>4. Awake'
  BY AwakeElse DEF WorkerCommand
<1>5. Flags'
  BY Zenon DEF Inv, Flags, WorkerCommand
<1> QED
  BY <1>1, <1>2, <1>3, <1>4, <1>5, Zenon DEF Inv

LEMMA WorkerShutdownStep == ASSUME Inv, WorkerShutdown PROVE Inv'
<1>1. triggered' \in BOOLEAN
  BY Zenon DEF Inv, Flags, WorkerShutdown
<1>2. cause' \in {"none", "start", "bind", "accept", "signal", "worker"}
  BY DEF Inv, MainType, WorkerShutdown
<1> QED
  BY <1>1, <1>2, ReturnsStep DEF WorkerShutdown

LEMMA WorkerTicksStep == ASSUME Inv, WorkerTicks PROVE Inv'
<1>1. MainType' /\ TaskType' /\ ChanType'
  BY MainSame, TaskSame, ChanSame DEF Inv, WorkerTicks, chanVars
<1>2. rest' \in {SlowTime, TickTime}
  BY Zenon DEF WorkerTicks
<1>3. WorkType'
  BY <1>2, GraceAssumption DEF Inv, WorkType, WorkerTicks
<1>4. Awake'
  BY AwakeElse DEF WorkerTicks
<1>5. Flags'
  BY Zenon DEF Inv, Flags, WorkerTicks, chanVars
<1> QED
  BY <1>1, <1>3, <1>4, <1>5, Zenon DEF Inv

LEMMA WorkerTickedStep == ASSUME Inv, WorkerTicked PROVE Inv'
<1>0. triggered' \in BOOLEAN
  BY Zenon DEF Inv, Flags, WorkerTicked
<1>1. CASE WorkerReturns("failed") /\ UNCHANGED cause
  <2>1. cause' \in {"none", "start", "bind", "accept", "signal", "worker"}
    BY <1>1 DEF Inv, MainType
  <2> QED
    BY <1>0, <1>1, <2>1, ReturnsStep
<1>2. CASE /\ worker' = "check" /\ rest' = 0 /\ round' = 0
           /\ bridge' = {c \in bridge : task[c] \in {"open", "writing"}}
           /\ UNCHANGED <<mainVars, task, left, chanVars, waking, slow>>
  <2>1. MainType' /\ TaskType' /\ ChanType'
    BY <1>2, MainSame, TaskSame, ChanSame DEF Inv, chanVars
  <2>2. WorkType'
    BY <1>2, GraceAssumption DEF Inv, WorkType
  <2>3. Awake'
    BY <1>2, AwakeElse
  <2>4. Flags'
    BY <1>0, <1>2, Zenon DEF Inv, Flags, chanVars
  <2> QED
    BY <2>1, <2>2, <2>3, <2>4, Zenon DEF Inv
<1> QED
  BY <1>1, <1>2 DEF WorkerTicked

LEMMA WorkerSteps == ASSUME Inv, WorkerStep PROVE Inv'
BY WorkerStartsStep, WorkerChecksStep, WorkerWakesStep, WorkerShutdownStep, WorkerTicksStep,
   WorkerTickedStep, WorkerCommandStep, Zenon DEF WorkerStep

-----------------------------------------------------------------------------
(* main closes the channel and then wakes the worker. *)
LEMMA CloseStep ==
    ASSUME Inv, ChannelCloses, waking' = Wakes("main"), MainType',
           UNCHANGED <<task, left, triggered, workVars>>
    PROVE  Inv'
<1>1. TaskType' /\ WorkType'
  BY TaskSame, WorkSame DEF Inv, workVars
<1>2. ChanType'
  BY DEF Inv, ChanType, ChannelCloses, Wakes
<1>3. Awake'
  BY AwakeElse DEF Wakes
<1>4. Flags'
  BY Zenon DEF Inv, Flags, ChannelCloses, workVars
<1> QED
  BY <1>1, <1>2, <1>3, <1>4, Zenon DEF Inv

LEMMA StopStep == ASSUME Inv, NEW why \in {"signal", "worker"}, Stop(why) PROVE Inv'
<1>1. MainType'
  BY GraceAssumption DEF Inv, MainType, Stop
<1> QED
  BY <1>1, CloseStep DEF Stop

LEMMA BindFailsStep == ASSUME Inv, BindFails PROVE Inv'
<1>1. MainType'
  BY DEF Inv, MainType, BindFails
<1> QED
  BY <1>1, CloseStep DEF BindFails

(* The other steps of main leave the channel and the worker alone. *)
LEMMA MainStep ==
    ASSUME Inv, MainType', TaskType', UNCHANGED <<chanVars, waking, triggered, workVars>>
    PROVE  Inv'
<1>1. ChanType' /\ WorkType' /\ Awake'
  BY ChanSame, WorkSame, AwakeSame DEF Inv, chanVars, workVars
<1>2. Flags'
  BY Zenon DEF Inv, Flags, chanVars, workVars
<1> QED
  BY <1>1, <1>2, Zenon DEF Inv

LEMMA MainSteps == ASSUME Inv, Listen \/ StartFails \/ NapEnds \/ Joined \/ Exit PROVE Inv'
<1>1. MainType'
  BY GraceAssumption DEF Inv, MainType, Listen, StartFails, NapEnds, Joined, Exit
<1>2. TaskType'
  BY TaskSame DEF Inv, Listen, StartFails, NapEnds, Joined, Exit
<1> QED
  BY <1>1, <1>2, MainStep DEF Listen, StartFails, NapEnds, Joined, Exit

LEMMA AbortStep == ASSUME Inv, Abort PROVE Inv'
<1>1. MainType'
  BY DEF Inv, MainType, Abort
<1>2. TaskType'
  BY DEF Inv, TaskType, Abort, Aborted, Live
<1> QED
  BY <1>1, <1>2, MainStep DEF Abort

LEMMA AcceptStep == ASSUME Inv, NEW c \in Conn, Accept(c) PROVE Inv'
<1>1. MainType'
  BY GraceAssumption DEF Inv, MainType, Accept
<1>2. TaskType'
  BY BecomeType DEF Inv, Accept, Live
<1> QED
  BY <1>1, <1>2, MainStep DEF Accept

LEMMA JoinNextStep == ASSUME Inv, NEW c \in Conn, JoinNext(c) PROVE Inv'
<1>1. MainType'
  BY GraceAssumption DEF Inv, MainType, JoinNext
<1>2. TaskType'
  BY DEF Inv, TaskType, JoinNext
<1> QED
  BY <1>1, <1>2, MainStep DEF JoinNext

LEMMA AcceptFailsStep == ASSUME Inv, AcceptFails PROVE Inv'
<1>1. MainType' /\ TaskType'
  BY DEF Inv, MainType, TaskType, AcceptFails
<1>2. ChanType'
  BY DEF Inv, ChanType, AcceptFails, chanVars
<1>3. WorkType'
  BY DEF Inv, WorkType, AcceptFails
<1>4. Awake'
  BY AwakeElse DEF AcceptFails
<1>5. Flags'
  BY Zenon DEF Inv, Flags, AcceptFails, chanVars
<1> QED
  BY <1>1, <1>2, <1>3, <1>4, <1>5, Zenon DEF Inv

(* Time passes only where something is left of it. *)
LEMMA TickStep == ASSUME Inv, Tick PROVE Inv'
<1>1. MainType'
  BY GraceAssumption DEF Inv, MainType, Tick
<1>2. TaskType'
  <2>1. \A c \in Conn : Timed(c) => left[c] - 1 \in Nat
    BY DEF Inv, TaskType, Tick, MustMove
  <2> QED
    BY <2>1 DEF Inv, TaskType, Tick
<1>3. ChanType'
  BY ChanSame DEF Inv, Tick, chanVars
<1>4. WorkType'
  BY DEF Inv, WorkType, Tick
<1>5. Flags'
  BY Zenon DEF Inv, Flags, Tick, chanVars
<1>6. Awake'
  <2>1. UNCHANGED <<worker, triggered, waking, ready, closed>>
    BY DEF Tick, chanVars
  <2>2. worker = "wait" /\ rest' > 0 => rest > 0
    BY DEF Inv, WorkType, Tick
  <2> QED
    BY <2>1, <2>2, Zenon DEF Inv, Awake
<1> QED
  BY <1>1, <1>2, <1>3, <1>4, <1>5, <1>6, Zenon DEF Inv

LEMMA StutterStep == ASSUME Inv, UNCHANGED vars PROVE Inv'
<1>1. MainType' /\ TaskType'
  BY MainSame, TaskSame DEF Inv, vars
<1> QED
  BY <1>1, MainStep DEF vars

LEMMA NextInv == Inv /\ [Next]_vars => Inv'
<1> SUFFICES ASSUME Inv, [Next]_vars PROVE Inv'
  OBVIOUS
<1>1. CASE \E x \in Conn \cup {"main"} : Trigger(x)
  BY <1>1, TriggerStep
<1>2. CASE \E c \in Conn : TaskStep(c) \/ Message(c) \/ Accept(c) \/ JoinNext(c)
  BY <1>2, RegisterStep, SessionSteps, MessageStep, AcceptStep, JoinNextStep, Zenon DEF TaskStep
<1>3. CASE WorkerStep
  BY <1>3, WorkerSteps
<1>4. CASE Listen \/ StartFails \/ BindFails \/ AcceptFails
  BY <1>4, MainSteps, BindFailsStep, AcceptFailsStep, Zenon
<1>5. CASE Stop("signal") \/ Shutdown
  BY <1>5, StopStep, MainSteps, AbortStep DEF Shutdown
<1>6. CASE Tick
  BY <1>6, TickStep
<1>7. CASE UNCHANGED vars
  BY <1>7, StutterStep
<1> QED
  BY <1>1, <1>2, <1>3, <1>4, <1>5, <1>6, <1>7, Zenon DEF Next

(* The worker never sleeps on a command, for every number of connections,  *)
(* every waiting time and every budget of a round.                         *)
THEOREM WorkerWoken == Spec => []NoLostWake
<1> QED
  BY InvIsNoLostWake, InitInv, NextInv, PTL DEF Spec

-----------------------------------------------------------------------------
(* The grace period.  Need[c] bounds the time until c's task has ended by  *)
(* itself, once the channel is closed: what is left of its handshake or    *)
(* its batch and of its closing handshake; while the bridge still holds    *)
(* its Output it may start one more batch, until the worker ends.          *)
LastTick == worker = "commands" /\ round = Budget

Work == IF worker = "tick" THEN rest ELSE IF LastTick THEN TickTime ELSE 0

Need == [c \in Conn |->
    IF task[c] = "handshake" THEN left[c] + CloseTime
    ELSE IF task[c] \in {"open", "writing"} /\ c \in bridge THEN Work + WriteTime + CloseTime
    ELSE IF task[c] = "open" THEN CloseTime
    ELSE IF task[c] = "writing" THEN left[c] + CloseTime
    ELSE IF task[c] = "closing" THEN left[c] ELSE 0]

(* No deadline is further away than its length. *)
Deadlines ==
    /\ \A c \in Conn : /\ task[c] = "handshake" => left[c] <= HandshakeTime
                       /\ task[c] = "writing" => left[c] <= WriteTime
                       /\ task[c] = "closing" => left[c] <= CloseTime
    /\ worker = "tick" /\ ~slow => rest <= TickTime

(* Who is not registered has no Output; a closed channel holds none; the   *)
(* bridge of a worker that is gone holds none.                             *)
Outputs ==
    /\ \A c \in Conn : task[c] = "handshake" => ~OutputAlive(c)
    /\ closed => \A c \in Conn : entry[c] = "none"
    /\ WorkerGone => bridge = {}

(* How far the process is. *)
Stages ==
    /\ main \in {"stop", "abort"} => closed
    /\ main \in {"accept", "stop", "abort"} => worker # "start"
    /\ worker = "killed" => main = "exited"

(* The worker's last tick is not, or need not become, a slow one. *)
Prompt == ~slow \/ LastTick

(* The connections end before the grace period does. *)
InTime ==
    /\ main = "stop" /\ Prompt => grace > 0 /\ \A c \in Conn : Need[c] < grace
    /\ main = "abort" => ~Prompt

GraceInv == Deadlines /\ Outputs /\ Stages /\ InTime

LEMMA TimesNat ==
    /\ HandshakeTime \in Nat /\ WriteTime \in Nat /\ CloseTime \in Nat
    /\ TickTime \in Nat /\ SlowTime \in Nat /\ GraceTime \in Nat /\ Budget \in Nat
    /\ Budget # 0 /\ Budget # 1
BY GraceAssumption

LEMMA WorkNat == ASSUME Inv PROVE Work \in Nat
BY TimesNat DEF Inv, WorkType, Work

LEMMA NeedNat == ASSUME Inv PROVE \A c \in Conn : Need[c] \in Nat
<1> SUFFICES ASSUME NEW c \in Conn PROVE Need[c] \in Nat
  OBVIOUS
<1>1. left[c] \in Nat
  BY DEF Inv, TaskType
<1> QED
  BY <1>1, WorkNat, TimesNat DEF Need

LEMMA NeedNatNext == ASSUME Inv' PROVE \A c \in Conn : Need'[c] \in Nat
<1> SUFFICES ASSUME NEW c \in Conn PROVE Need'[c] \in Nat
  OBVIOUS
<1>1. left'[c] \in Nat
  BY DEF Inv, TaskType
<1>2. Work' \in Nat
  BY TimesNat DEF Inv, WorkType, Work
<1>3. Need'[c] \in {left'[c] + CloseTime, Work' + WriteTime + CloseTime, CloseTime, left'[c], 0}
  BY DEF Need
<1> QED
  BY <1>1, <1>2, <1>3, TimesNat

LEMMA InitGrace == Init => GraceInv
<1> SUFFICES ASSUME Init PROVE GraceInv
  OBVIOUS
<1>1. Deadlines /\ InTime
  BY DEF Init, Deadlines, InTime
<1>2. Outputs
  BY DEF Init, Outputs, OutputAlive, WorkerGone
<1>3. Stages
  BY DEF Init, Stages
<1> QED
  BY <1>1, <1>2, <1>3 DEF GraceInv

-----------------------------------------------------------------------------
(* Each part under the changes of its variables. *)

TaskDeadlines == \A c \in Conn : /\ task[c] = "handshake" => left[c] <= HandshakeTime
                                 /\ task[c] = "writing" => left[c] <= WriteTime
                                 /\ task[c] = "closing" => left[c] <= CloseTime
TickDeadline == worker = "tick" /\ ~slow => rest <= TickTime

LEMMA DeadlineParts == Deadlines <=> TaskDeadlines /\ TickDeadline
BY Zenon DEF Deadlines, TaskDeadlines, TickDeadline

LEMMA TaskDeadlinesSame ==
    ASSUME TaskDeadlines, UNCHANGED <<task, left>> PROVE TaskDeadlines'
BY DEF TaskDeadlines

LEMMA TickDeadlineSame ==
    ASSUME TickDeadline, UNCHANGED <<worker, rest>>, slow' <=> slow PROVE TickDeadline'
BY DEF TickDeadline

LEMMA BecomeDeadlines ==
    ASSUME TaskType, TaskDeadlines, NEW c \in Conn, NEW st \in Live \cup {"ended"}, Become(c, st)
    PROVE  TaskDeadlines'
<1>1. /\ st = "handshake" => Deadline(st) = HandshakeTime
      /\ st = "writing" => Deadline(st) = WriteTime
      /\ st = "closing" => Deadline(st) = CloseTime
  BY DEF Deadline
<1>2. /\ task'[c] = st /\ left'[c] = Deadline(st)
      /\ \A d \in Conn : d # c => task'[d] = task[d] /\ left'[d] = left[d]
  BY DEF Become, TaskType
<1>3. ASSUME NEW d \in Conn
      PROVE  /\ task'[d] = "handshake" => left'[d] <= HandshakeTime
             /\ task'[d] = "writing" => left'[d] <= WriteTime
             /\ task'[d] = "closing" => left'[d] <= CloseTime
  <2>1. CASE d = c
    BY <1>1, <1>2, <2>1, TimesNat
  <2>2. CASE d # c
    BY <1>2, <2>2 DEF TaskDeadlines
  <2> QED
    BY <2>1, <2>2
<1> QED
  BY <1>3 DEF TaskDeadlines

(* Nobody is given an Output, and nobody loses what keeps it from one. *)
LEMMA OutputsShrink ==
    ASSUME Outputs, UNCHANGED task, bridge' \subseteq bridge,
           \A c \in Conn : entry'[c] = "connect" => entry[c] = "connect",
           closed' => \A c \in Conn : entry'[c] = "none",
           WorkerGone' => bridge' = {}
    PROVE  Outputs'
BY DEF Outputs, OutputAlive

(* The connections need no more time than before. *)
LEMMA InTimeShrinks ==
    ASSUME Inv, Inv', InTime, UNCHANGED <<main, grace>>, Prompt' => Prompt,
           main = "stop" => \A c \in Conn : Need'[c] <= Need[c]
    PROVE  InTime'
<1>1. \A c \in Conn : Need[c] \in Nat /\ Need'[c] \in Nat
  BY NeedNat, NeedNatNext
<1>2. grace \in Nat
  BY DEF Inv, MainType
<1> QED
  BY <1>1, <1>2 DEF InTime

(* main is not waiting for the connections. *)
LEMMA InTimeElse ==
    ASSUME main' \notin {"stop", "abort"} PROVE InTime'
BY DEF InTime

(* One task moves; the worker and the bridge do not. *)
LEMMA NeedOthers ==
    ASSUME Inv, NEW c \in Conn, NEW st \in Live \cup {"ended"}, Become(c, st),
           UNCHANGED <<worker, rest, round, bridge>>
    PROVE  /\ Work' = Work
           /\ \A d \in Conn : d # c => Need'[d] = Need[d]
<1>1. Work' = Work
  BY DEF Work, LastTick
<1>2. \A d \in Conn : d # c => task'[d] = task[d] /\ left'[d] = left[d]
  BY DEF Become, Inv, TaskType
<1> QED
  BY <1>1, <1>2 DEF Need

-----------------------------------------------------------------------------
(* A task's step.  It needs no more time than before if, with the channel  *)
(* closed, each step of the session leads closer to its end.               *)
LEMMA TaskGrace ==
    ASSUME Inv, Inv', GraceInv, NEW c \in Conn, NEW st \in Live \cup {"ended"}, Become(c, st),
           UNCHANGED <<mainVars, worker, rest, round, bridge>>, slow' <=> slow, closed' <=> closed,
           Outputs', main = "stop" => Need'[c] <= Need[c]
    PROVE  GraceInv'
<1>1. Deadlines'
  BY BecomeDeadlines, TickDeadlineSame, DeadlineParts DEF Inv, GraceInv, Deadlines, TaskDeadlines, TickDeadline
<1>2. Stages'
  BY DEF GraceInv, Stages, mainVars
<1>3. \A d \in Conn : d # c => Need'[d] = Need[d] /\ Need[d] \in Nat
  BY NeedOthers, NeedNat
<1>4. Prompt' => Prompt
  BY Zenon DEF Prompt, LastTick
<1>5. main = "stop" => \A d \in Conn : Need'[d] <= Need[d]
  BY <1>3
<1>6. InTime'
  BY <1>4, <1>5, InTimeShrinks DEF GraceInv, mainVars
<1> QED
  BY <1>1, <1>2, <1>6 DEF GraceInv

(* What a task needs in each state, with the channel closed. *)
LEMMA NeedValues ==
    ASSUME NEW c \in Conn
    PROVE  /\ task[c] = "handshake" => Need[c] = left[c] + CloseTime
           /\ task[c] \in {"open", "writing"} /\ c \in bridge => Need[c] = Work + WriteTime + CloseTime
           /\ task[c] = "open" /\ c \notin bridge => Need[c] = CloseTime
           /\ task[c] = "writing" /\ c \notin bridge => Need[c] = left[c] + CloseTime
           /\ task[c] = "closing" => Need[c] = left[c]
           /\ task[c] \in {"leave", "drop", "none", "ended"} => Need[c] = 0
BY DEF Need

LEMMA NeedValuesNext ==
    ASSUME NEW c \in Conn
    PROVE  /\ task'[c] = "handshake" => Need'[c] = left'[c] + CloseTime
           /\ task'[c] \in {"open", "writing"} /\ c \in bridge' => Need'[c] = Work' + WriteTime + CloseTime
           /\ task'[c] = "open" /\ c \notin bridge' => Need'[c] = CloseTime
           /\ task'[c] = "writing" /\ c \notin bridge' => Need'[c] = left'[c] + CloseTime
           /\ task'[c] = "closing" => Need'[c] = left'[c]
           /\ task'[c] \in {"leave", "drop", "none", "ended"} => Need'[c] = 0
BY DEF Need

(* Which steps of a task bring it closer to its end once its Output, if it *)
(* has one, is held by the bridge alone.                                   *)
Closer(c, from, st) ==
    \/ from = "handshake" /\ st = "open" /\ c \notin bridge
    \/ from = "open" /\ st = "writing" /\ c \in bridge
    \/ <<from, st>> \in {<<"handshake", "ended">>, <<"writing", "open">>, <<"open", "closing">>,
                         <<"writing", "closing">>, <<"open", "leave">>, <<"closing", "leave">>,
                         <<"leave", "drop">>, <<"drop", "ended">>}

LEMMA CloserNeeds ==
    ASSUME Inv, NEW c \in Conn, NEW from, NEW st, task[c] = from, Become(c, st),
           Closer(c, from, st), UNCHANGED <<worker, rest, round, bridge>>
    PROVE  Need'[c] <= Need[c]
<1>1. /\ left[c] \in Nat /\ Work \in Nat
      /\ HandshakeTime \in Nat /\ WriteTime \in Nat /\ CloseTime \in Nat
  BY TimesNat, WorkNat DEF Inv, TaskType
<1>2. task'[c] = st /\ left'[c] = Deadline(st) /\ Work' = Work /\ bridge' = bridge
  BY DEF Become, Inv, TaskType, Work, LastTick
<1>3. CASE st \in {"ended", "leave", "drop"}
  <2>1. Need'[c] = 0
    BY <1>2, <1>3, NeedValuesNext
  <2>2. Need[c] \in Nat
    BY NeedNat
  <2> QED
    BY <2>1, <2>2
<1>4. CASE st = "closing"
  <2>1. Need'[c] = CloseTime
    BY <1>2, <1>4, NeedValuesNext DEF Deadline
  <2>2. from \in {"open", "writing"}
    BY <1>4 DEF Closer
  <2>3. Need[c] \in {Work + WriteTime + CloseTime, CloseTime, left[c] + CloseTime}
    BY <2>2, NeedValues
  <2> QED
    BY <1>1, <2>1, <2>3
<1>5. CASE st = "writing"
  <2>1. from = "open" /\ c \in bridge
    BY <1>5 DEF Closer
  <2>2. Need'[c] = Need[c]
    BY <1>2, <1>5, <2>1, NeedValues, NeedValuesNext
  <2> QED
    BY <1>1, <2>2, NeedNat
<1>6. CASE st = "open"
  <2>1. CASE c \in bridge
    <3>1. from = "writing"
      BY <1>6, <2>1 DEF Closer
    <3>2. Need'[c] = Need[c]
      BY <1>2, <1>6, <2>1, <3>1, NeedValues, NeedValuesNext
    <3> QED
      BY <1>1, <3>2, NeedNat
  <2>2. CASE c \notin bridge
    <3>1. Need'[c] = CloseTime
      BY <1>2, <1>6, <2>2, NeedValuesNext
    <3>2. from \in {"handshake", "writing"}
      BY <1>6 DEF Closer
    <3>3. Need[c] = left[c] + CloseTime
      BY <2>2, <3>2, NeedValues
    <3> QED
      BY <1>1, <3>1, <3>3
  <2> QED
    BY <2>1, <2>2
<1> QED
  BY <1>3, <1>4, <1>5, <1>6 DEF Closer

(* A task that moves on has been registered, or never will be. *)
LEMMA OutputsTask ==
    ASSUME Inv, Outputs, NEW c \in Conn, NEW st \in Live \cup {"ended"}, Become(c, st),
           st # "handshake", UNCHANGED bridge, WorkerGone' <=> WorkerGone, closed' <=> closed,
           \A d \in Conn : d # c => entry'[d] = entry[d],
           closed => entry'[c] = entry[c]
    PROVE  Outputs'
<1>1. \A d \in Conn : d # c => task'[d] = task[d]
  BY DEF Become, Inv, TaskType
<1>2. task'[c] = st /\ st # "handshake"
  BY DEF Become, Inv, TaskType, Live
<1>3. \A d \in Conn : task'[d] = "handshake" => ~(d \in bridge' \/ entry'[d] = "connect")
  BY <1>1, <1>2 DEF Outputs, OutputAlive
<1>4. closed' => \A d \in Conn : entry'[d] = "none"
  BY DEF Outputs
<1>5. WorkerGone' => bridge' = {}
  BY DEF Outputs
<1> QED
  BY <1>3, <1>4, <1>5, Zenon DEF Outputs, OutputAlive

LEMMA MovesGrace ==
    ASSUME Inv, Inv', GraceInv, NEW c \in Conn, NEW from, NEW st \in Live \cup {"ended"},
           Moves(c, from, st), st # "handshake",
           main = "stop" => Closer(c, from, st)
    PROVE  GraceInv'
<1>1. /\ Become(c, st) /\ task[c] = from
      /\ UNCHANGED <<mainVars, entry, worker, rest, round, bridge>>
  BY DEF Moves, chanVars, workVars
<1>2. (slow' <=> slow) /\ (closed' <=> closed) /\ (WorkerGone' <=> WorkerGone)
  BY Zenon DEF Moves, chanVars, workVars, WorkerGone
<1>3. Outputs'
  BY <1>1, <1>2, OutputsTask DEF GraceInv
<1>4. main = "stop" => Need'[c] <= Need[c]
  BY <1>1, CloserNeeds
<1> QED
  BY <1>1, <1>2, <1>3, <1>4, TaskGrace

LEMMA DisconnectGrace ==
    ASSUME Inv, Inv', GraceInv, NEW c \in Conn, NEW from, NEW st \in Live \cup {"ended"},
           Disconnect(c, from, st), <<from, st>> \in {<<"leave", "drop">>, <<"drop", "ended">>}
    PROVE  GraceInv'
<1>1. /\ Become(c, st) /\ task[c] = from /\ st # "handshake"
      /\ UNCHANGED <<mainVars, worker, rest, round, bridge>>
  BY DEF Disconnect, workVars
<1>2. (slow' <=> slow) /\ (closed' <=> closed) /\ (WorkerGone' <=> WorkerGone)
  BY Zenon DEF Disconnect, workVars, WorkerGone
<1>3. /\ \A d \in Conn : d # c => entry'[d] = entry[d]
      /\ entry[c] = "none" => entry'[c] = entry[c]
  BY DEF Disconnect, Inv, ChanType
<1>4. closed => entry'[c] = entry[c]
  BY <1>3 DEF GraceInv, Outputs
<1>5. Outputs'
  BY <1>1, <1>2, <1>3, <1>4, OutputsTask DEF GraceInv
<1>6. Need'[c] <= Need[c]
  BY <1>1, CloserNeeds DEF Closer
<1> QED
  BY <1>1, <1>2, <1>5, <1>6, TaskGrace

LEMMA RegisterGrace ==
    ASSUME Inv, Inv', GraceInv, NEW c \in Conn, Register(c)
    PROVE  GraceInv'
<1>1. /\ Become(c, "open") /\ task[c] = "handshake" /\ "open" \in Live \cup {"ended"}
      /\ UNCHANGED <<mainVars, worker, rest, round, bridge>>
  BY DEF Register, workVars, Live
<1>2. (slow' <=> slow) /\ (closed' <=> closed) /\ (WorkerGone' <=> WorkerGone)
  BY Zenon DEF Register, workVars, WorkerGone
<1>3. \A d \in Conn : d # c => entry'[d] = entry[d]
  BY DEF Register, Inv, ChanType
<1>4. closed => entry'[c] = entry[c]
  BY DEF Register
<1>5. Outputs'
  BY <1>1, <1>2, <1>3, <1>4, OutputsTask DEF GraceInv
<1>6. c \notin bridge
  BY <1>1 DEF GraceInv, Outputs, OutputAlive
<1>7. Need'[c] <= Need[c]
  BY <1>1, <1>6, CloserNeeds DEF Closer
<1> QED
  BY <1>1, <1>2, <1>5, <1>7, TaskGrace

(* A batch is only started with an Output, which the closed channel has    *)
(* not: the bridge has it.                                                 *)
LEMMA SessionGrace ==
    ASSUME Inv, Inv', GraceInv, NEW c \in Conn, SessionStep(c)
    PROVE  GraceInv'
<1>1. {"open", "writing", "closing", "leave", "drop", "ended"} \subseteq Live \cup {"ended"}
  BY DEF Live
<1>2. CASE OutputAlive(c) /\ Moves(c, "open", "writing")
  <2>1. main = "stop" => c \in bridge
    BY <1>2 DEF GraceInv, Stages, Outputs, OutputAlive
  <2> QED
    BY <1>1, <1>2, <2>1, MovesGrace DEF Closer
<1>3. CASE Moves(c, "handshake", "ended")
  BY <1>1, <1>3, MovesGrace DEF Closer
<1>4. CASE Moves(c, "writing", "open")
  BY <1>1, <1>4, MovesGrace DEF Closer
<1>5. CASE Moves(c, "open", "closing") \/ Moves(c, "writing", "closing")
  BY <1>1, <1>5, MovesGrace DEF Closer
<1>6. CASE Moves(c, "open", "leave") \/ Moves(c, "closing", "leave")
  BY <1>1, <1>6, MovesGrace DEF Closer
<1>7. CASE Disconnect(c, "leave", "drop") \/ Disconnect(c, "drop", "ended")
  BY <1>1, <1>7, DisconnectGrace
<1> QED
  BY <1>2, <1>3, <1>4, <1>5, <1>6, <1>7 DEF SessionStep

-----------------------------------------------------------------------------
(* A step of nobody's task: the worker goes on, or nothing that matters    *)
(* here changes.                                                           *)
LEMMA WorkerGrace ==
    ASSUME Inv, Inv', GraceInv, UNCHANGED <<main, grace, task, left>>,
           Outputs', Stages', TickDeadline', Prompt' => Prompt,
           main = "stop" => \A c \in Conn : Need'[c] <= Need[c]
    PROVE  GraceInv'
<1>1. Deadlines'
  <2>1. TaskDeadlines
    BY DEF GraceInv, Deadlines, TaskDeadlines
  <2>2. TaskDeadlines'
    BY <2>1, TaskDeadlinesSame
  <2> QED
    BY <2>2, Zenon DEF Deadlines, TaskDeadlines, TickDeadline
<1>2. InTime'
  BY InTimeShrinks DEF GraceInv
<1> QED
  BY <1>1, <1>2 DEF GraceInv

LEMMA NeedSame ==
    ASSUME Inv, UNCHANGED <<task, left, worker, rest, round, bridge>>
    PROVE  \A c \in Conn : Need'[c] = Need[c] /\ Need'[c] <= Need[c]
<1>1. Need' = Need
  BY DEF Need, Work, LastTick
<1> QED
  BY <1>1, NeedNat

LEMMA QuietGrace ==
    ASSUME Inv, Inv', GraceInv, UNCHANGED <<main, grace, task, left, entry, worker, rest, round, bridge>>,
           slow' <=> slow, closed' <=> closed
    PROVE  GraceInv'
<1>1. Outputs'
  BY DEF GraceInv, Outputs, OutputAlive, WorkerGone
<1>2. Stages'
  BY DEF GraceInv, Stages
<1>3. TickDeadline'
  BY TickDeadlineSame DEF GraceInv, Deadlines, TickDeadline
<1>4. Prompt' => Prompt
  BY Zenon DEF Prompt, LastTick
<1>5. \A c \in Conn : Need'[c] <= Need[c]
  BY NeedSame
<1> QED
  BY <1>1, <1>2, <1>3, <1>4, <1>5, WorkerGrace

(* The end of the worker takes the Outputs from the bridge: a session that *)
(* is writing ends with this batch, one that is not starts none.           *)
LEMMA ReturnsNeed ==
    ASSUME Inv, GraceInv, NEW how \in {"ended", "failed"}, WorkerReturns(how)
    PROVE  \A c \in Conn : Need'[c] <= Need[c]
<1>1. UNCHANGED <<task, left>> /\ bridge' = {}
  BY DEF WorkerReturns
<1>2. SUFFICES ASSUME NEW c \in Conn PROVE Need'[c] <= Need[c]
  OBVIOUS
<1>3. /\ left[c] \in Nat /\ Work \in Nat /\ Need[c] \in Nat
      /\ WriteTime \in Nat /\ CloseTime \in Nat
  BY TimesNat, WorkNat, NeedNat DEF Inv, TaskType
<1>4. task[c] = "writing" => left[c] <= WriteTime
  BY DEF GraceInv, Deadlines
<1>5. CASE task[c] = "open" /\ c \in bridge
  <2>1. Need[c] = Work + WriteTime + CloseTime /\ Need'[c] = CloseTime
    BY <1>1, <1>5, NeedValues, NeedValuesNext
  <2> QED
    BY <1>3, <2>1
<1>6. CASE task[c] = "writing" /\ c \in bridge
  <2>1. Need[c] = Work + WriteTime + CloseTime /\ Need'[c] = left[c] + CloseTime
    BY <1>1, <1>6, NeedValues, NeedValuesNext
  <2> QED
    BY <1>3, <1>4, <1>6, <2>1
<1>7. CASE ~(task[c] \in {"open", "writing"} /\ c \in bridge)
  <2>1. Need'[c] = Need[c]
    BY <1>1, <1>7 DEF Need
  <2> QED
    BY <1>3, <2>1
<1> QED
  BY <1>5, <1>6, <1>7

LEMMA ReturnsGrace ==
    ASSUME Inv, Inv', GraceInv, NEW how \in {"ended", "failed"}, WorkerReturns(how), worker # "killed"
    PROVE  GraceInv'
<1>1. /\ UNCHANGED <<main, grace, task, left>> /\ bridge' = {} /\ worker' = how
      /\ entry' = [c \in Conn |-> "none"]
  BY DEF WorkerReturns, ChannelCloses
<1>2. closed' /\ (slow' <=> slow)
  BY Zenon DEF WorkerReturns, ChannelCloses
<1>3. Outputs'
  BY <1>1 DEF Outputs, OutputAlive
<1>4. Stages'
  BY <1>1, <1>2 DEF Stages
<1>5. TickDeadline'
  BY <1>1 DEF TickDeadline
<1>6. Prompt' => Prompt
  BY <1>1, <1>2 DEF Prompt, LastTick
<1>7. \A c \in Conn : Need'[c] <= Need[c]
  BY ReturnsNeed
<1> QED
  BY <1>1, <1>3, <1>4, <1>5, <1>6, <1>7, WorkerGrace

LEMMA WorkerStartsGrace == ASSUME Inv, Inv', GraceInv, WorkerStarts PROVE GraceInv'
<1>1. CASE WorkerReturns("failed")
  BY <1>1, ReturnsGrace DEF WorkerStarts
<1>2. CASE worker' = "check" /\ UNCHANGED <<chanVars, waking, task, left, mainVars, rest, round, slow, bridge>>
  <2>1. /\ worker = "start" /\ worker' = "check"
        /\ UNCHANGED <<main, grace, task, left, entry, rest, round, bridge>>
    BY <1>2 DEF WorkerStarts, chanVars, mainVars
  <2>2. (slow' <=> slow) /\ (closed' <=> closed)
    BY <1>2, Zenon DEF chanVars
  <2>3. Outputs'
    BY <2>1, <2>2 DEF GraceInv, Outputs, OutputAlive, WorkerGone
  <2>4. Stages'
    BY <2>1, <2>2 DEF GraceInv, Stages
  <2>5. TickDeadline' /\ (Prompt' => Prompt)
    BY <2>1, <2>2 DEF TickDeadline, Prompt, LastTick
  <2>6. main # "stop"
    BY <2>1 DEF GraceInv, Stages
  <2> QED
    BY <2>1, <2>3, <2>4, <2>5, <2>6, WorkerGrace
<1> QED
  BY <1>1, <1>2 DEF WorkerStarts

(* The other steps of the worker's loop: it needs no more time than it did *)
(* and keeps no Output that it did not have.                               *)
LEMMA LoopGrace ==
    ASSUME Inv, Inv', GraceInv, UNCHANGED <<main, grace, task, left, entry>>, closed' <=> closed,
           bridge' = bridge \/ bridge' = {c \in bridge : task[c] \in {"open", "writing"}},
           worker \in {"check", "wait", "commands", "tick"},
           worker' \in {"check", "wait", "commands", "tick"},
           TickDeadline', Prompt' => Prompt, main = "stop" => Work' <= Work
    PROVE  GraceInv'
<1>1. Outputs'
  BY DEF GraceInv, Outputs, OutputAlive, WorkerGone
<1>2. Stages'
  BY DEF GraceInv, Stages
<1>3. ASSUME NEW c \in Conn, main = "stop" PROVE Need'[c] <= Need[c]
  <2>1. Need[c] \in Nat /\ Work \in Nat /\ Work' \in Nat /\ WriteTime \in Nat /\ CloseTime \in Nat
    BY TimesNat, WorkNat, NeedNat DEF Inv, WorkType, Work
  <2>2. CASE task[c] \in {"open", "writing"} /\ c \in bridge
    <3>1. task'[c] \in {"open", "writing"} /\ c \in bridge'
      BY <2>2
    <3>2. Need[c] = Work + WriteTime + CloseTime /\ Need'[c] = Work' + WriteTime + CloseTime
      BY <2>2, <3>1, NeedValues, NeedValuesNext
    <3>3. PICK w \in Nat, v \in Nat : w = Work /\ v = Work'
      BY <2>1
    <3>4. v <= w
      BY <1>3, <3>3, Zenon
    <3>5. v + WriteTime + CloseTime <= w + WriteTime + CloseTime
      BY <2>1, <3>4
    <3> QED
      BY <3>2, <3>3, <3>5, Zenon
  <2>3. CASE ~(task[c] \in {"open", "writing"} /\ c \in bridge)
    <3>1. ~(task'[c] \in {"open", "writing"} /\ c \in bridge')
      BY <2>3
    <3>2. Need'[c] = Need[c]
      BY <2>3, <3>1 DEF Need
    <3> QED
      BY <2>1, <3>2
  <2> QED
    BY <2>2, <2>3
<1> QED
  BY <1>1, <1>2, <1>3, WorkerGrace

LEMMA WorkerChecksGrace == ASSUME Inv, Inv', GraceInv, WorkerChecks PROVE GraceInv'
<1>1. /\ worker = "check" /\ worker' = "wait"
      /\ UNCHANGED <<main, grace, task, left, entry, bridge>>
  BY DEF WorkerChecks, mainVars, chanVars
<1>2. (slow' <=> slow) /\ (closed' <=> closed)
  BY Zenon DEF WorkerChecks, chanVars
<1>3. TickDeadline' /\ (Prompt' => Prompt) /\ Work = 0 /\ Work' = 0
  BY <1>1, <1>2 DEF TickDeadline, Prompt, LastTick, Work
<1> QED
  BY <1>1, <1>2, <1>3, LoopGrace

LEMMA WorkerWakesGrace == ASSUME Inv, Inv', GraceInv, WorkerWakes PROVE GraceInv'
<1>1. CASE WorkerReturns("failed")
  BY <1>1, ReturnsGrace DEF WorkerWakes
<1>2. CASE /\ worker' = "commands" /\ rest' = 0 /\ round' = 0
           /\ UNCHANGED <<mainVars, task, left, chanVars, waking, slow, bridge>>
  <2>1. /\ worker = "wait" /\ worker' = "commands" /\ round' = 0
        /\ UNCHANGED <<main, grace, task, left, entry, bridge>>
    BY <1>2 DEF WorkerWakes, mainVars, chanVars
  <2>2. (slow' <=> slow) /\ (closed' <=> closed)
    BY <1>2, Zenon DEF chanVars
  <2>3. TickDeadline' /\ (Prompt' => Prompt) /\ Work = 0 /\ Work' = 0
    BY <2>1, <2>2, TimesNat DEF TickDeadline, Prompt, LastTick, Work
  <2> QED
    BY <2>1, <2>2, <2>3, LoopGrace
<1> QED
  BY <1>1, <1>2 DEF WorkerWakes

(* A command is only taken from an open channel. *)
LEMMA WorkerCommandGrace == ASSUME Inv, Inv', GraceInv, NEW c \in Conn, WorkerCommand(c) PROVE GraceInv'
<1>1. /\ worker = "commands" /\ worker' = "commands" /\ c \in ready
      /\ entry' = [entry EXCEPT ![c] = IF @ = "leaving" THEN "none" ELSE "known"]
      /\ bridge' = IF entry[c] = "connect" THEN bridge \cup {c}
                   ELSE IF entry[c] = "leaving" THEN bridge \ {c} ELSE bridge
      /\ UNCHANGED <<main, grace, cause, task, left, rest>>
  BY DEF WorkerCommand, mainVars
<1>2. (slow' <=> slow) /\ ~closed /\ ~closed'
  BY Zenon DEF WorkerCommand
<1>3. main \notin {"stop", "abort"}
  BY <1>2 DEF GraceInv, Stages
<1>4. Outputs'
  <2>1. \A d \in Conn : d # c => entry'[d] = entry[d] /\ (d \in bridge' <=> d \in bridge)
    BY <1>1 DEF Inv, ChanType
  <2>2. entry'[c] # "connect" /\ (c \in bridge' => OutputAlive(c))
    BY <1>1 DEF Inv, ChanType, OutputAlive
  <2>3. \A d \in Conn : task[d] = "handshake" => ~(d \in bridge' \/ entry'[d] = "connect")
    BY <2>1, <2>2 DEF GraceInv, Outputs, OutputAlive
  <2> QED
    BY <1>1, <1>2, <2>3 DEF Outputs, OutputAlive, WorkerGone
<1>5. Stages' /\ TickDeadline' /\ InTime'
  BY <1>1, <1>3 DEF GraceInv, Stages, TickDeadline, InTime
<1>6. Deadlines'
  <2>1. TaskDeadlines
    BY DEF GraceInv, Deadlines, TaskDeadlines
  <2>2. TaskDeadlines'
    BY <1>1, <2>1, TaskDeadlinesSame
  <2> QED
    BY <1>5, <2>2, Zenon DEF Deadlines, TaskDeadlines, TickDeadline
<1> QED
  BY <1>4, <1>5, <1>6 DEF GraceInv

LEMMA WorkerShutdownGrace == ASSUME Inv, Inv', GraceInv, WorkerShutdown PROVE GraceInv'
BY ReturnsGrace DEF WorkerShutdown

(* With the channel closed, a tick can only be the one that ends a full    *)
(* round, which was allowed for.                                           *)
LEMMA WorkerTicksGrace == ASSUME Inv, Inv', GraceInv, WorkerTicks PROVE GraceInv'
<1>1. /\ worker = "commands" /\ worker' = "tick"
      /\ UNCHANGED <<main, grace, task, left, entry, bridge>>
  BY DEF WorkerTicks, mainVars, chanVars
<1>2. (closed' <=> closed) /\ (slow' => rest' = SlowTime) /\ (~slow' => rest' = TickTime)
  BY Zenon DEF WorkerTicks, chanVars
<1>3. closed => round = Budget
  BY Zenon DEF WorkerTicks
<1>4. CASE ~closed
  <2>1. main \notin {"stop", "abort"}
    BY <1>4 DEF GraceInv, Stages
  <2>2. Outputs'
    BY <1>1, <1>2 DEF GraceInv, Outputs, OutputAlive, WorkerGone
  <2>3. Stages' /\ InTime'
    BY <1>1, <1>2, <2>1 DEF GraceInv, Stages, InTime
  <2>4. TickDeadline'
    BY <1>2, TimesNat DEF TickDeadline
  <2>5. Deadlines'
    <3>1. TaskDeadlines
      BY DEF GraceInv, Deadlines, TaskDeadlines
    <3>2. TaskDeadlines'
      BY <1>1, <3>1, TaskDeadlinesSame
    <3> QED
      BY <2>4, <3>2, Zenon DEF Deadlines, TaskDeadlines, TickDeadline
  <2> QED
    BY <2>2, <2>3, <2>5 DEF GraceInv
<1>5. CASE closed
  <2>1. LastTick /\ Prompt /\ Work = TickTime
    BY <1>1, <1>3, <1>5 DEF LastTick, Prompt, Work
  <2>2. TickDeadline'
    BY <1>2, TimesNat DEF TickDeadline
  <2>3. CASE slow'
    <3>1. ~Prompt'
      BY <1>1, <2>3 DEF Prompt, LastTick
    <3>2. main # "abort"
      BY <2>1 DEF GraceInv, InTime
    <3>3. InTime'
      BY <1>1, <3>1, <3>2 DEF InTime
    <3>4. Outputs' /\ Stages'
      BY <1>1, <1>2 DEF GraceInv, Outputs, OutputAlive, WorkerGone, Stages
    <3>5. Deadlines'
      <4>1. TaskDeadlines
        BY DEF GraceInv, Deadlines, TaskDeadlines
      <4>2. TaskDeadlines'
        BY <1>1, <4>1, TaskDeadlinesSame
      <4> QED
        BY <2>2, <4>2, Zenon DEF Deadlines, TaskDeadlines, TickDeadline
    <3> QED
      BY <3>3, <3>4, <3>5 DEF GraceInv
  <2>4. CASE ~slow'
    <3>1. Work' = TickTime
      BY <1>1, <1>2, <2>4 DEF Work
    <3>2. Work' <= Work
      BY <2>1, <3>1, TimesNat
    <3> QED
      BY <1>1, <1>2, <2>1, <2>2, <3>2, LoopGrace
  <2> QED
    BY <2>3, <2>4
<1> QED
  BY <1>4, <1>5

LEMMA WorkerTickedGrace == ASSUME Inv, Inv', GraceInv, WorkerTicked PROVE GraceInv'
<1>1. CASE WorkerReturns("failed")
  BY <1>1, ReturnsGrace DEF WorkerTicked
<1>2. CASE /\ worker' = "check" /\ rest' = 0 /\ round' = 0
           /\ bridge' = {c \in bridge : task[c] \in {"open", "writing"}}
           /\ UNCHANGED <<mainVars, task, left, chanVars, waking, slow>>
  <2>1. /\ worker = "tick" /\ worker' = "check"
        /\ bridge' = {c \in bridge : task[c] \in {"open", "writing"}}
        /\ UNCHANGED <<main, grace, task, left, entry>>
    BY <1>2 DEF WorkerTicked, mainVars, chanVars
  <2>2. (slow' <=> slow) /\ (closed' <=> closed)
    BY <1>2, Zenon DEF chanVars
  <2>3. TickDeadline' /\ (Prompt' => Prompt) /\ Work' = 0
    BY <2>1, <2>2 DEF TickDeadline, Prompt, LastTick, Work
  <2>4. Work' <= Work
    BY <2>3, WorkNat
  <2> QED
    BY <2>1, <2>2, <2>3, <2>4, LoopGrace
<1> QED
  BY <1>1, <1>2 DEF WorkerTicked

-----------------------------------------------------------------------------
(* The steps of main. *)

LEMMA WorkerStepGrace == ASSUME Inv, Inv', GraceInv, WorkerStep PROVE GraceInv'
BY WorkerStartsGrace, WorkerChecksGrace, WorkerWakesGrace, WorkerCommandGrace, WorkerShutdownGrace,
   WorkerTicksGrace, WorkerTickedGrace, Zenon DEF WorkerStep

LEMMA TriggerGrace == ASSUME Inv, Inv', GraceInv, NEW x, Trigger(x) PROVE GraceInv'
<1>1. UNCHANGED <<main, grace, task, left, entry, worker, rest, round, bridge>>
  BY DEF Trigger, mainVars, chanVars, workVars
<1>2. (slow' <=> slow) /\ (closed' <=> closed)
  BY Zenon DEF Trigger, chanVars, workVars
<1> QED
  BY <1>1, <1>2, QuietGrace

LEMMA MessageGrace == ASSUME Inv, Inv', GraceInv, NEW c \in Conn, Message(c) PROVE GraceInv'
<1>1. UNCHANGED <<main, grace, task, left, entry, worker, rest, round, bridge>>
  BY DEF Message, mainVars, workVars
<1>2. (slow' <=> slow) /\ (closed' <=> closed)
  BY Zenon DEF Message, workVars
<1> QED
  BY <1>1, <1>2, QuietGrace

LEMMA StutterGrace == ASSUME Inv, Inv', GraceInv, UNCHANGED vars PROVE GraceInv'
<1>1. UNCHANGED <<main, grace, task, left, entry, worker, rest, round, bridge>>
  BY DEF vars, mainVars, chanVars, workVars
<1>2. (slow' <=> slow) /\ (closed' <=> closed)
  BY Zenon DEF vars, chanVars, workVars
<1> QED
  BY <1>1, <1>2, QuietGrace

(* main goes on while nothing else does; it is not about to wait for the   *)
(* connections.                                                            *)
LEMMA MainGrace ==
    ASSUME GraceInv, UNCHANGED <<task, left, worker, rest, bridge>>, slow' <=> slow,
           Outputs', Stages', main' \notin {"stop", "abort"}
    PROVE  GraceInv'
<1>1. Deadlines'
  <2>1. TaskDeadlines /\ TickDeadline
    BY DeadlineParts DEF GraceInv
  <2>2. TaskDeadlines' /\ TickDeadline'
    BY <2>1, TaskDeadlinesSame, TickDeadlineSame
  <2> QED
    BY <2>2, Zenon DEF Deadlines, TaskDeadlines, TickDeadline
<1>2. InTime'
  BY InTimeElse
<1> QED
  BY <1>1, <1>2 DEF GraceInv

LEMMA MainStepsGrace ==
    ASSUME GraceInv, Listen \/ StartFails \/ NapEnds \/ Joined \/ Exit PROVE GraceInv'
<1>1. /\ UNCHANGED <<task, left, entry, worker, rest, bridge>>
      /\ main' \in {"accept", "join", "exited"}
      /\ main' = "accept" => main = "accept" \/ worker # "start"
      /\ main = "exited" => main' = "exited"
  BY DEF Listen, StartFails, NapEnds, Joined, Exit, chanVars, workVars
<1>2. (slow' <=> slow) /\ (closed' <=> closed)
  <2>1. UNCHANGED <<chanVars, workVars>>
    BY DEF Listen, StartFails, NapEnds, Joined, Exit
  <2> QED
    BY <2>1, Zenon DEF chanVars, workVars
<1>3. Outputs'
  BY <1>1, <1>2 DEF GraceInv, Outputs, OutputAlive, WorkerGone
<1>4. Stages'
  BY <1>1, <1>2 DEF GraceInv, Stages
<1> QED
  BY <1>1, <1>2, <1>3, <1>4, MainGrace

(* Who closes the channel leaves no Output in it. *)
LEMMA ClosesOutputs ==
    ASSUME Outputs, ChannelCloses, UNCHANGED <<task, worker, bridge>> PROVE Outputs'
<1>1. \A c \in Conn : entry'[c] = "none"
  BY DEF ChannelCloses
<1> QED
  BY <1>1 DEF Outputs, OutputAlive, WorkerGone

LEMMA BindFailsGrace == ASSUME GraceInv, BindFails PROVE GraceInv'
<1>1. UNCHANGED <<task, left, worker, rest, bridge>> /\ main = "start" /\ main' = "join"
  BY DEF BindFails, workVars
<1>2. slow' <=> slow
  BY Zenon DEF BindFails, workVars
<1>3. Outputs'
  BY <1>1, ClosesOutputs DEF BindFails, GraceInv
<1>4. Stages'
  BY <1>1 DEF GraceInv, Stages
<1> QED
  BY <1>1, <1>2, <1>3, <1>4, MainGrace

LEMMA AcceptFailsGrace == ASSUME GraceInv, AcceptFails PROVE GraceInv'
<1>1. /\ main' = "exited" /\ worker' = "killed"
      /\ \A c \in Conn : task'[c] = "ended"
      /\ UNCHANGED <<entry, bridge>>
  BY DEF AcceptFails, chanVars
<1>2. closed' <=> closed
  BY Zenon DEF AcceptFails, chanVars
<1>3. Deadlines' /\ Stages' /\ InTime'
  BY <1>1 DEF Deadlines, Stages, InTime
<1>4. Outputs'
  BY <1>1, <1>2 DEF GraceInv, Outputs, OutputAlive, WorkerGone
<1> QED
  BY <1>3, <1>4 DEF GraceInv

LEMMA AcceptGrace == ASSUME Inv, GraceInv, NEW c \in Conn, Accept(c) PROVE GraceInv'
<1>1. /\ Become(c, "handshake") /\ ~OutputAlive(c) /\ main = "accept"
      /\ UNCHANGED <<main, entry, worker, rest, bridge>>
  BY DEF Accept, OutputAlive, chanVars, workVars
<1>2. (slow' <=> slow) /\ (closed' <=> closed)
  BY Zenon DEF Accept, chanVars, workVars
<1>3. Deadlines'
  <2>1. TaskDeadlines /\ TickDeadline
    BY DeadlineParts DEF GraceInv
  <2>2. TickDeadline'
    BY <1>1, <1>2, <2>1, TickDeadlineSame
  <2>3. TaskDeadlines'
    BY <1>1, <2>1, BecomeDeadlines DEF Inv, Live
  <2> QED
    BY <2>2, <2>3, Zenon DEF Deadlines, TaskDeadlines, TickDeadline
<1>4. Outputs'
  <2>1. \A d \in Conn : task'[d] = "handshake" => d = c \/ task[d] = "handshake"
    BY <1>1 DEF Become, Inv, TaskType
  <2> QED
    BY <1>1, <1>2, <2>1 DEF GraceInv, Outputs, OutputAlive, WorkerGone
<1>5. Stages' /\ InTime'
  BY <1>1, <1>2 DEF GraceInv, Stages, InTime
<1> QED
  BY <1>3, <1>4, <1>5 DEF GraceInv

LEMMA JoinNextGrace == ASSUME Inv, GraceInv, NEW c \in Conn, JoinNext(c) PROVE GraceInv'
<1>1. /\ main = "accept"
      /\ UNCHANGED <<main, left, entry, worker, rest, bridge>>
      /\ \A d \in Conn : task'[d] = task[d] \/ task'[d] = "none"
  BY DEF JoinNext, Inv, TaskType, chanVars, workVars
<1>2. (slow' <=> slow) /\ (closed' <=> closed)
  BY Zenon DEF JoinNext, chanVars, workVars
<1>3. Deadlines'
  BY <1>1, <1>2 DEF GraceInv, Deadlines
<1>4. Outputs'
  BY <1>1, <1>2 DEF GraceInv, Outputs, OutputAlive, WorkerGone
<1>5. Stages' /\ InTime'
  BY <1>1, <1>2 DEF GraceInv, Stages, InTime
<1> QED
  BY <1>3, <1>4, <1>5 DEF GraceInv

(* The shutdown begins: the grace period is longer than what any           *)
(* connection can need.                                                    *)
LEMMA StopNeeds ==
    ASSUME Inv, GraceInv, Prompt PROVE \A c \in Conn : Need[c] < GraceTime
<1> SUFFICES ASSUME NEW c \in Conn PROVE Need[c] < GraceTime
  OBVIOUS
<1>1. Work <= TickTime /\ Work \in Nat
  BY WorkNat, TimesNat DEF Work, Prompt, GraceInv, Deadlines, LastTick
<1>2. left[c] \in Nat
  BY DEF Inv, TaskType
<1>3. /\ task[c] = "handshake" => left[c] <= HandshakeTime
      /\ task[c] = "writing" => left[c] <= WriteTime
      /\ task[c] = "closing" => left[c] <= CloseTime
  BY DEF GraceInv, Deadlines
<1>4. GraceTime > TickTime + WriteTime + CloseTime /\ GraceTime > HandshakeTime + CloseTime
  BY GraceAssumption
<1>5. task[c] \in Live \cup {"none", "ended"}
  BY DEF Inv, TaskType
<1>6. PICK w, l, n : /\ w \in Nat /\ w = Work
                     /\ l \in Nat /\ l = left[c]
                     /\ n = Need[c]
  BY <1>1, <1>2
<1>7. \/ n = l + CloseTime /\ (l <= HandshakeTime \/ l <= WriteTime)
      \/ n = w + WriteTime + CloseTime
      \/ n = CloseTime
      \/ n = l /\ l <= CloseTime
      \/ n = 0
  BY <1>3, <1>5, <1>6, NeedValues DEF Live
<1>8. w <= TickTime
  BY <1>1, <1>6, Zenon
<1>9. n < GraceTime
  <2>1. w \in Nat /\ l \in Nat
    BY <1>6, Zenon
  <2> QED BY <1>4, <1>7, <1>8, <2>1, TimesNat
<1> QED
  BY <1>6, <1>9, Zenon

LEMMA StopGrace == ASSUME Inv, Inv', GraceInv, NEW why, Stop(why) PROVE GraceInv'
<1>1. /\ UNCHANGED <<task, left, worker, rest, round, bridge>>
      /\ main = "accept" /\ main' = "stop" /\ grace' = GraceTime
  BY DEF Stop, workVars
<1>2. closed' /\ (slow' <=> slow)
  BY Zenon DEF Stop, ChannelCloses, workVars
<1>3. Outputs'
  BY <1>1, ClosesOutputs DEF Stop, GraceInv
<1>4. Stages'
  BY <1>1, <1>2 DEF GraceInv, Stages
<1>5. Deadlines'
  <2>1. TaskDeadlines /\ TickDeadline
    BY DeadlineParts DEF GraceInv
  <2>2. TaskDeadlines' /\ TickDeadline'
    BY <1>1, <1>2, <2>1, TaskDeadlinesSame, TickDeadlineSame
  <2> QED
    BY <2>2, Zenon DEF Deadlines, TaskDeadlines, TickDeadline
<1>6. InTime'
  <2>1. Prompt' <=> Prompt
    BY <1>1, <1>2, Zenon DEF Prompt, LastTick
  <2>2. \A c \in Conn : Need'[c] = Need[c]
    BY <1>1, NeedSame
  <2>3. GraceTime > 0
    BY GraceAssumption, TimesNat
  <2>4. Prompt' => \A c \in Conn : Need'[c] < GraceTime
    BY <2>1, <2>2, StopNeeds
  <2> QED
    BY <1>1, <2>3, <2>4 DEF InTime
<1> QED
  BY <1>3, <1>4, <1>5, <1>6 DEF GraceInv

(* The grace period is over: only a slow worker can be the reason. *)
LEMMA AbortGrace == ASSUME Inv, GraceInv, Abort PROVE GraceInv'
<1>1. /\ UNCHANGED <<entry, worker, rest, round, bridge>>
      /\ main = "stop" /\ main' = "abort" /\ grace = 0
      /\ \A c \in Conn : left'[c] = 0
      /\ task' = Aborted
  BY DEF Abort, chanVars, workVars
<1>2. (closed' <=> closed) /\ (slow' <=> slow)
  BY Zenon DEF Abort, chanVars, workVars
<1>3. ~Prompt
  BY <1>1 DEF GraceInv, InTime
<1>4. InTime'
  <2>1. ~Prompt'
    BY <1>1, <1>2, <1>3, Zenon DEF Prompt, LastTick
  <2> QED
    BY <1>1, <2>1 DEF InTime
<1>5. Stages'
  BY <1>1, <1>2 DEF GraceInv, Stages
<1>6. Outputs'
  <2>1. \A c \in Conn : task'[c] # "handshake"
    BY <1>1 DEF Aborted
  <2> QED
    BY <1>1, <1>2, <2>1 DEF GraceInv, Outputs, OutputAlive, WorkerGone
<1>7. Deadlines'
  <2>1. TickDeadline
    BY DeadlineParts DEF GraceInv
  <2>2. TickDeadline'
    BY <1>1, <1>2, <2>1, TickDeadlineSame
  <2>3. TaskDeadlines'
    BY <1>1, TimesNat DEF TaskDeadlines
  <2> QED
    BY <2>2, <2>3, Zenon DEF Deadlines, TaskDeadlines, TickDeadline
<1> QED
  BY <1>4, <1>5, <1>6, <1>7 DEF GraceInv

-----------------------------------------------------------------------------
(* The clock. *)

(* While main waits, time passes only in a tick of the worker or after its *)
(* end: it does not wait on a closed channel.                              *)
LEMMA TickWorker ==
    ASSUME Inv, GraceInv, Tick, main = "stop"
    PROVE  /\ closed
           /\ bridge # {} => worker = "tick" /\ Work \in Nat /\ Work > 0 /\ Work' = Work - 1
<1>1. closed
  BY DEF GraceInv, Stages
<1>2. worker # "wait"
  BY <1>1, Zenon DEF Tick, Inv, Awake
<1>3. bridge # {} => worker = "tick"
  <2>1. worker \notin {"start", "killed", "check", "commands"}
    BY DEF GraceInv, Stages, Tick
  <2>2. bridge # {} => worker \notin {"ended", "failed"}
    BY DEF GraceInv, Outputs, WorkerGone
  <2> QED
    BY <1>2, <2>1, <2>2 DEF Inv, WorkType
<1>4. worker = "tick" => rest > 0 /\ rest \in Nat /\ rest' = rest - 1 /\ worker' = "tick"
  BY DEF Tick, Inv, WorkType
<1> QED
  BY <1>1, <1>3, <1>4 DEF Work

(* Every connection that is left comes closer to its end. *)
LEMMA TickNeeds ==
    ASSUME Inv, GraceInv, Tick, main = "stop", NEW c \in Conn
    PROVE  /\ Ended(c) => Need'[c] = 0
           /\ ~Ended(c) => Need[c] > 0 /\ Need'[c] = Need[c] - 1
<1>1. task' = task /\ bridge' = bridge /\ ~MustMove(c)
  BY DEF Tick
<1>2. left[c] \in Nat /\ CloseTime \in Nat /\ WriteTime \in Nat /\ task[c] \in Live \cup {"none", "ended"}
  BY TimesNat DEF Inv, TaskType
<1>3. Timed(c) => left[c] > 0 /\ left'[c] = left[c] - 1
  BY <1>1, <1>2 DEF Tick, MustMove
<1>4. c \in bridge => Work \in Nat /\ Work > 0 /\ Work' = Work - 1
  BY TickWorker
<1>5. task[c] = "open" => c \in bridge
  BY <1>1, TickWorker DEF MustMove, OutputAlive, GraceInv, Outputs
<1>6. task[c] \notin {"leave", "drop"}
  BY <1>1 DEF MustMove
<1>7. CASE Ended(c)
  BY <1>1, <1>7, NeedValuesNext DEF Ended
<1>8. CASE task[c] \in {"open", "writing"} /\ c \in bridge
  <2>1. PICK w, v : w \in Nat /\ w = Work /\ v = Work'
    BY <1>4, <1>8
  <2>2. w > 0 /\ v = w - 1
    BY <1>4, <1>8, <2>1, Zenon
  <2>3. Need[c] = w + WriteTime + CloseTime /\ Need'[c] = v + WriteTime + CloseTime
    BY <1>1, <1>8, <2>1, NeedValues, NeedValuesNext
  <2>4. ~Ended(c)
    BY <1>8 DEF Ended
  <2>5. w \in Nat
    BY <2>1, Zenon
  <2> QED
    BY <1>2, <2>2, <2>3, <2>4, <2>5
<1>9. CASE task[c] = "handshake" \/ (task[c] = "writing" /\ c \notin bridge)
  <2>1. Need[c] = left[c] + CloseTime /\ Need'[c] = left'[c] + CloseTime
    BY <1>1, <1>9, NeedValues, NeedValuesNext
  <2>2. ~Ended(c) /\ Timed(c)
    BY <1>9 DEF Ended, Timed
  <2> QED
    BY <1>2, <1>3, <2>1, <2>2
<1>10. CASE task[c] = "closing"
  <2>1. Need[c] = left[c] /\ Need'[c] = left'[c]
    BY <1>1, <1>10, NeedValues, NeedValuesNext
  <2>2. ~Ended(c) /\ Timed(c)
    BY <1>10 DEF Ended, Timed
  <2> QED
    BY <1>2, <1>3, <2>1, <2>2
<1> QED
  BY <1>2, <1>5, <1>6, <1>7, <1>8, <1>9, <1>10 DEF Live, Ended

LEMMA TickGrace == ASSUME Inv, Inv', GraceInv, Tick PROVE GraceInv'
<1>1. UNCHANGED <<main, task, entry, worker, round, bridge>>
  BY DEF Tick, chanVars
<1>2. (closed' <=> closed) /\ (slow' <=> slow)
  BY Zenon DEF Tick, chanVars
<1>3. Outputs' /\ Stages'
  BY <1>1, <1>2 DEF GraceInv, Outputs, OutputAlive, WorkerGone, Stages
<1>4. Deadlines'
  <2>1. \A c \in Conn : left[c] \in Nat /\ left'[c] \in Nat /\ left'[c] <= left[c]
    BY DEF Inv, TaskType, Tick
  <2>2. TaskDeadlines'
    BY <1>1, <2>1, TimesNat DEF GraceInv, Deadlines, TaskDeadlines
  <2>3. rest \in Nat /\ rest' \in Nat /\ rest' <= rest
    BY DEF Inv, WorkType, Tick
  <2>4. TickDeadline'
    BY <1>1, <1>2, <2>3, TimesNat DEF GraceInv, Deadlines, TickDeadline
  <2> QED
    BY <2>2, <2>4, Zenon DEF Deadlines, TaskDeadlines, TickDeadline
<1>5. Prompt' <=> Prompt
  BY <1>1, <1>2, Zenon DEF Prompt, LastTick
<1>6. CASE main = "stop" /\ Prompt
  <2>1. grace \in Nat /\ grace' = grace - 1 /\ \A c \in Conn : Need[c] \in Nat /\ Need[c] < grace
    BY <1>6, NeedNat DEF Inv, MainType, Tick, GraceInv, InTime
  <2>2. PICK c \in Conn : ~Ended(c)
    BY <1>6 DEF Tick
  <2>3. Need[c] > 0
    BY <1>6, <2>2, TickNeeds
  <2>4. grace' > 0
    BY <2>1, <2>3
  <2>5. ASSUME NEW d \in Conn PROVE Need'[d] < grace'
    BY <1>6, <2>1, <2>4, TickNeeds
  <2> QED
    BY <1>1, <1>3, <1>4, <1>6, <2>4, <2>5 DEF GraceInv, InTime
<1>7. CASE ~(main = "stop" /\ Prompt)
  <2>1. InTime'
    BY <1>1, <1>5, <1>7 DEF GraceInv, InTime
  <2> QED
    BY <1>3, <1>4, <2>1 DEF GraceInv
<1> QED
  BY <1>6, <1>7

LEMMA NextGrace == Inv /\ Inv' /\ GraceInv /\ [Next]_vars => GraceInv'
<1> SUFFICES ASSUME Inv, Inv', GraceInv, [Next]_vars PROVE GraceInv'
  OBVIOUS
<1>1. CASE \E x \in Conn \cup {"main"} : Trigger(x)
  BY <1>1, TriggerGrace
<1>2. CASE \E c \in Conn : TaskStep(c) \/ Message(c) \/ Accept(c) \/ JoinNext(c)
  BY <1>2, RegisterGrace, SessionGrace, MessageGrace, AcceptGrace, JoinNextGrace, Zenon DEF TaskStep
<1>3. CASE WorkerStep
  BY <1>3, WorkerStepGrace
<1>4. CASE Listen \/ StartFails \/ BindFails \/ AcceptFails
  BY <1>4, MainStepsGrace, BindFailsGrace, AcceptFailsGrace, Zenon
<1>5. CASE Stop("signal") \/ Shutdown
  BY <1>5, StopGrace, MainStepsGrace, AbortGrace DEF Shutdown
<1>6. CASE Tick
  BY <1>6, TickGrace
<1>7. CASE UNCHANGED vars
  BY <1>7, StutterGrace
<1> QED
  BY <1>1, <1>2, <1>3, <1>4, <1>5, <1>6, <1>7, Zenon DEF Next

(* The grace period is never exhausted unless the worker's tick was a slow *)
(* one, for every set of time-outs that GraceAssumption admits: the        *)
(* server's 12 s cover a batch of 10 s, or a handshake of 10 s, and a      *)
(* closing handshake of 1 s.                                               *)
THEOREM GraceIsEnough == Spec => []GraceSuffices
<1>1. GraceInv => GraceSuffices
  BY Zenon DEF GraceInv, InTime, Prompt, GraceSuffices
<1> QED
  BY <1>1, InitInv, NextInv, InitGrace, NextGrace, PTL DEF Spec

-----------------------------------------------------------------------------
(***************************************************************************)
(* Rosapi: the requests and parameter calls that the worker answers.       *)
(***************************************************************************)

(* Numbers are handed out in order: nothing carries one of the future. *)
Numbers ==
    /\ phase \in {"idle", "events", "expire", "ended"}
    /\ taken \in 0 .. MaxRequests /\ created \in 0 .. MaxClients
    /\ requests \subseteq 1 .. taken /\ DOMAIN groups \subseteq 1 .. taken
    /\ clients \subseteq 1 .. created /\ \A x \in pending : x.client \in 1 .. created
    /\ answers \in [Requests -> Nat]
    /\ \A r \in Requests : r > taken => answers[r] = 0

(* Requests of the current poll that are still to be handled. *)
Waiting == {e.id : e \in {x \in events : x.kind = "request"}}

(* A request is to be handled once, before its group exists; and the       *)
(* groups that expire exist.                                               *)
EventInv ==
    /\ Waiting \subseteq 1 .. taken /\ Waiting \cap DOMAIN groups = {}
    /\ \A e, f \in events : e.kind = "request" /\ f.kind = "request" /\ e.id = f.id => e = f
    /\ phase # "events" => events = {}
    /\ phase # "expire" => expired = {}
    /\ expired \subseteq DOMAIN groups

HeaderInv ==
    /\ requests = Waiting \cup DOMAIN groups
    /\ \A r \in 1 .. taken : answers[r] = IF r \in requests THEN 0 ELSE 1

(* A client makes one call, and a group counts its calls. *)
IsGroup(r) == r = [op |-> r.op, remaining |-> r.remaining]
CallInv ==
    /\ IsFiniteSet(pending)
    /\ \A x, y \in pending : x.client = y.client => x = y
    /\ {x.group : x \in pending} = DOMAIN groups
    /\ \A g \in DOMAIN groups : IsGroup(groups[g])
    /\ \A g \in DOMAIN groups : groups[g].remaining = Cardinality(PerRequest(g))
    /\ clients = {x.client : x \in pending}

Running == EventInv /\ HeaderInv /\ CallInv

ApiInv == Numbers /\ (phase # "ended" => Running)

LEMMA InvImplies == ApiInv => HeadersTracked /\ GroupsMatchCalls
<1> SUFFICES ASSUME ApiInv PROVE HeadersTracked /\ GroupsMatchCalls
  OBVIOUS
<1>1. RosapiTypeOK
  BY BoundsAssumption DEF ApiInv, Numbers, RosapiTypeOK, Requests
<1>2. HeadersTracked
  BY <1>1 DEF ApiInv, Running, HeaderInv, Waiting, HeadersTracked
<1>3. GroupsMatchCalls
  BY DEF ApiInv, Running, CallInv, GroupsMatchCalls
<1> QED
  BY <1>2, <1>3

LEMMA InitApi == RosapiInit => ApiInv
<1> SUFFICES ASSUME RosapiInit PROVE ApiInv
  OBVIOUS
<1>1. DOMAIN groups = {}
  BY DEF RosapiInit
<1>2. Numbers
  BY <1>1, BoundsAssumption DEF RosapiInit, Numbers, Requests
<1>3. Waiting = {}
  BY DEF RosapiInit, Waiting
<1>4. EventInv /\ HeaderInv
  BY <1>1, <1>3 DEF RosapiInit, EventInv, HeaderInv
<1>5. CallInv
  BY <1>1, FS_EmptySet DEF RosapiInit, CallInv
<1> QED
  BY <1>2, <1>4, <1>5 DEF ApiInv, Running

-----------------------------------------------------------------------------
(* The calls and the groups are left alone. *)
LEMMA CallSame ==
    ASSUME CallInv, UNCHANGED <<pending, clients>>, DOMAIN groups' = DOMAIN groups,
           \A g \in DOMAIN groups : groups'[g] = groups[g]
    PROVE  CallInv'
BY DEF CallInv, PerRequest

(* One header is answered or discarded: it is counted once and forgotten. *)
LEMMA RespondedFacts ==
    ASSUME Numbers, HeaderInv, NEW r \in requests, Responded(r), UNCHANGED taken,
           Waiting' \cup DOMAIN groups' = (Waiting \cup DOMAIN groups) \ {r}
    PROVE  /\ HeaderInv'
           /\ answers' \in [Requests -> Nat]
           /\ \A q \in Requests : q > taken' => answers'[q] = 0
           /\ requests' \subseteq 1 .. taken'
<1>1. r \in 1 .. taken /\ r \in Requests
  BY BoundsAssumption DEF Numbers, Requests
<1>2. answers' \in [Requests -> Nat]
  BY <1>1 DEF Numbers, Responded
<1>3. \A q \in Requests : answers'[q] = IF q = r THEN answers[r] + 1 ELSE answers[q]
  BY <1>1 DEF Numbers, Responded
<1>4. \A q \in Requests : q > taken' => answers'[q] = 0
  BY <1>1, <1>3, BoundsAssumption DEF Numbers, Requests
<1>5. requests' = requests \ {r}
  BY DEF Responded
<1>6. HeaderInv'
  <2>1. requests' = (Waiting \cup DOMAIN groups)'
    BY <1>5 DEF HeaderInv
  <2>2. \A q \in 1 .. taken' : answers'[q] = IF q \in requests' THEN 0 ELSE 1
    BY <1>1, <1>3, <1>5, BoundsAssumption DEF HeaderInv, Numbers, Requests
  <2> QED
    BY <2>1, <2>2 DEF HeaderInv
<1> QED
  BY <1>2, <1>4, <1>5, <1>6 DEF Numbers

(* A request is handled and its event is gone. *)
LEMMA HandledFacts ==
    ASSUME EventInv, NEW e \in events, Handled(e)
    PROVE  /\ e.kind = "request" => Waiting' = Waiting \ {e.id}
           /\ e.kind # "request" => Waiting' = Waiting
           /\ \A a, b \in events' : a.kind = "request" /\ b.kind = "request" /\ a.id = b.id => a = b
BY DEF EventInv, Handled, Waiting

(* A request that is answered or discarded at once. *)
LEMMA AnswerEvent ==
    ASSUME ApiInv, phase = "events", NEW e \in events, e.kind = "request", Responded(e.id), Handled(e),
           UNCHANGED <<pending, clients>>, DOMAIN groups' = DOMAIN groups,
           \A g \in DOMAIN groups : groups'[g] = groups[g],
           created' \in created .. MaxClients
    PROVE  ApiInv'
<1>0. Running /\ Numbers
  BY DEF ApiInv
<1>1. /\ Waiting' = Waiting \ {e.id} /\ e.id \in Waiting
      /\ \A a, b \in events' : a.kind = "request" /\ b.kind = "request" /\ a.id = b.id => a = b
  BY <1>0, HandledFacts DEF Running, Waiting
<1>2. e.id \in requests /\ e.id \notin DOMAIN groups
  BY <1>0, <1>1 DEF Running, EventInv, HeaderInv
<1>3. UNCHANGED <<phase, taken, expired>>
  BY DEF Handled
<1>4. Waiting' \cup DOMAIN groups' = (Waiting \cup DOMAIN groups) \ {e.id}
  BY <1>1, <1>2
<1>5. /\ HeaderInv'
      /\ answers' \in [Requests -> Nat]
      /\ \A q \in Requests : q > taken' => answers'[q] = 0
      /\ requests' \subseteq 1 .. taken'
  BY <1>0, <1>2, <1>3, <1>4, RespondedFacts DEF Running
<1>6. Numbers'
  BY <1>0, <1>3, <1>5 DEF Numbers
<1>7. EventInv'
  BY <1>0, <1>1, <1>3 DEF Running, EventInv
<1>8. CallInv'
  BY <1>0, CallSame DEF Running
<1> QED
  BY <1>5, <1>6, <1>7, <1>8 DEF ApiInv, Running

(* N consists of n calls of the group g whose clients have the next        *)
(* numbers.                                                                *)
NextCalls(N, g, n) ==
    /\ \A x \in N : x.group = g /\ x.client \in created + 1 .. created + n
    /\ \A x, y \in N : x.client = y.client => x = y
    /\ {x.client : x \in N} = created + 1 .. created + n
    /\ n > 0 => N # {}
    /\ IsFiniteSet(N) /\ Cardinality(N) = n

(* So do the calls of a new group. *)
LEMMA NewFacts ==
    ASSUME created \in Nat, NEW g, NEW n \in Nat, NEW check
    PROVE  NextCalls(New(g, n, check), g, n)
<1> DEFINE N == New(g, n, check)
           f == [i \in 1 .. n |-> [client |-> created + i, group |-> g, check |-> check]]
<1>1. \A x \in N : x.group = g /\ x.client \in created + 1 .. created + n
  BY DEF New
<1>2. \A x, y \in N : x.client = y.client => x = y
  BY DEF New
<1>3. {x.client : x \in N} = created + 1 .. created + n
  <2>1. \A k \in created + 1 .. created + n : \E x \in N : x.client = k
    <3> SUFFICES ASSUME NEW k \in created + 1 .. created + n PROVE \E x \in N : x.client = k
      OBVIOUS
    <3>1. k - created \in 1 .. n /\ created + (k - created) = k
      OBVIOUS
    <3>2. [client |-> created + (k - created), group |-> g, check |-> check] \in N
      BY <3>1 DEF New
    <3> QED
      BY <3>1, <3>2
  <2> QED
    BY <1>1, <2>1
<1>4. n > 0 => N # {}
  BY <1>3
<1>5. f \in Bijection(1 .. n, N)
  <2>1. f \in [1 .. n -> N]
    BY DEF New
  <2>2. \A i, j \in 1 .. n : f[i] = f[j] => i = j
    OBVIOUS
  <2>3. \A x \in N : \E i \in 1 .. n : f[i] = x
    BY DEF New
  <2> QED
    BY <2>1, <2>2, <2>3 DEF Bijection, Injection, Surjection, IsInjective
<1>6. IsFiniteSet(1 .. n) /\ Cardinality(1 .. n) = n
  BY FS_Interval
<1>7. IsFiniteSet(N) /\ Cardinality(N) = n
  <2>1. ExistsBijection(1 .. n, N)
    BY <1>5 DEF ExistsBijection
  <2> QED
    BY <1>6, <2>1, FS_Bijection
<1> QED
  BY <1>1, <1>2, <1>3, <1>4, <1>7, Zenon DEF NextCalls

-----------------------------------------------------------------------------
(* A request becomes a group with n calls. *)
LEMMA OpenGroup ==
    ASSUME ApiInv, phase = "events", NEW e \in events, e.kind = "request", Handled(e), NotResponded,
           NEW n \in Nat \ {0}, NEW check, created + n <= MaxClients, created' = created + n,
           NEW op,
           groups' = [g \in DOMAIN groups \cup {e.id} |->
                        IF g = e.id THEN [op |-> op, remaining |-> n] ELSE groups[g]],
           pending' = pending \cup New(e.id, n, check),
           clients' = clients \cup (created + 1 .. created + n)
    PROVE  ApiInv'
<1> DEFINE N == New(e.id, n, check)
<1>0. EventInv /\ HeaderInv /\ CallInv /\ Numbers /\ created \in Nat
  BY DEF ApiInv, Running, Numbers
<1>1. /\ Waiting' = Waiting \ {e.id} /\ e.id \in Waiting
      /\ \A a, b \in events' : a.kind = "request" /\ b.kind = "request" /\ a.id = b.id => a = b
  BY <1>0, HandledFacts DEF Waiting
<1>2. e.id \in 1 .. taken /\ e.id \notin DOMAIN groups
  BY <1>0, <1>1 DEF EventInv
<1>3. UNCHANGED <<phase, taken, expired, requests, answers>>
  BY DEF Handled, NotResponded
<1>4. DOMAIN groups' = DOMAIN groups \cup {e.id}
  OBVIOUS
<1>5. /\ \A x \in N : x.group = e.id /\ x.client \in created + 1 .. created + n
      /\ \A x, y \in N : x.client = y.client => x = y
      /\ {x.client : x \in N} = created + 1 .. created + n
      /\ N # {} /\ IsFiniteSet(N) /\ Cardinality(N) = n
  <2>1. NextCalls(N, e.id, n)
    BY <1>0, NewFacts, Zenon
  <2> HIDE DEF N
  <2> QED
    BY <2>1 DEF NextCalls
<1>6. clients' = clients \cup {x.client : x \in N}
  BY <1>5
<1> HIDE DEF N
<1>7. Numbers'
  <2>1. created' \in 0 .. MaxClients
    BY <1>0, BoundsAssumption
  <2>2. clients' \subseteq 1 .. created'
    <3>1. clients \subseteq 1 .. created
      BY <1>0 DEF Numbers
    <3>2. PICK c \in Nat : c = created
      BY <1>0
    <3>5. PICK D : D = clients
      OBVIOUS
    <3>3. D \subseteq 1 .. c /\ clients' = D \cup (c + 1 .. c + n) /\ created' = c + n
      BY <3>1, <3>2, <3>5
    <3>4. D \cup (c + 1 .. c + n) \subseteq 1 .. c + n
      <4> SUFFICES ASSUME NEW k \in D \cup (c + 1 .. c + n) PROVE k \in 1 .. c + n
        OBVIOUS
      <4> QED
        BY <3>3
    <3> QED
      BY <3>3, <3>4, Zenon
  <2>3. \A x \in pending' : x.client \in 1 .. created'
    BY <1>0, <1>5 DEF Numbers, N
  <2> QED
    BY <1>0, <1>2, <1>3, <1>4, <2>1, <2>2, <2>3 DEF Numbers
<1>8. EventInv'
  BY <1>0, <1>1, <1>3, <1>4 DEF EventInv
<1>9. HeaderInv'
  BY <1>0, <1>1, <1>3, <1>4 DEF HeaderInv
<1>10. CallInv'
  <2>1. pending' = pending \cup N
    BY DEF N
  <2>2. IsFiniteSet(pending')
    <3>1. IsFiniteSet(pending) /\ IsFiniteSet(N)
      BY <1>0, <1>5 DEF CallInv
    <3> QED
      BY <2>1, <3>1, FS_Union, Zenon
  <2>3. \A x, y \in pending' : x.client = y.client => x = y
    <3>1. \A x \in pending, y \in N : x.client # y.client
      BY <1>0, <1>5 DEF Numbers
    <3> QED
      BY <1>0, <1>5, <2>1, <3>1 DEF CallInv
  <2>4. {x.group : x \in pending'} = DOMAIN groups'
    BY <1>0, <1>4, <1>5, <2>1 DEF CallInv
  <2>5. \A g \in DOMAIN groups' : groups'[g].remaining = Cardinality(PerRequest(g)')
    <3>1. \A x \in pending : x.group \in DOMAIN groups
      BY <1>0 DEF CallInv
    <3>2. PerRequest(e.id)' = N
      BY <1>2, <1>5, <2>1, <3>1 DEF PerRequest
    <3>3. \A g \in DOMAIN groups : PerRequest(g)' = PerRequest(g)
      BY <1>2, <1>5, <2>1 DEF PerRequest
    <3>4. groups'[e.id].remaining = n
      OBVIOUS
    <3>5. \A g \in DOMAIN groups : groups'[g] = groups[g]
      BY <1>2
    <3> QED
      BY <1>0, <1>4, <1>5, <3>2, <3>3, <3>4, <3>5 DEF CallInv
  <2>7. \A g \in DOMAIN groups' : IsGroup(groups'[g])
    <3>1. IsGroup(groups'[e.id])
      BY DEF IsGroup
    <3>2. \A g \in DOMAIN groups : groups'[g] = groups[g]
      BY <1>2
    <3> QED
      BY <1>0, <1>4, <3>1, <3>2 DEF CallInv
  <2>6. clients' = {x.client : x \in pending'}
    <3>1. clients = {x.client : x \in pending}
      BY <1>0 DEF CallInv
    <3> QED
      BY <1>6, <2>1, <3>1
  <2> QED
    BY <2>2, <2>3, <2>4, <2>5, <2>6, <2>7 DEF CallInv
<1> QED
  BY <1>7, <1>8, <1>9, <1>10 DEF ApiInv, Running

(* The calls N that were made for a request that fails are taken back, and *)
(* the clients made for them: the others are as they were.                 *)
LEMMA TakenBack ==
    ASSUME CallInv, Numbers, NEW g, g \notin DOMAIN groups, NEW N, NEW n \in Nat, NextCalls(N, g, n)
    PROVE  LET P == pending \cup N
               C == clients \cup {x.client : x \in N}
           IN  /\ {x \in P : x.group # g} = pending
               /\ C \ {x.client : x \in {y \in P : y.group = g}} = clients
<1>1. \A x \in N : x.group = g /\ x.client \in created + 1 .. created + n
  BY DEF NextCalls
<1>2. \A x \in pending : x.group # g
  BY DEF CallInv
<1>3. clients \cap {x.client : x \in N} = {}
  BY <1>1 DEF Numbers
<1>4. {y \in pending \cup N : y.group = g} = N
  BY <1>1, <1>2
<1> QED
  BY <1>1, <1>2, <1>3, <1>4

LEMMA RequestStep == ASSUME ApiInv, phase = "events", NEW e \in events, Request(e) PROVE ApiInv'
<1>0. e.kind = "request" /\ created \in Nat /\ created <= MaxClients
  BY BoundsAssumption DEF Request, ApiInv, Numbers
<1>1. CASE GraphReply(e)
  <2>1. Responded(e.id) /\ Handled(e) /\ UNCHANGED <<groups, pending, clients, created>>
    BY <1>1, Zenon DEF GraphReply, Discard
  <2>2. created' \in created .. MaxClients
    BY <1>0, <2>1, BoundsAssumption
  <2> QED
    BY <1>0, <2>1, <2>2, AnswerEvent
<1>2. ASSUME NEW n \in 0 .. MaxNodes, NEW ok \in BOOLEAN, Parameter(e, n, ok) PROVE ApiInv'
  <2>1. Handled(e) /\ created' = created + n /\ created + n <= MaxClients /\ n \in Nat
    BY <1>2, BoundsAssumption DEF Parameter
  <2>2. CASE ok /\ n > 0
    <3>1. /\ groups' = [g \in DOMAIN groups \cup {e.id} |->
                           IF g = e.id THEN [op |-> e.op, remaining |-> n] ELSE groups[g]]
          /\ pending' = pending \cup New(e.id, n, e.op = "delete")
          /\ clients' = clients \cup {x.client : x \in New(e.id, n, e.op = "delete")}
          /\ NotResponded
      BY <1>2, <2>2, Zenon DEF Parameter
    <3>2. n \in Nat \ {0}
      BY <2>1, <2>2
    <3>3. {x.client : x \in New(e.id, n, e.op = "delete")} = created + 1 .. created + n
      <4> DEFINE N == New(e.id, n, e.op = "delete")
      <4>1. NextCalls(N, e.id, n)
        BY <1>0, <2>1, NewFacts, Zenon
      <4> HIDE DEF N
      <4>2. {x.client : x \in N} = created + 1 .. created + n
        BY <4>1 DEF NextCalls
      <4> QED
        BY <4>2, Zenon DEF N
    <3>4. clients' = clients \cup (created + 1 .. created + n)
      BY <3>1, <3>3, Zenon
    <3> QED
      BY <1>0, <2>1, <3>1, <3>2, <3>4, OpenGroup, Zenon
  <2>3. CASE ~(ok /\ n > 0)
    <3> DEFINE N == New(e.id, n, e.op = "delete")
    <3>1. /\ Finish(e.id, pending \cup N, clients \cup {x.client : x \in N})
          /\ Responded(e.id)
      BY <1>2, <2>3, Zenon DEF Parameter, Discard
    <3>2. NextCalls(N, e.id, n)
      BY <1>0, <2>1, NewFacts, Zenon
    <3> HIDE DEF N
    <3>3. EventInv /\ CallInv /\ Numbers
      BY DEF ApiInv, Running
    <3>4. e.id \notin DOMAIN groups
      BY <1>0, <3>3 DEF EventInv, Waiting
    <3>5. UNCHANGED <<pending, clients>> /\ groups' = Restrict(groups, DOMAIN groups \ {e.id})
      BY <1>0, <3>1, <3>2, <3>3, <3>4, TakenBack DEF Finish
    <3>6. DOMAIN groups' = DOMAIN groups /\ \A g \in DOMAIN groups : groups'[g] = groups[g]
      BY <3>4, <3>5 DEF Restrict
    <3>7. created' \in created .. MaxClients
      BY <1>0, <2>1, BoundsAssumption
    <3> QED
      BY <1>0, <2>1, <3>1, <3>5, <3>6, <3>7, AnswerEvent
  <2> QED
    BY <2>2, <2>3, Zenon
<1> QED
  BY <1>1, <1>2, Zenon DEF Request

(* An event of the bridge is passed on. *)
LEMMA PassOnStep == ASSUME ApiInv, phase = "events", NEW e \in events, PassOn(e) PROVE ApiInv'
<1>0. EventInv /\ HeaderInv /\ CallInv /\ Numbers
  BY DEF ApiInv, Running
<1>1. UNCHANGED <<groups, pending, clients, created, requests, answers, phase, taken, expired>>
  BY DEF PassOn, Handled, apiVars
<1>2. /\ Waiting' = Waiting
      /\ \A a, b \in events' : a.kind = "request" /\ b.kind = "request" /\ a.id = b.id => a = b
  BY <1>0, HandledFacts DEF PassOn
<1>3. Numbers'
  BY <1>0, <1>1 DEF Numbers
<1>4. EventInv' /\ HeaderInv'
  BY <1>0, <1>1, <1>2 DEF EventInv, HeaderInv
<1>5. CallInv'
  BY <1>0, <1>1, CallSame
<1> QED
  BY <1>3, <1>4, <1>5 DEF ApiInv, Running

-----------------------------------------------------------------------------
(* A group ends with its answer: its calls and their clients go with it. *)
LEMMA EndGroup ==
    ASSUME ApiInv, Running, NEW g \in DOMAIN groups, Finished(g), Responded(g),
           Waiting' = Waiting, UNCHANGED <<phase, taken, created>>,
           \A a, b \in events' : a.kind = "request" /\ b.kind = "request" /\ a.id = b.id => a = b,
           phase # "events" => events' = {},
           expired' \subseteq expired \ {g}, phase = "expire" \/ expired' = {}
    PROVE  ApiInv'
<1>0. EventInv /\ HeaderInv /\ CallInv /\ Numbers
  BY DEF ApiInv, Running
<1>1. g \in requests /\ g \notin Waiting
  BY <1>0 DEF HeaderInv, EventInv
<1>2. DOMAIN groups' = DOMAIN groups \ {g} /\ \A h \in DOMAIN groups' : groups'[h] = groups[h]
  BY DEF Finished, Finish, Restrict
<1>3. Waiting' \cup DOMAIN groups' = (Waiting \cup DOMAIN groups) \ {g}
  BY <1>1, <1>2
<1>4. /\ HeaderInv'
      /\ answers' \in [Requests -> Nat]
      /\ \A q \in Requests : q > taken' => answers'[q] = 0
      /\ requests' \subseteq 1 .. taken'
  BY <1>0, <1>1, <1>3, RespondedFacts
<1>5. pending' = {x \in pending : x.group # g}
  BY DEF Finished, Finish
<1>6. clients' = {x.client : x \in pending'}
  <2>1. clients' = clients \ {x.client : x \in PerRequest(g)}
    BY DEF Finished, Finish, PerRequest
  <2>2. \A x \in pending', y \in PerRequest(g) : x.client # y.client
    BY <1>0, <1>5 DEF CallInv, PerRequest
  <2>3. pending = pending' \cup PerRequest(g)
    BY <1>5 DEF PerRequest
  <2>4. clients = {x.client : x \in pending}
    BY <1>0 DEF CallInv
  <2> QED
    BY <2>1, <2>2, <2>3, <2>4
<1>7. Numbers'
  <2>1. clients' \subseteq 1 .. created' /\ \A x \in pending' : x.client \in 1 .. created'
    BY <1>0, <1>5, <1>6 DEF Numbers
  <2> QED
    BY <1>0, <1>2, <1>4, <2>1 DEF Numbers
<1>8. EventInv'
  BY <1>0, <1>2 DEF EventInv
<1>9. CallInv'
  <2>1. IsFiniteSet(pending')
    BY <1>0, <1>5, FS_Subset DEF CallInv
  <2>2. \A x, y \in pending' : x.client = y.client => x = y
    BY <1>0, <1>5 DEF CallInv
  <2>3. {x.group : x \in pending'} = DOMAIN groups'
    BY <1>0, <1>2, <1>5 DEF CallInv
  <2>4. \A h \in DOMAIN groups' : PerRequest(h)' = PerRequest(h)
    BY <1>2, <1>5 DEF PerRequest
  <2> QED
    BY <1>0, <1>2, <1>6, <2>1, <2>2, <2>3, <2>4 DEF CallInv
<1> QED
  BY <1>4, <1>7, <1>8, <1>9 DEF ApiInv, Running

(* The worker ends: only the numbers are promised from then on. *)
LEMMA WorkerEnds ==
    ASSUME ApiInv, phase' = "ended", UNCHANGED taken, NotResponded,
           DOMAIN groups' \subseteq DOMAIN groups, pending' \subseteq pending,
           clients' \subseteq clients, UNCHANGED created
    PROVE  ApiInv'
BY DEF ApiInv, Numbers, NotResponded

LEMMA NonEmpty == ASSUME NEW S, Cardinality(S) > 0 PROVE S # {}
BY FS_EmptySet

(* One call of a group is answered and the group goes on: the call and its *)
(* client are replaced by the calls in M, of which there are k.            *)
LEMMA NextCall ==
    ASSUME ApiInv, Running, NEW x \in pending, NEW M, NEW k \in {0, 1},
           IsFiniteSet(M), Cardinality(M) = k,
           \A y \in M : y.group = x.group /\ y.client \in created + 1 .. created',
           \A y, z \in M : y.client = z.client => y = z,
           created' \in created .. MaxClients,
           pending' = (pending \ {x}) \cup M,
           clients' = (clients \ {x.client}) \cup {y.client : y \in M},
           DOMAIN groups' = DOMAIN groups,
           \A h \in DOMAIN groups : h # x.group => groups'[h] = groups[h],
           groups'[x.group].remaining = groups[x.group].remaining - 1 + k,
           groups[x.group].remaining - 1 + k > 0, IsGroup(groups'[x.group]),
           Waiting' = Waiting, UNCHANGED <<phase, taken, expired>>, NotResponded,
           \A a, b \in events' : a.kind = "request" /\ b.kind = "request" /\ a.id = b.id => a = b,
           phase # "events" => events' = {}
    PROVE  ApiInv'
<1>0. EventInv /\ HeaderInv /\ CallInv /\ Numbers /\ created \in Nat
  BY DEF ApiInv, Running, Numbers
<1>1. \A y \in pending, z \in M : y.client # z.client /\ y # z
  BY <1>0 DEF Numbers
<1>2. clients' = {y.client : y \in pending'}
  <2>1. clients = {y.client : y \in pending}
    BY <1>0 DEF CallInv
  <2>2. {y.client : y \in pending \ {x}} = clients \ {x.client}
    BY <1>0, <2>1 DEF CallInv
  <2> QED
    BY <2>2
<1>3. Numbers'
  <2>1. created' \in 0 .. MaxClients /\ created' >= created
    BY <1>0, BoundsAssumption
  <2>2. \A y \in pending' : y.client \in 1 .. created'
    BY <1>0, <2>1 DEF Numbers
  <2>3. clients' \subseteq 1 .. created'
    BY <1>2, <2>2
  <2> QED
    BY <1>0, <2>1, <2>2, <2>3 DEF Numbers, NotResponded
<1>4. EventInv' /\ HeaderInv'
  BY <1>0 DEF EventInv, HeaderInv, NotResponded
<1>5. IsFiniteSet(pending')
  <2>1. IsFiniteSet(pending \ {x})
    BY <1>0, FS_RemoveElement DEF CallInv
  <2> QED
    BY <2>1, FS_Union, Zenon
<1>6. \A y, z \in pending' : y.client = z.client => y = z
  BY <1>0, <1>1 DEF CallInv
<1>7. \A h \in DOMAIN groups' : groups'[h].remaining = Cardinality(PerRequest(h)')
  <2>1. \A h \in DOMAIN groups : h # x.group => PerRequest(h)' = PerRequest(h)
    BY DEF PerRequest
  <2>2. PerRequest(x.group)' = (PerRequest(x.group) \ {x}) \cup M
    BY DEF PerRequest
  <2>3. x.group \in DOMAIN groups /\ x \in PerRequest(x.group)
    BY <1>0 DEF CallInv, PerRequest
  <2>4. IsFiniteSet(PerRequest(x.group))
    BY <1>0, FS_Subset DEF CallInv, PerRequest
  <2>5. /\ IsFiniteSet(PerRequest(x.group) \ {x})
        /\ Cardinality(PerRequest(x.group) \ {x}) = Cardinality(PerRequest(x.group)) - 1
        /\ Cardinality(PerRequest(x.group)) \in Nat
    BY <2>3, <2>4, FS_RemoveElement, FS_CardinalityType
  <2>6. (PerRequest(x.group) \ {x}) \cap M = {}
    BY <1>1 DEF PerRequest
  <2>7. Cardinality(PerRequest(x.group)') = Cardinality(PerRequest(x.group)) - 1 + k
    <3> DEFINE A == PerRequest(x.group) \ {x}
    <3>1. Cardinality(A \cup M) = Cardinality(A) + Cardinality(M) - Cardinality(A \cap M)
      BY <2>5, FS_Union, Zenon
    <3>2. Cardinality(A \cap M) = 0
      BY <2>6, FS_EmptySet, Zenon
    <3> QED
      BY <2>2, <2>5, <3>1, <3>2
  <2> QED
    BY <1>0, <2>1, <2>3, <2>7 DEF CallInv
<1>8. {y.group : y \in pending'} = DOMAIN groups'
  <2>1. {y.group : y \in pending} = DOMAIN groups
    BY <1>0 DEF CallInv
  <2>2. \A y \in pending' : y.group \in DOMAIN groups
    BY <2>1
  <2>3. \A h \in DOMAIN groups : h # x.group => \E y \in pending' : y.group = h
    BY <2>1
  <2>4. \E y \in pending' : y.group = x.group
    <3>1. x.group \in DOMAIN groups' /\ Cardinality(PerRequest(x.group)') > 0
      BY <1>7, <2>1
    <3>2. PerRequest(x.group)' # {}
      BY <3>1, NonEmpty, Zenon
    <3> QED
      BY <3>2 DEF PerRequest
  <2>5. \A h \in DOMAIN groups : \E y \in pending' : h = y.group
    BY <2>3, <2>4
  <2>6. {y.group : y \in pending'} = DOMAIN groups
    <3>1. {y.group : y \in pending'} \subseteq DOMAIN groups
      BY <2>2, Zenon
    <3>2. DOMAIN groups \subseteq {y.group : y \in pending'}
      BY <2>5, Zenon
    <3> QED
      BY <3>1, <3>2, Zenon
  <2> QED
    BY <2>6
<1>9. \A h \in DOMAIN groups' : IsGroup(groups'[h])
  BY <1>0 DEF CallInv
<1>10. CallInv'
  BY <1>2, <1>5, <1>6, <1>7, <1>8, <1>9 DEF CallInv
<1> QED
  BY <1>3, <1>4, <1>10 DEF ApiInv, Running

LEMMA ResponseStep == ASSUME ApiInv, phase = "events", NEW e \in events, Response(e) PROVE ApiInv'
<1>0. EventInv /\ HeaderInv /\ CallInv /\ Numbers /\ Running /\ created \in Nat
  BY DEF ApiInv, Running, Numbers
<1>1. e.kind = "response"
  BY DEF Response
<1>2. PICK x \in pending :
        /\ x.client = e.id
        /\ \/ LastResponse(x) /\ Responded(x.group) /\ Handled(e)
           \/ LastResponse(x) /\ NotResponded /\ WorkerFails
           \/ (NamesResponse(x) \/ DeleteCall(x)) /\ NotResponded /\ Handled(e)
           \/ DeleteFails(x) /\ NotResponded /\ WorkerFails
  BY DEF Response
<1>3. x.group \in DOMAIN groups
  BY <1>0 DEF CallInv
<1>4. groups[x.group].remaining \in Nat \ {0}
  <2>1. IsFiniteSet(PerRequest(x.group)) /\ x \in PerRequest(x.group)
    BY <1>0, FS_Subset DEF CallInv, PerRequest
  <2>2. Cardinality(PerRequest(x.group)) \in Nat \ {0}
    BY <2>1, FS_CardinalityType, FS_EmptySet
  <2> QED
    BY <1>0, <1>3, <2>2 DEF CallInv
<1>5. ASSUME Handled(e)
      PROVE  /\ Waiting' = Waiting
             /\ \A a, b \in events' : a.kind = "request" /\ b.kind = "request" /\ a.id = b.id => a = b
             /\ UNCHANGED <<phase, taken, expired>> /\ expired = {}
  BY <1>0, <1>1, <1>5, HandledFacts DEF Handled, EventInv
<1>6. CASE LastResponse(x) /\ Responded(x.group) /\ Handled(e)
  BY <1>0, <1>3, <1>5, <1>6, EndGroup DEF LastResponse
<1>7. CASE LastResponse(x) /\ NotResponded /\ WorkerFails
  <2>1. /\ DOMAIN groups' \subseteq DOMAIN groups /\ pending' \subseteq pending
        /\ clients' \subseteq clients /\ UNCHANGED created
    BY <1>7 DEF LastResponse, Finished, Finish, Restrict
  <2> QED
    BY <1>7, <2>1, WorkerEnds DEF WorkerFails
<1>8. CASE NamesResponse(x) /\ NotResponded /\ Handled(e)
  <2>1. /\ DOMAIN groups' = DOMAIN groups
        /\ \A h \in DOMAIN groups : h # x.group => groups'[h] = groups[h]
        /\ groups'[x.group].remaining = groups[x.group].remaining - 1
        /\ groups[x.group].remaining > 1
        /\ IsGroup(groups'[x.group])
    <3>1. groups[x.group] = [op |-> groups[x.group].op, remaining |-> groups[x.group].remaining]
      BY <1>0, <1>3 DEF CallInv, IsGroup
    <3>2. /\ groups' = [groups EXCEPT ![x.group].remaining = @ - 1]
          /\ groups[x.group].remaining > 1
      BY <1>8 DEF NamesResponse
    <3>3. groups'[x.group] = [op |-> groups[x.group].op, remaining |-> groups[x.group].remaining - 1]
      BY <1>3, <3>1, <3>2
    <3>4. /\ DOMAIN groups' = DOMAIN groups
          /\ \A h \in DOMAIN groups : h # x.group => groups'[h] = groups[h]
      BY <3>2
    <3> QED
      BY <3>2, <3>3, <3>4 DEF IsGroup
  <2>2. pending' = (pending \ {x}) \cup {} /\ created' = created
    BY <1>8 DEF NamesResponse
  <2>3. clients' = (clients \ {x.client}) \cup {y.client : y \in {}}
    BY <1>8 DEF NamesResponse
  <2>4. created' \in created .. MaxClients
    BY <1>0, <2>2, BoundsAssumption DEF Numbers
  <2>5. /\ groups'[x.group].remaining = groups[x.group].remaining - 1 + 0
        /\ groups[x.group].remaining - 1 + 0 > 0
    BY <1>4, <2>1
  <2> QED
    BY <1>0, <1>5, <1>8, <2>1, <2>2, <2>3, <2>4, <2>5, FS_EmptySet, NextCall
<1>9. CASE DeleteCall(x) /\ NotResponded /\ Handled(e)
  <2> DEFINE M == New(x.group, 1, FALSE)
  <2>1. /\ pending' = (pending \ {x}) \cup M
        /\ clients' = (clients \ {x.client}) \cup {created + 1}
        /\ created' = created + 1 /\ created < MaxClients /\ UNCHANGED groups
    BY <1>9, Zenon DEF DeleteCall
  <2>2. /\ \A y \in M : y.group = x.group /\ y.client \in created + 1 .. created + 1
        /\ \A y, z \in M : y.client = z.client => y = z
        /\ {y.client : y \in M} = created + 1 .. created + 1
        /\ IsFiniteSet(M) /\ Cardinality(M) = 1
    <3>1. 1 \in Nat
      OBVIOUS
    <3>2. NextCalls(M, x.group, 1)
      BY <1>0, <3>1, NewFacts, Zenon
    <3> HIDE DEF M
    <3> QED
      BY <3>2 DEF NextCalls
  <2> HIDE DEF M
  <2>3. {y.client : y \in M} = {created + 1}
    BY <1>0, <2>2
  <2>4. created' \in created .. MaxClients
    BY <1>0, <2>1, BoundsAssumption
  <2>5. /\ groups'[x.group].remaining = groups[x.group].remaining - 1 + 1
        /\ groups[x.group].remaining - 1 + 1 > 0
        /\ IsGroup(groups'[x.group])
    BY <1>0, <1>3, <1>4, <2>1 DEF CallInv
  <2>6. \A y \in M : y.group = x.group /\ y.client \in created + 1 .. created'
    BY <2>1, <2>2
  <2>7. clients' = (clients \ {x.client}) \cup {y.client : y \in M}
    BY <2>1, <2>3, Zenon
  <2> QED
    BY <1>0, <1>5, <1>9, <2>1, <2>2, <2>4, <2>5, <2>6, <2>7, NextCall
<1>10. CASE DeleteFails(x) /\ NotResponded /\ WorkerFails
  <2>1. /\ DOMAIN groups' \subseteq DOMAIN groups /\ pending' \subseteq pending
        /\ clients' \subseteq clients /\ UNCHANGED created
    BY <1>10 DEF DeleteFails
  <2> QED
    BY <1>10, <2>1, WorkerEnds DEF WorkerFails
<1> QED
  BY <1>2, <1>6, <1>7, <1>8, <1>9, <1>10

-----------------------------------------------------------------------------
(* A poll takes the next requests; the responses are anybody's. *)
LEMMA PollStep ==
    ASSUME ApiInv, NEW n \in 0 .. MaxBatch, NEW ops, NEW S, Poll(n, ops, S)
    PROVE  ApiInv'
<1> DEFINE new == {[kind |-> "request", id |-> r, op |-> ops[r]] : r \in taken + 1 .. taken + n}
           old == {[kind |-> "response", id |-> c, op |-> "none"] : c \in S}
<1>0. EventInv /\ HeaderInv /\ CallInv /\ Numbers /\ taken \in Nat /\ n \in Nat
  BY BoundsAssumption DEF ApiInv, Running, Numbers, Poll
<1>1. /\ phase = "idle" /\ phase' = "events" /\ taken' = taken + n /\ taken + n <= MaxRequests
      /\ requests' = requests \cup {e.id : e \in new}
      /\ events' = new \cup old
      /\ UNCHANGED <<groups, pending, clients, created, answers, expired>>
  BY DEF Poll
<1>2. \A e \in new : e.kind = "request" /\ e.id \in taken + 1 .. taken + n
  OBVIOUS
<1>3. \A e, f \in new : e.id = f.id => e = f
  OBVIOUS
<1>4. \A r \in taken + 1 .. taken + n : \E e \in new : e.id = r
  <2> SUFFICES ASSUME NEW r \in taken + 1 .. taken + n PROVE \E e \in new : e.id = r
    OBVIOUS
  <2>1. [kind |-> "request", id |-> r, op |-> ops[r]] \in new
    OBVIOUS
  <2> QED
    BY <2>1
<1>5. \A e \in old : e.kind = "response"
  OBVIOUS
<1> HIDE DEF new, old
<1>6. {e.id : e \in new} = taken + 1 .. taken + n
  BY <1>2, <1>4
<1>7. Waiting' = taken + 1 .. taken + n
  <2>1. {x \in events' : x.kind = "request"} = new
    BY <1>1, <1>2, <1>5
  <2> QED
    BY <1>6, <2>1 DEF Waiting
<1>8. Waiting = {} /\ expired = {}
  BY <1>0, <1>1 DEF EventInv, Waiting
<1>9. Numbers'
  <2>1. taken' \in 0 .. MaxRequests
    BY <1>0, <1>1, BoundsAssumption
  <2>2. requests' \subseteq 1 .. taken' /\ DOMAIN groups' \subseteq 1 .. taken'
    <3>1. requests \subseteq 1 .. taken /\ DOMAIN groups \subseteq 1 .. taken
      BY <1>0 DEF Numbers
    <3>2. 1 .. taken \subseteq 1 .. taken' /\ taken + 1 .. taken + n \subseteq 1 .. taken'
      BY <1>0, <1>1
    <3>3. requests' = requests \cup (taken + 1 .. taken + n) /\ UNCHANGED groups
      BY <1>1, <1>6, Zenon
    <3> QED
      BY <3>1, <3>2, <3>3, Zenon
  <2>3. \A r \in Requests : r > taken' => answers'[r] = 0
    BY <1>0, <1>1, BoundsAssumption DEF Numbers, Requests
  <2> QED
    BY <1>0, <1>1, <2>1, <2>2, <2>3 DEF Numbers
<1>10. EventInv'
  <2>1. Waiting' \subseteq 1 .. taken' /\ Waiting' \cap DOMAIN groups' = {}
    BY <1>0, <1>1, <1>7 DEF Numbers
  <2>2. \A e, f \in events' : e.kind = "request" /\ f.kind = "request" /\ e.id = f.id => e = f
    BY <1>1, <1>3, <1>5
  <2> QED
    BY <1>1, <1>8, <2>1, <2>2 DEF EventInv
<1>11. HeaderInv'
  <2>1. requests' = Waiting' \cup DOMAIN groups'
    BY <1>0, <1>1, <1>6, <1>7, <1>8 DEF HeaderInv
  <2>2. \A r \in 1 .. taken' : answers'[r] = IF r \in requests' THEN 0 ELSE 1
    <3> SUFFICES ASSUME NEW r \in 1 .. taken' PROVE answers'[r] = IF r \in requests' THEN 0 ELSE 1
      OBVIOUS
    <3>1. CASE r \in 1 .. taken
      BY <1>0, <1>1, <1>6, <3>1 DEF HeaderInv
    <3>2. CASE r \in taken + 1 .. taken + n
      <4>1. r \in Requests /\ r > taken
        BY <1>0, <1>1, <3>2, BoundsAssumption DEF Requests
      <4> QED
        BY <1>0, <1>1, <1>6, <3>2, <4>1 DEF Numbers
    <3> QED
      BY <1>0, <1>1, <3>1, <3>2
  <2> QED
    BY <2>1, <2>2 DEF HeaderInv
<1>12. CallInv'
  BY <1>0, <1>1, CallSame
<1> QED
  BY <1>9, <1>10, <1>11, <1>12 DEF ApiInv, Running

(* The batch is handled, or the last group has expired. *)
LEMMA PhaseStep ==
    ASSUME ApiInv, (\E S \in SUBSET DOMAIN groups : StartExpiry(S)) \/ EndPoll \/ UNCHANGED rosapiVars
    PROVE  ApiInv'
<1>1. UNCHANGED <<groups, pending, clients, created, requests, answers, events, taken>>
  BY DEF StartExpiry, EndPoll, rosapiVars, apiVars
<1>2. phase' \in {"idle", "events", "expire", "ended"}
  BY DEF ApiInv, Numbers, StartExpiry, EndPoll, rosapiVars
<1>3. Numbers'
  BY <1>1, <1>2 DEF ApiInv, Numbers
<1>4. ASSUME phase' # "ended" PROVE Running'
  <2>1. EventInv /\ HeaderInv /\ CallInv
    BY <1>4 DEF ApiInv, Running, StartExpiry, EndPoll, rosapiVars
  <2>2. HeaderInv' /\ CallInv' /\ Waiting' = Waiting
    BY <1>1, <2>1, CallSame DEF HeaderInv, Waiting
  <2>3. EventInv'
    BY <1>1, <2>1, <2>2 DEF EventInv, StartExpiry, EndPoll, rosapiVars
  <2> QED
    BY <2>2, <2>3 DEF Running
<1> QED
  BY <1>3, <1>4 DEF ApiInv

LEMMA ExpireStep == ASSUME ApiInv, NEW g \in expired, Expire(g) PROVE ApiInv'
<1>0. phase = "expire" /\ Running /\ EventInv /\ Finished(g) /\ UNCHANGED created
  BY DEF Expire, ApiInv, Running
<1>1. g \in DOMAIN groups
  BY <1>0 DEF EventInv
<1>2. CASE Responded(g) /\ expired' = expired \ {g} /\ UNCHANGED <<phase, events, taken>>
  <2>1. Waiting' = Waiting
    BY <1>2 DEF Waiting
  <2>2. /\ events' = {} /\ expired' \subseteq expired \ {g}
        /\ \A a, b \in events' : a.kind = "request" /\ b.kind = "request" /\ a.id = b.id => a = b
    BY <1>0, <1>2 DEF EventInv
  <2> QED
    BY <1>0, <1>1, <1>2, <2>1, <2>2, EndGroup
<1>3. CASE NotResponded /\ WorkerFails
  <2>1. /\ DOMAIN groups' \subseteq DOMAIN groups /\ pending' \subseteq pending
        /\ clients' \subseteq clients
    BY <1>0 DEF Finished, Finish, Restrict
  <2> QED
    BY <1>0, <1>3, <2>1, WorkerEnds DEF WorkerFails
<1> QED
  BY <1>2, <1>3 DEF Expire

LEMMA NextApi == ApiInv /\ [RosapiNext]_rosapiVars => ApiInv'
<1> SUFFICES ASSUME ApiInv, [RosapiNext]_rosapiVars PROVE ApiInv'
  OBVIOUS
<1>1. CASE Take
  BY <1>1, PollStep, Zenon DEF Take
<1>2. CASE PollFails
  BY <1>2, WorkerEnds DEF PollFails, apiVars, NotResponded
<1>3. CASE HandleEvent
  BY <1>3, RequestStep, PassOnStep, ResponseStep, Zenon DEF HandleEvent
<1>4. CASE (\E S \in SUBSET DOMAIN groups : StartExpiry(S)) \/ EndPoll \/ UNCHANGED rosapiVars
  BY <1>4, PhaseStep
<1>5. CASE Expiry
  BY <1>5, ExpireStep, Zenon DEF Expiry
<1> QED
  BY <1>1, <1>2, <1>3, <1>4, <1>5, Zenon DEF RosapiNext

(* Every request that was taken is answered or discarded exactly once, for *)
(* any number of requests, nodes and events.                               *)
THEOREM HeadersAreTracked == RosapiSpec => []HeadersTracked
<1>1. ApiInv => HeadersTracked
  BY InvImplies
<1> QED
  BY <1>1, InitApi, NextApi, PTL DEF RosapiSpec

(* While the worker runs no response can miss its group and no ROS client  *)
(* is left without a call, for any number of them.                         *)
THEOREM GroupsAreMatched == RosapiSpec => []GroupsMatchCalls
<1>1. ApiInv => GroupsMatchCalls
  BY InvImplies
<1> QED
  BY <1>1, InitApi, NextApi, PTL DEF RosapiSpec

-----------------------------------------------------------------------------
(***************************************************************************)
(* LogFile: the log directory that the server's processes share.  A        *)
(* process claims the `.logging' names it made; claims never meet.         *)
(***************************************************************************)

(* The `.logging' file at path is the process's own: of its LogFile, or of *)
(* the one that rotate keeps until the new one is archived.                *)
Owning(r) ==
    \/ r.pc \in {"idle", "link", "unlink", "abort", "write"}
    \/ r.op = "rotate" /\ r.pc \in {"create", "check", "unprobe"}
    \/ r.op # "drop" /\ r.pc \in {"list", "prune"}

(* The `.logging' file at stem is the one that create has just made. *)
Probing(r) ==
    r.pc \in {"check", "unprobe"} \/ (r.op = "rotate" /\ r.pc \in {"link", "unlink", "abort"})

Claims(r) == (IF Owning(r) THEN {r.path} ELSE {}) \cup (IF Probing(r) THEN {r.stem} ELSE {})

LogFiles ==
    [pc : Steps, op : {"new", "rotate", "drop"}, path : Stems, file : 0 .. MaxStamp,
     period : {Period(t) : t \in 0 .. MaxTime} \cup {0}, stem : Stems, fresh : 0 .. MaxStamp,
     todo : Seq(Stems \X {"log"})]

Clock == stamp \in 0 .. MaxStamp /\ time \in 0 .. MaxTime /\ faults \in 0 .. MaxFaults

(* Files are numbered by the stamp of their creation, an index is smaller  *)
(* than the number of files, and an active file has one active name.       *)
FilesOK(d, L, n) ==
    /\ DOMAIN d \subseteq Stems \X {"logging", "log"} /\ DOMAIN L \subseteq 1 .. n
    /\ \A x \in DOMAIN d : d[x] \in DOMAIN L /\ x[1][2] < n
    /\ \A f \in DOMAIN L : L[f] \subseteq 1 .. n
    /\ \A s, t \in Stems : {Active(s), Active(t)} \subseteq DOMAIN d /\ d[Active(s)] = d[Active(t)]
                             => s = t

(* What a process relies on, z being the number of faults so far. *)
ProcType(n, r) ==
    /\ r \in LogFiles /\ r.stem[2] <= n
    /\ r.op = "new" => r.pc \notin {"link", "unlink", "abort", "write"}
    /\ r.op = "drop" => r.pc \in {"link", "unlink", "list", "prune"}

Holds(d, L, r) ==
    /\ Owning(r) => Active(r.path) \in DOMAIN d /\ d[Active(r.path)] = r.file
    /\ Probing(r) => Active(r.stem) \in DOMAIN d /\ d[Active(r.stem)] = r.fresh /\ L[r.fresh] = {}
    /\ Owning(r) /\ Probing(r) => r.path # r.stem

Moving(d, L, R, r) ==
    r.pc = "unlink" => \/ Archive(r.path) \in DOMAIN d /\ d[Archive(r.path)] = r.file
                       \/ L[r.file] \subseteq R

Free(d, z, r) ==
    /\ r.op = "rotate" /\ r.pc \in {"link", "unlink", "abort"} => Archive(r.stem) \notin DOMAIN d
    /\ z = 0 /\ Owning(r) => r.pc # "abort" /\ (r.pc # "unlink" => Archive(r.path) \notin DOMAIN d)

ProcOK(d, L, R, n, z, r) ==
    ProcType(n, r) /\ Holds(d, L, r) /\ Moving(d, L, R, r) /\ Free(d, z, r)

Found(d, L, A, R) == \A l \in A \ R : \E x \in DOMAIN d : l \in L[d[x]]

Global ==
    /\ stamp \in 0 .. MaxStamp /\ time \in 0 .. MaxTime /\ faults \in 0 .. MaxFaults
    /\ accepted \cup retired \subseteq 1 .. stamp /\ archived \subseteq Stems \X Files
    /\ FilesOK(dir, lines, stamp)
    /\ Found(dir, lines, accepted, retired)

LogInv ==
    /\ Global
    /\ DOMAIN proc = Process
    /\ \A p \in Process : ProcOK(dir, lines, retired, stamp, faults, proc[p])
    /\ \A p, q \in Process : p # q => Claims(proc[p]) \cap Claims(proc[q]) = {}

--------------------------------------------------------------------------------
(* A name determines its stem and its extension. *)
LEMMA Names ==
    \A s, t : /\ Active(s) # Archive(t) /\ (Active(s) = Active(t) => s = t)
              /\ (Archive(s) = Archive(t) => s = t)
              /\ Active(s)[1] = s /\ Active(s)[2] = "logging" /\ Archive(s)[1] = s /\ Archive(s)[2] = "log"
  BY DEF Active, Archive

(* The parts of a stem, and the next index. *)
LEMMA Stemmed ==
    ASSUME NEW s \in Stems
    PROVE  /\ s[1] \in 0 .. MaxTime /\ s[2] \in 0 .. MaxStamp /\ s[2] \in Nat
           /\ s[2] < MaxStamp => NextIndex(s) \in Stems
           /\ NextIndex(s)[2] = s[2] + 1
  BY LogBounds DEF Stems, NextIndex

(* A process without a LogFile claims nothing. *)
LEMMA OffOK ==
    ASSUME NEW d, NEW L, NEW R, NEW n \in Nat, NEW z
    PROVE  ProcOK(d, L, R, n, z, Off) /\ Claims(Off) = {}
<1>1. Off \in LogFiles
  <2>1. <<0, 0>> \in Stems
    BY LogBounds DEF Stems
  <2>2. <<>> \in Seq(Stems \X {"log"})
    OBVIOUS
  <2> QED BY <2>1, <2>2, LogBounds DEF Off, LogFiles, Steps
<1>2. Off.pc = "off" /\ Off.op = "new" /\ Off.stem[2] = 0
  BY DEF Off
<1>3. ~Owning(Off) /\ ~Probing(Off)
  BY <1>2 DEF Owning, Probing
<1> QED BY <1>1, <1>2, <1>3 DEF ProcOK, ProcType, Holds, Moving, Free, Claims

(* The empty directory. *)
LEMMA InitLog == LogInit => LogInv
<1> SUFFICES ASSUME LogInit PROVE LogInv
  OBVIOUS
<1>1. DOMAIN dir = {} /\ DOMAIN lines = {} /\ stamp = 0 /\ time = 0 /\ faults = 0
      /\ accepted = {} /\ archived = {} /\ retired = {} /\ proc = [p \in Process |-> Off]
  BY DEF LogInit
<1>2. Global
  BY <1>1, LogBounds DEF Global, FilesOK, Found
<1>3. ProcOK(dir, lines, retired, stamp, faults, Off) /\ Claims(Off) = {}
  BY <1>1, OffOK
<1> QED BY <1>1, <1>2, <1>3 DEF LogInv

(* What another process relies on is kept by a step that keeps the files   *)
(* of its claims, and their archives or else retires their lines.          *)
Kept(d, L, R, d2, L2, R2, r) ==
    /\ R \subseteq R2
    /\ \A s \in Claims(r) : /\ Active(s) \in DOMAIN d2 /\ d2[Active(s)] = d[Active(s)]
                            /\ L2[d[Active(s)]] = L[d[Active(s)]]
                            /\ Archive(s) \in DOMAIN d2 => Archive(s) \in DOMAIN d
                            /\ Archive(s) \in DOMAIN d =>
                                  \/ Archive(s) \in DOMAIN d2 /\ d2[Archive(s)] = d[Archive(s)]
                                  \/ L[d[Archive(s)]] \subseteq R2

LEMMA Others ==
    ASSUME NEW d, NEW L, NEW R, NEW n \in Nat, NEW z, NEW d2, NEW L2, NEW R2, NEW n2 \in Nat, NEW r,
           ProcOK(d, L, R, n, z, r), n <= n2, Kept(d, L, R, d2, L2, R2, r)
    PROVE  ProcOK(d2, L2, R2, n2, z, r)
<1>1. ProcType(n2, r)
  <2>1. r \in LogFiles /\ r.stem[2] <= n
    BY DEF ProcOK, ProcType
  <2>2. r.stem[2] \in Nat
    BY <2>1, Stemmed DEF LogFiles
  <2> QED BY <2>1, <2>2 DEF ProcOK, ProcType
<1>2. (Owning(r) => r.path \in Claims(r)) /\ (Probing(r) => r.stem \in Claims(r))
  BY DEF Claims
<1>3. Holds(d2, L2, r)
  BY <1>2 DEF ProcOK, Holds, Kept
<1>4. r.pc = "unlink" => Owning(r)
  BY DEF Owning
<1>5. Moving(d2, L2, R2, r)
  <2> SUFFICES ASSUME r.pc = "unlink"
               PROVE  \/ Archive(r.path) \in DOMAIN d2 /\ d2[Archive(r.path)] = r.file
                      \/ L2[r.file] \subseteq R2
    BY DEF Moving
  <2>1. d[Active(r.path)] = r.file /\ r.path \in Claims(r)
    BY <1>2, <1>4 DEF ProcOK, Holds
  <2>2. L2[r.file] = L[r.file]
    BY <2>1 DEF Kept
  <2> QED BY <2>1, <2>2 DEF Kept, ProcOK, Moving
<1>6. Free(d2, z, r)
  <2>1. r.op = "rotate" /\ r.pc \in {"link", "unlink", "abort"} => Probing(r)
    BY DEF Probing
  <2> QED BY <1>2, <2>1 DEF Kept, ProcOK, Free
<1> QED BY <1>1, <1>3, <1>5, <1>6 DEF ProcOK

(* The invariant from its parts, after a step of p. *)
LEMMA Assemble ==
    ASSUME LogInv, NEW p \in Process, NEW r, proc' = [proc EXCEPT ![p] = r],
           Global', ProcOK(dir', lines', retired', stamp', faults', r),
           faults' = faults,
           \A q \in Process \ {p} : /\ Kept(dir, lines, retired, dir', lines', retired', proc[q])
                                    /\ Claims(r) \cap Claims(proc[q]) = {},
           stamp <= stamp'
    PROVE  LogInv'
<1>1. DOMAIN proc' = Process /\ proc'[p] = r /\ \A q \in Process \ {p} : proc'[q] = proc[q]
  BY DEF LogInv
<1>2. stamp \in Nat /\ stamp' \in Nat
  BY LogBounds DEF LogInv, Global
<1>3. ASSUME NEW q \in Process PROVE ProcOK(dir', lines', retired', stamp', faults', proc'[q])
  <2>1. CASE q = p
    BY <1>1, <2>1
  <2>2. CASE q # p
    <3>1. ProcOK(dir, lines, retired, stamp, faults, proc[q])
      BY DEF LogInv
    <3>2. Kept(dir, lines, retired, dir', lines', retired', proc[q])
      BY <2>2
    <3>3. ProcOK(dir', lines', retired', stamp', faults, proc[q])
      BY <1>2, <3>1, <3>2, Others
    <3> QED BY <1>1, <2>2, <3>3
  <2> QED BY <2>1, <2>2
<1>4. ASSUME NEW a \in Process, NEW b \in Process, a # b PROVE Claims(proc'[a]) \cap Claims(proc'[b]) = {}
  <2>1. CASE a = p
    BY <1>1, <1>4, <2>1
  <2>2. CASE b = p
    BY <1>1, <1>4, <2>2
  <2>3. CASE a # p /\ b # p
    BY <1>1, <1>4, <2>3 DEF LogInv
  <2> QED BY <2>1, <2>2, <2>3
<1> QED BY <1>1, <1>3, <1>4 DEF LogInv

(* A step that leaves the directory alone. *)
LEMMA Quiet ==
    ASSUME LogInv, NEW p \in Process, NEW r, proc' = [proc EXCEPT ![p] = r],
           UNCHANGED disk, time' \in 0 .. MaxTime, faults' \in 0 .. MaxFaults, faults' = 0 => faults = 0,
           ProcOK(dir, lines, retired, stamp, faults', r), Claims(r) \subseteq Claims(proc[p])
    PROVE  LogInv'
<1>1. DOMAIN proc' = Process /\ proc'[p] = r /\ \A q \in Process \ {p} : proc'[q] = proc[q]
  BY DEF LogInv
<1>2. dir' = dir /\ lines' = lines /\ stamp' = stamp /\ retired' = retired /\ accepted' = accepted /\ archived' = archived
  BY DEF disk
<1>3. Global'
  BY <1>2 DEF LogInv, Global
<1>4. ASSUME NEW q \in Process PROVE ProcOK(dir', lines', retired', stamp', faults', proc'[q])
  <2>1. ProcOK(dir, lines, retired, stamp, faults, proc[q])
    BY DEF LogInv
  <2>2. ProcOK(dir, lines, retired, stamp, faults', proc[q])
    BY <2>1 DEF ProcOK, Free
  <2> QED BY <1>1, <1>2, <2>2
<1>5. ASSUME NEW a \in Process, NEW b \in Process, a # b PROVE Claims(proc'[a]) \cap Claims(proc'[b]) = {}
  BY <1>1, <1>5 DEF LogInv
<1> QED BY <1>1, <1>3, <1>4, <1>5 DEF LogInv

--------------------------------------------------------------------------------
(* The steps that leave the directory alone. *)
(* What the invariant says of one process. *)
LEMMA ProcFacts ==
    ASSUME LogInv, NEW p \in Process
    PROVE  /\ ProcOK(dir, lines, retired, stamp, faults, proc[p])
           /\ proc[p] \in LogFiles /\ proc[p].stem \in Stems /\ proc[p].path \in Stems
           /\ time \in 0 .. MaxTime /\ stamp \in 0 .. MaxStamp /\ faults \in 0 .. MaxFaults
           /\ stamp \in Nat /\ faults \in Nat
  BY LogBounds DEF LogInv, Global, ProcOK, ProcType, LogFiles

(* The fields that Creating, Idle and Switched set or keep. *)
LEMMA CreatingOK ==
    ASSUME NEW r \in LogFiles, NEW op \in {"new", "rotate"}, time \in 0 .. MaxTime
    PROVE  /\ Creating(r, op) \in LogFiles /\ Creating(r, op).pc = "create" /\ Creating(r, op).op = op
           /\ Creating(r, op).path = r.path /\ Creating(r, op).file = r.file
           /\ Creating(r, op).stem = <<time, 0>> /\ Creating(r, op).stem[2] = 0
           /\ Creating(r, op).period = r.period /\ Creating(r, op).todo = r.todo
<1>1. <<time, 0>> \in Stems
  BY LogBounds DEF Stems
<1> QED BY <1>1 DEF Creating, LogFiles, Steps

LEMMA IdleOK ==
    ASSUME NEW r \in LogFiles
    PROVE  /\ Idle(r) \in LogFiles /\ Idle(r).pc = "idle" /\ Idle(r).op = r.op /\ Idle(r).path = r.path
           /\ Idle(r).file = r.file /\ Idle(r).stem = r.path /\ Idle(r).period = r.period /\ Idle(r).todo = <<>>
<1>1. <<>> \in Seq(Stems \X {"log"})
  OBVIOUS
<1> QED BY <1>1 DEF Idle, LogFiles, Steps

LEMMA SwitchedOK ==
    ASSUME NEW r \in LogFiles
    PROVE  /\ Switched(r) \in LogFiles /\ Switched(r).pc = "list" /\ Switched(r).op = r.op
           /\ Switched(r).path = r.stem /\ Switched(r).file = r.fresh /\ Switched(r).stem = r.stem
           /\ Switched(r).period = Period(r.stem[1]) /\ Switched(r).todo = r.todo
<1>1. r.stem[1] \in 0 .. MaxTime
  BY Stemmed DEF LogFiles
<1> QED BY <1>1 DEF Switched, LogFiles, Steps

LEMMA NewStep == ASSUME LogInv, NEW p \in Process, NewLog(p) PROVE LogInv'
<1> DEFINE r == proc[p] s == Creating(r, "new")
<1>1. r.pc = "off" /\ proc' = [proc EXCEPT ![p] = s] /\ UNCHANGED <<disk, time, faults>>
  BY DEF NewLog, Step
<1>2. s \in LogFiles /\ s.pc = "create" /\ s.op = "new" /\ s.stem[2] = 0
  BY ProcFacts, CreatingOK
<1> HIDE DEF s
<1>3. ~Owning(s) /\ ~Probing(s)
  BY <1>2 DEF Owning, Probing
<1>4. ProcOK(dir, lines, retired, stamp, faults, s)
  BY <1>2, <1>3, ProcFacts DEF ProcOK, ProcType, Holds, Moving, Free
<1> QED BY <1>1, <1>3, <1>4, ProcFacts, Quiet DEF Claims

LEMMA RotateStep == ASSUME LogInv, NEW p \in Process, Rotate(p) PROVE LogInv'
<1> DEFINE r == proc[p] s == Creating(r, "rotate")
<1>1. r.pc = "idle" /\ proc' = [proc EXCEPT ![p] = s] /\ UNCHANGED <<disk, time, faults>>
  BY DEF Rotate, Step
<1>2. /\ s \in LogFiles /\ s.pc = "create" /\ s.op = "rotate" /\ s.stem[2] = 0
      /\ s.path = r.path /\ s.file = r.file
  BY ProcFacts, CreatingOK
<1> HIDE DEF s
<1>3. Owning(r) /\ Owning(s) /\ ~Probing(s)
  BY <1>1, <1>2 DEF Owning, Probing
<1>4. ProcOK(dir, lines, retired, stamp, faults, s)
  BY <1>1, <1>2, <1>3, ProcFacts DEF ProcOK, ProcType, Holds, Moving, Free
<1>5. Claims(s) \subseteq Claims(r)
  BY <1>2, <1>3 DEF Claims
<1> QED BY <1>1, <1>4, <1>5, ProcFacts, Quiet

LEMMA NameTakenStep == ASSUME LogInv, NEW p \in Process, NameTaken(p) PROVE LogInv'
<1> DEFINE r == proc[p] s == [r EXCEPT !.stem = NextIndex(@)]
<1>1. /\ r.pc = "create" /\ proc' = [proc EXCEPT ![p] = s] /\ UNCHANGED <<disk, time, faults>>
      /\ Active(r.stem) \in DOMAIN dir
  BY DEF NameTaken, Step, Creatable
<1>2. r.stem[2] < stamp
  BY <1>1, Names DEF LogInv, Global, FilesOK
<1>3. NextIndex(r.stem) \in Stems /\ NextIndex(r.stem)[2] <= stamp
  <2>1. r.stem \in Stems /\ stamp \in Nat /\ stamp <= MaxStamp
    BY ProcFacts
  <2>2. r.stem[2] \in Nat /\ r.stem[2] < MaxStamp
    BY <1>2, <2>1, LogBounds, Stemmed
  <2> QED BY <1>2, <2>1, <2>2, Stemmed
<1>4. /\ s \in LogFiles /\ s.pc = r.pc /\ s.op = r.op /\ s.stem[2] <= stamp
      /\ s.path = r.path /\ s.file = r.file
  BY <1>3, ProcFacts DEF LogFiles
<1> HIDE DEF s
<1>5. (Owning(s) <=> Owning(r)) /\ ~Probing(s)
  BY <1>1, <1>4 DEF Owning, Probing
<1>6. ProcOK(dir, lines, retired, stamp, faults, s)
  BY <1>1, <1>4, <1>5, ProcFacts DEF ProcOK, ProcType, Holds, Moving, Free
<1>7. Claims(s) \subseteq Claims(r)
  BY <1>4, <1>5 DEF Claims
<1> QED BY <1>1, <1>6, <1>7, ProcFacts, Quiet

LEMMA CheckStep == ASSUME LogInv, NEW p \in Process, CheckArchive(p) PROVE LogInv'
<1> DEFINE r == proc[p]
<1>1. r.pc = "check" /\ UNCHANGED <<disk, time, faults>>
  BY DEF CheckArchive, Step
<1>2. PICK s : /\ proc' = [proc EXCEPT ![p] = s]
               /\ s = IF ArchiveTaken(r.stem) THEN [r EXCEPT !.pc = "unprobe"]
                      ELSE IF r.op = "new" THEN Switched(r) ELSE [r EXCEPT !.pc = "link"]
  BY DEF CheckArchive, Step
<1>3. Probing(r) /\ r.op \in {"new", "rotate"} /\ (Owning(r) <=> r.op = "rotate")
  BY <1>1, ProcFacts DEF ProcOK, ProcType, LogFiles, Owning, Probing
<1>4. CASE ArchiveTaken(r.stem)
  <2>1. /\ s \in LogFiles /\ s.pc = "unprobe" /\ s.op = r.op /\ s.path = r.path /\ s.file = r.file
        /\ s.stem = r.stem /\ s.fresh = r.fresh
    BY <1>2, <1>4, ProcFacts DEF LogFiles, Steps
  <2>2. Probing(s) /\ (Owning(s) <=> Owning(r))
    BY <1>1, <2>1 DEF Owning, Probing
  <2>3. ProcOK(dir, lines, retired, stamp, faults, s)
    BY <1>1, <1>3, <2>1, <2>2, ProcFacts DEF ProcOK, ProcType, Holds, Moving, Free
  <2>4. Claims(s) \subseteq Claims(r)
    BY <1>3, <2>1, <2>2 DEF Claims
  <2> QED BY <1>1, <1>2, <2>3, <2>4, ProcFacts, Quiet
<1>5. CASE ~ArchiveTaken(r.stem) /\ r.op = "new"
  <2>1. /\ s \in LogFiles /\ s.pc = "list" /\ s.op = "new" /\ s.path = r.stem /\ s.file = r.fresh
        /\ s.stem = r.stem
    BY <1>2, <1>5, ProcFacts, SwitchedOK
  <2>2. Owning(s) /\ ~Probing(s)
    BY <2>1 DEF Owning, Probing
  <2>3. ProcOK(dir, lines, retired, stamp, faults, s)
    BY <1>1, <1>3, <1>5, <2>1, <2>2, ProcFacts DEF ProcOK, ProcType, Holds, Moving, Free, ArchiveTaken
  <2>4. Claims(s) \subseteq Claims(r)
    BY <1>3, <2>1, <2>2 DEF Claims
  <2> QED BY <1>1, <1>2, <2>3, <2>4, ProcFacts, Quiet
<1>6. CASE ~ArchiveTaken(r.stem) /\ r.op # "new"
  <2>1. /\ s \in LogFiles /\ s.pc = "link" /\ s.op = r.op /\ s.path = r.path /\ s.file = r.file
        /\ s.stem = r.stem /\ s.fresh = r.fresh
    BY <1>2, <1>6, ProcFacts DEF LogFiles, Steps
  <2>2. Owning(s) /\ Probing(s)
    BY <1>3, <1>6, <2>1 DEF Owning, Probing
  <2>3. ProcOK(dir, lines, retired, stamp, faults, s)
    BY <1>1, <1>3, <1>6, <2>1, <2>2, ProcFacts DEF ProcOK, ProcType, Holds, Moving, Free, ArchiveTaken
  <2>4. Claims(s) \subseteq Claims(r)
    BY <1>3, <1>6, <2>1, <2>2 DEF Claims
  <2> QED BY <1>1, <1>2, <2>3, <2>4, ProcFacts, Quiet
<1> QED BY <1>4, <1>5, <1>6

(* A process that keeps its LogFile and nothing else. *)
LEMMA StayOK ==
    ASSUME LogInv, NEW p \in Process, NEW z, z = 0 => faults = 0, NEW s,
           Owning(proc[p]), proc[p].pc # "unlink", ProcType(stamp, s),
           s.path = proc[p].path, s.file = proc[p].file, Owning(s), ~Probing(s), s.pc \notin {"unlink", "abort"}
    PROVE  ProcOK(dir, lines, retired, stamp, z, s) /\ Claims(s) \subseteq Claims(proc[p])
<1>1. s.op = "rotate" => s.pc \notin {"link", "unlink", "abort"}
  BY DEF Probing
<1>2. Holds(dir, lines, s) /\ Moving(dir, lines, retired, s) /\ Free(dir, z, s)
  BY <1>1, ProcFacts DEF ProcOK, Holds, Moving, Free
<1> QED BY <1>2 DEF ProcOK, Claims

(* The index of the process's own file is one that was used. *)
LEMMA OwnedIndex ==
    ASSUME LogInv, NEW p \in Process, Owning(proc[p])
    PROVE  proc[p].path[2] <= stamp
<1>1. Active(proc[p].path) \in DOMAIN dir
  BY ProcFacts DEF ProcOK, Holds
<1>2. proc[p].path[2] < stamp
  BY <1>1, Names DEF LogInv, Global, FilesOK
<1> QED BY <1>2, ProcFacts, Stemmed

(* Going back to idle keeps the LogFile. *)
LEMMA IdleStays ==
    ASSUME LogInv, NEW p \in Process, NEW z, z = 0 => faults = 0,
           Owning(proc[p]), proc[p].pc # "unlink", proc[p].op # "drop"
    PROVE  LET s == Idle(proc[p]) IN
           ProcOK(dir, lines, retired, stamp, z, s) /\ Claims(s) \subseteq Claims(proc[p])
<1> DEFINE s == Idle(proc[p])
<1>1. /\ s \in LogFiles /\ s.pc = "idle" /\ s.op = proc[p].op /\ s.path = proc[p].path
      /\ s.file = proc[p].file /\ s.stem = proc[p].path
  BY ProcFacts, IdleOK
<1> HIDE DEF s
<1>2. Owning(s) /\ ~Probing(s)
  BY <1>1 DEF Owning, Probing
<1>3. ProcType(stamp, s)
  BY <1>1, OwnedIndex DEF ProcType
<1>4. ProcOK(dir, lines, retired, stamp, z, s) /\ Claims(s) \subseteq Claims(proc[p])
  BY <1>1, <1>2, <1>3, StayOK
<1> QED BY <1>4 DEF s

(* prune finds finitely many archives. *)
LEMMA ExcessFinite ==
    ASSUME LogInv
    PROVE  Excess(Archives) \subseteq Stems \X {"log"} /\ Cardinality(Excess(Archives)) \in Nat
<1>1. Excess(Archives) \subseteq Stems \X {"log"}
  BY DEF Excess, Archives, LogInv, Global, FilesOK
<1>2. Cardinality(Excess(Archives)) \in Nat
  <2>1. IsFiniteSet(Stems) /\ IsFiniteSet({"log"})
    <3>1. 0 \in Int /\ MaxTime \in Int /\ MaxStamp \in Int
      BY LogBounds
    <3>2. IsFiniteSet(0 .. MaxTime) /\ IsFiniteSet(0 .. MaxStamp)
      BY <3>1, FS_Interval
    <3> QED BY <3>2, FS_Product, FS_Singleton DEF Stems
  <2>2. IsFiniteSet(Stems \X {"log"})
    BY <2>1, FS_Product
  <2> QED BY <1>1, <2>2, FS_Subset, FS_CardinalityType
<1> QED BY <1>1, <1>2

LEMMA ListStep == ASSUME LogInv, NEW p \in Process, List(p) PROVE LogInv'
<1> DEFINE r == proc[p] E == Excess(Archives)
<1>1. PICK t \in [1 .. Cardinality(E) -> E] : Step(p, "list", [r EXCEPT !.pc = "prune", !.todo = t])
  BY DEF List
<1>2. UNCHANGED <<disk, time, faults>>
  BY DEF List
<1>3. E \subseteq Stems \X {"log"} /\ Cardinality(E) \in Nat
  BY ExcessFinite
<1> HIDE DEF E
<1>5. t \in Seq(Stems \X {"log"})
  BY <1>3
<1>6. PICK s : s = [r EXCEPT !.pc = "prune", !.todo = t]
  OBVIOUS
<1>7. /\ s \in LogFiles /\ s.pc = "prune" /\ s.op = r.op /\ s.path = r.path /\ s.file = r.file
      /\ s.stem = r.stem /\ s.fresh = r.fresh
  BY <1>5, <1>6, ProcFacts DEF LogFiles, Steps
<1>8. r.pc = "list" /\ proc' = [proc EXCEPT ![p] = s]
  BY <1>1, <1>6 DEF Step
<1>9. ~Probing(s) /\ ~Probing(r) /\ (Owning(s) <=> Owning(r))
  BY <1>7, <1>8 DEF Owning, Probing
<1>10. ProcOK(dir, lines, retired, stamp, faults, s)
  BY <1>7, <1>8, <1>9, ProcFacts DEF ProcOK, ProcType, Holds, Moving, Free
<1>11. Claims(s) \subseteq Claims(r)
  BY <1>7, <1>9 DEF Claims
<1> QED BY <1>2, <1>8, <1>10, <1>11, ProcFacts, Quiet

LEMMA PrunedStep == ASSUME LogInv, NEW p \in Process, Pruned(p) PROVE LogInv'
<1> DEFINE r == proc[p]
<1>1. r.pc = "prune" /\ UNCHANGED <<disk, time, faults>>
  BY DEF Pruned, Step
<1>2. PICK s : /\ proc' = [proc EXCEPT ![p] = s]
               /\ s = CASE r.op = "new" -> Idle(r)
                        [] r.op = "rotate" -> [r EXCEPT !.pc = "write"]
                        [] r.op = "drop" -> Off
  BY DEF Pruned, Step
<1>3. r.op \in {"new", "rotate", "drop"}
  BY ProcFacts DEF LogFiles
<1>4. CASE r.op = "new"
  <2>1. s = Idle(r) /\ Owning(r)
    BY <1>1, <1>2, <1>4 DEF Owning
  <2> QED BY <1>1, <1>2, <1>4, <2>1, ProcFacts, IdleStays, Quiet
<1>5. CASE r.op = "rotate"
  <2>1. s = [r EXCEPT !.pc = "write"] /\ Owning(r)
    BY <1>1, <1>2, <1>5 DEF Owning
  <2>2. /\ s \in LogFiles /\ s.pc = "write" /\ s.op = r.op /\ s.path = r.path /\ s.file = r.file
        /\ s.stem = r.stem
    BY <2>1, ProcFacts DEF LogFiles, Steps
  <2>3. Owning(s) /\ ~Probing(s) /\ ProcType(stamp, s)
    BY <1>5, <2>2, ProcFacts DEF Owning, Probing, ProcOK, ProcType
  <2>4. ProcOK(dir, lines, retired, stamp, faults, s) /\ Claims(s) \subseteq Claims(r)
    BY <1>1, <2>1, <2>2, <2>3, StayOK
  <2> QED BY <1>1, <1>2, <2>4, ProcFacts, Quiet
<1>6. CASE r.op = "drop"
  BY <1>1, <1>2, <1>6, ProcFacts, OffOK, Quiet
<1> QED BY <1>3, <1>4, <1>5, <1>6

LEMMA DropStep == ASSUME LogInv, NEW p \in Process, Drop(p) PROVE LogInv'
<1> DEFINE r == proc[p]
<1>1. PICK s : s = [r EXCEPT !.pc = "link", !.op = "drop"]
  OBVIOUS
<1>2. r.pc = "idle" /\ UNCHANGED <<disk, time, faults>> /\ proc' = [proc EXCEPT ![p] = s]
  BY <1>1 DEF Drop, Step
<1>3. /\ s \in LogFiles /\ s.pc = "link" /\ s.op = "drop" /\ s.path = r.path /\ s.file = r.file
      /\ s.stem = r.stem
  BY <1>1, ProcFacts DEF LogFiles, Steps
<1>4. Owning(r) /\ Owning(s) /\ ~Probing(s) /\ ProcType(stamp, s)
  BY <1>2, <1>3, ProcFacts DEF Owning, Probing, ProcOK, ProcType
<1>5. ProcOK(dir, lines, retired, stamp, faults, s) /\ Claims(s) \subseteq Claims(r)
  BY <1>2, <1>3, <1>4, StayOK
<1> QED BY <1>2, <1>5, ProcFacts, Quiet

(* Where an error leaves a process. *)
LEMMA FailedOK ==
    ASSUME LogInv, NEW p \in Process, NEW z, z = 0 => faults = 0,
           proc[p].pc \in {"create", "unprobe", "link", "unlink", "list", "prune"},
           proc[p].pc \in {"link", "unlink"} => z # 0
    PROVE  LET s == Failed(proc[p]) IN
           ProcOK(dir, lines, retired, stamp, z, s) /\ Claims(s) \subseteq Claims(proc[p])
<1> DEFINE r == proc[p]
<1>1. PICK s : s = Failed(r)
  OBVIOUS
<1>2. r.op \in {"new", "rotate", "drop"}
  BY ProcFacts DEF LogFiles
<1>3. CASE r.op = "rotate" /\ r.pc \in {"link", "unlink"}
  <2>1. s = [r EXCEPT !.pc = "abort"]
    BY <1>1, <1>3 DEF Failed
  <2>2. /\ s \in LogFiles /\ s.pc = "abort" /\ s.op = r.op /\ s.path = r.path /\ s.file = r.file
        /\ s.stem = r.stem /\ s.fresh = r.fresh
    BY <2>1, ProcFacts DEF LogFiles, Steps
  <2>3. Owning(r) /\ Probing(r) /\ Owning(s) /\ Probing(s)
    BY <1>3, <2>2 DEF Owning, Probing
  <2>4. ProcOK(dir, lines, retired, stamp, z, s)
    BY <1>3, <2>2, <2>3, ProcFacts DEF ProcOK, ProcType, Holds, Moving, Free
  <2>5. Claims(s) \subseteq Claims(r)
    BY <2>2, <2>3 DEF Claims
  <2> QED BY <1>1, <2>4, <2>5
<1>4. CASE r.op = "rotate" /\ r.pc \notin {"link", "unlink"}
  <2>1. s = Idle(r)
    BY <1>1, <1>4 DEF Failed
  <2>2. Owning(r)
    BY <1>4 DEF Owning
  <2> QED BY <1>1, <1>4, <2>1, <2>2, IdleStays
<1>5. CASE r.op = "new" /\ r.pc \in {"list", "prune"}
  <2>1. PICK i : i = Idle(r)
    OBVIOUS
  <2>2. s = [i EXCEPT !.pc = "link", !.op = "drop"]
    BY <1>1, <1>5, <2>1 DEF Failed
  <2>3. i \in LogFiles /\ i.path = r.path /\ i.file = r.file /\ i.stem = r.path
    BY <2>1, ProcFacts, IdleOK
  <2>4. /\ s \in LogFiles /\ s.pc = "link" /\ s.op = "drop" /\ s.path = r.path /\ s.file = r.file
        /\ s.stem = r.path
    BY <2>2, <2>3 DEF LogFiles, Steps
  <2>5. Owning(r)
    BY <1>5 DEF Owning
  <2>6. Owning(s) /\ ~Probing(s) /\ ProcType(stamp, s)
    BY <2>4, <2>5, OwnedIndex DEF Owning, Probing, ProcType
  <2>7. ProcOK(dir, lines, retired, stamp, z, s) /\ Claims(s) \subseteq Claims(r)
    BY <1>5, <2>4, <2>5, <2>6, StayOK
  <2> QED BY <1>1, <2>7
<1>6. CASE r.op = "drop" \/ (r.op = "new" /\ r.pc \notin {"list", "prune"})
  <2>1. s = Off
    BY <1>1, <1>6 DEF Failed
  <2> QED BY <1>1, <2>1, ProcFacts, OffOK
<1> QED BY <1>2, <1>3, <1>4, <1>5, <1>6

LEMMA FailStep == ASSUME LogInv, NEW p \in Process, CallFails(p) PROVE LogInv'
<1>1. faults' = faults + 1 /\ faults < MaxFaults /\ UNCHANGED <<disk, time>>
  BY DEF CallFails
<1>2. faults' \in 0 .. MaxFaults /\ faults' # 0
  BY <1>1, ProcFacts, LogBounds
<1>3. ASSUME NEW pc \in {"create", "unprobe", "link", "unlink", "list", "prune"},
             Step(p, pc, Failed(proc[p]))
      PROVE  LogInv'
  <2>1. PICK s : s = Failed(proc[p])
    OBVIOUS
  <2>2. proc[p].pc = pc /\ proc' = [proc EXCEPT ![p] = s]
    BY <1>3, <2>1 DEF Step
  <2>3. ProcOK(dir, lines, retired, stamp, faults', s) /\ Claims(s) \subseteq Claims(proc[p])
    BY <1>2, <2>1, <2>2, FailedOK
  <2> QED BY <1>1, <1>2, <2>2, <2>3, ProcFacts, Quiet
<1>4. ASSUME NEW pc \in {"abort", "write"}, Step(p, pc, Idle(proc[p]))
      PROVE  LogInv'
  <2>1. PICK s : s = Idle(proc[p])
    OBVIOUS
  <2>2. proc[p].pc = pc /\ proc' = [proc EXCEPT ![p] = s]
    BY <1>4, <2>1 DEF Step
  <2>3. Owning(proc[p]) /\ proc[p].op # "drop"
    BY <2>2, ProcFacts DEF Owning, ProcOK, ProcType
  <2>4. ProcOK(dir, lines, retired, stamp, faults', s) /\ Claims(s) \subseteq Claims(proc[p])
    BY <1>2, <2>1, <2>2, <2>3, IdleStays
  <2> QED BY <1>1, <1>2, <2>2, <2>4, ProcFacts, Quiet
<1> QED BY <1>3, <1>4 DEF CallFails

LEMMA CrashStep == ASSUME LogInv, NEW p \in Process, Crash(p) PROVE LogInv'
<1>1. /\ faults' = faults + 1 /\ faults < MaxFaults /\ UNCHANGED <<disk, time>>
      /\ proc' = [proc EXCEPT ![p] = Off]
  BY DEF Crash, Step
<1>2. faults' \in 0 .. MaxFaults /\ faults' # 0
  BY <1>1, ProcFacts, LogBounds
<1> QED BY <1>1, <1>2, ProcFacts, OffOK, Quiet

LEMMA MinuteStep == ASSUME LogInv, Minute PROVE LogInv'
<1>1. time' \in 0 .. MaxTime /\ UNCHANGED <<disk, faults, proc>>
  BY LogBounds DEF Minute, LogInv, Global
<1> QED BY <1>1 DEF LogInv, Global, disk

--------------------------------------------------------------------------------
(* The steps that change the directory or a file. *)
(* unlink takes one name away. *)
LEMMA UnlinkedDef ==
    ASSUME NEW x
    PROVE  DOMAIN Unlinked(x) = DOMAIN dir \ {x} /\ \A y \in DOMAIN dir \ {x} : Unlinked(x)[y] = dir[y]
  BY DEF Unlinked, Restrict

(* The files of different claims are different. *)
(* A claim is an active name of the directory. *)
LEMMA ClaimsHeld ==
    ASSUME LogInv, NEW p \in Process, NEW s \in Claims(proc[p])
    PROVE  s \in Stems /\ Active(s) \in DOMAIN dir /\ dir[Active(s)] \in DOMAIN lines
<1>1. s \in Stems
  BY ProcFacts DEF Claims
<1>2. Active(s) \in DOMAIN dir
  BY ProcFacts DEF ProcOK, Holds, Claims
<1> QED BY <1>1, <1>2 DEF LogInv, Global, FilesOK

LEMMA ClaimsApart ==
    ASSUME LogInv, NEW p \in Process, NEW q \in Process \ {p}, NEW s \in Claims(proc[p]), NEW t \in Claims(proc[q])
    PROVE  s # t /\ dir[Active(s)] # dir[Active(t)]
<1>1. s # t
  BY DEF LogInv
<1> QED BY <1>1, ClaimsHeld DEF LogInv, Global, FilesOK

(* Removing an active name of the process p. *)
LEMMA UnlinkActive ==
    ASSUME LogInv, NEW p \in Process, NEW u \in Claims(proc[p]), NEW r, proc' = [proc EXCEPT ![p] = r],
           dir' = Unlinked(Active(u)), UNCHANGED <<lines, stamp, time, faults, accepted, archived, retired>>,
           Claims(r) \subseteq Claims(proc[p]), ProcOK(dir', lines, retired, stamp, faults, r),
           \A l \in lines[dir[Active(u)]] :
               l \in retired \/ \E x \in DOMAIN dir : x # Active(u) /\ l \in lines[dir[x]]
    PROVE  LogInv'
<1>1. DOMAIN dir' = DOMAIN dir \ {Active(u)} /\ \A y \in DOMAIN dir' : dir'[y] = dir[y]
  BY UnlinkedDef
<1>2. FilesOK(dir', lines, stamp)
  BY <1>1 DEF LogInv, Global, FilesOK
<1>3. Found(dir', lines, accepted, retired)
  <2> SUFFICES ASSUME NEW l \in accepted \ retired PROVE \E x \in DOMAIN dir' : l \in lines[dir'[x]]
    BY DEF Found
  <2>1. PICK x \in DOMAIN dir : l \in lines[dir[x]]
    BY DEF LogInv, Global, Found
  <2>2. CASE x # Active(u)
    BY <1>1, <2>1, <2>2
  <2>3. CASE x = Active(u)
    <3>1. PICK y \in DOMAIN dir : y # Active(u) /\ l \in lines[dir[y]]
      BY <2>1, <2>3
    <3> QED BY <1>1, <3>1
  <2> QED BY <2>2, <2>3
<1>4. Global'
  BY <1>2, <1>3 DEF LogInv, Global
<1>5. ASSUME NEW q \in Process \ {p}
      PROVE  /\ Kept(dir, lines, retired, dir', lines', retired', proc[q])
             /\ Claims(r) \cap Claims(proc[q]) = {}
  <2>1. \A s \in Claims(proc[q]) : Active(s) \in DOMAIN dir /\ Active(s) # Active(u) /\ Archive(s) # Active(u)
    BY ClaimsHeld, ClaimsApart, Names
  <2>2. Kept(dir, lines, retired, dir', lines', retired', proc[q])
    BY <1>1, <2>1 DEF Kept
  <2> QED BY <2>2 DEF LogInv
<1>6. stamp <= stamp' /\ faults' = faults /\ ProcOK(dir', lines', retired', stamp', faults', r)
  BY ProcFacts
<1> QED BY <1>4, <1>5, <1>6, Assemble

LEMMA UnprobeStep == ASSUME LogInv, NEW p \in Process, Unprobe(p) PROVE LogInv'
<1> DEFINE r == proc[p]
<1>1. PICK s : s = [r EXCEPT !.pc = "create", !.stem = NextIndex(@)]
  OBVIOUS
<1>2. /\ r.pc = "unprobe" /\ proc' = [proc EXCEPT ![p] = s] /\ dir' = Unlinked(Active(r.stem))
      /\ UNCHANGED <<lines, stamp, time, faults, accepted, archived, retired>>
  BY <1>1 DEF Unprobe, Step
<1>3. Probing(r) /\ r.stem \in Claims(r)
  BY <1>2 DEF Probing, Claims
<1>4. Active(r.stem) \in DOMAIN dir /\ lines[dir[Active(r.stem)]] = {}
  BY <1>3, ProcFacts DEF ProcOK, Holds
<1>5. r.stem[2] < stamp
  BY <1>4, Names DEF LogInv, Global, FilesOK
<1>6. NextIndex(r.stem) \in Stems /\ NextIndex(r.stem)[2] <= stamp
  <2>1. r.stem \in Stems /\ stamp \in Nat /\ stamp <= MaxStamp
    BY ProcFacts
  <2>2. r.stem[2] \in Nat /\ r.stem[2] < MaxStamp
    BY <1>5, <2>1, LogBounds, Stemmed
  <2> QED BY <1>5, <2>1, <2>2, Stemmed
<1>7. /\ s \in LogFiles /\ s.pc = "create" /\ s.op = r.op /\ s.stem[2] <= stamp
      /\ s.path = r.path /\ s.file = r.file
  BY <1>1, <1>6, ProcFacts DEF LogFiles, Steps
<1>8. (Owning(s) <=> Owning(r)) /\ ~Probing(s)
  BY <1>2, <1>7 DEF Owning, Probing
<1>9. Claims(s) \subseteq Claims(r)
  BY <1>7, <1>8 DEF Claims
<1>10. ProcOK(dir', lines, retired, stamp, faults, s)
  <2>1. Owning(r) => Active(r.path) # Active(r.stem) /\ Archive(r.path) # Active(r.stem)
    BY <1>3, ProcFacts, Names DEF ProcOK, Holds
  <2>2. DOMAIN dir' = DOMAIN dir \ {Active(r.stem)} /\ \A y \in DOMAIN dir' : dir'[y] = dir[y]
    BY <1>2, UnlinkedDef
  <2>3. ProcType(stamp, s)
    BY <1>2, <1>7, ProcFacts DEF ProcOK, ProcType
  <2>4. Holds(dir', lines, s) /\ Moving(dir', lines, retired, s)
    BY <1>7, <1>8, <2>1, <2>2, ProcFacts DEF ProcOK, Holds, Moving
  <2>5. Free(dir', faults, s)
    BY <1>2, <1>7, <1>8, <2>2, ProcFacts DEF ProcOK, Free
  <2> QED BY <2>3, <2>4, <2>5 DEF ProcOK
<1> QED BY <1>2, <1>3, <1>4, <1>9, <1>10, UnlinkActive

LEMMA UndoStep == ASSUME LogInv, NEW p \in Process, AbortRotation(p) PROVE LogInv'
<1> DEFINE r == proc[p]
<1>1. PICK s : s = Idle(r)
  OBVIOUS
<1>2. /\ r.pc = "abort" /\ proc' = [proc EXCEPT ![p] = s] /\ dir' = Unlinked(Active(r.stem))
      /\ UNCHANGED <<lines, stamp, time, faults, accepted, archived, retired>>
  BY <1>1 DEF AbortRotation, Step
<1>3. r.op = "rotate" /\ Owning(r) /\ Probing(r) /\ r.stem \in Claims(r)
  BY <1>2, ProcFacts DEF Owning, Probing, Claims, ProcOK, ProcType, LogFiles
<1>4. lines[dir[Active(r.stem)]] = {}
  BY <1>3, ProcFacts DEF ProcOK, Holds
<1>5. ProcOK(dir, lines, retired, stamp, faults, s) /\ Claims(s) \subseteq Claims(r)
  BY <1>1, <1>2, <1>3, IdleStays
<1>6. s.pc = "idle" /\ s.path = r.path
  BY <1>1, ProcFacts, IdleOK
<1>7. ProcOK(dir', lines, retired, stamp, faults, s)
  <2>1. Active(s.path) # Active(r.stem) /\ Archive(s.path) # Active(r.stem)
    BY <1>3, <1>6, ProcFacts, Names DEF ProcOK, Holds
  <2>2. ~Probing(s)
    BY <1>6 DEF Probing
  <2> QED BY <1>2, <1>5, <1>6, <2>1, <2>2, UnlinkedDef DEF ProcOK, Holds, Moving, Free
<1> QED BY <1>2, <1>3, <1>4, <1>5, <1>7, UnlinkActive

(* The active name goes when the archive has it, or was pruned already. *)
LEMMA RemoveStep == ASSUME LogInv, NEW p \in Process, RemoveActive(p) PROVE LogInv'
<1> DEFINE r == proc[p]
<1>1. PICK s : s = IF r.op = "rotate" THEN Switched(r) ELSE [r EXCEPT !.pc = "list"]
  OBVIOUS
<1>2. /\ r.pc = "unlink" /\ proc' = [proc EXCEPT ![p] = s] /\ dir' = Unlinked(Active(r.path))
      /\ UNCHANGED <<lines, stamp, time, faults, accepted, archived, retired>>
  BY <1>1 DEF RemoveActive, Step
<1>3. Owning(r) /\ r.path \in Claims(r)
  BY <1>2 DEF Owning, Claims
<1>4. \A l \in lines[dir[Active(r.path)]] :
         l \in retired \/ \E x \in DOMAIN dir : x # Active(r.path) /\ l \in lines[dir[x]]
  <2>1. dir[Active(r.path)] = r.file
    BY <1>3, ProcFacts DEF ProcOK, Holds
  <2>2. \/ Archive(r.path) \in DOMAIN dir /\ dir[Archive(r.path)] = r.file
        \/ lines[r.file] \subseteq retired
    BY <1>2, ProcFacts DEF ProcOK, Moving
  <2> QED BY <2>1, <2>2, Names
<1>5. Claims(s) \subseteq Claims(r) /\ ProcOK(dir', lines, retired, stamp, faults, s)
  <2>1. CASE r.op = "rotate"
    <3>1. /\ s \in LogFiles /\ s.pc = "list" /\ s.op = "rotate" /\ s.path = r.stem /\ s.file = r.fresh
          /\ s.stem = r.stem
      BY <1>1, <2>1, ProcFacts, SwitchedOK
    <3>2. Probing(r) /\ Owning(s) /\ ~Probing(s)
      BY <1>2, <2>1, <3>1 DEF Owning, Probing
    <3>3. Active(r.stem) # Active(r.path) /\ Archive(r.stem) # Active(r.path)
      BY <1>3, <3>2, ProcFacts, Names DEF ProcOK, Holds
    <3>4. ProcOK(dir', lines, retired, stamp, faults, s)
      <4>1. DOMAIN dir' = DOMAIN dir \ {Active(r.path)} /\ \A y \in DOMAIN dir' : dir'[y] = dir[y]
        BY <1>2, UnlinkedDef
      <4>2. ProcType(stamp, s)
        BY <3>1, ProcFacts DEF ProcOK, ProcType
      <4>3. Holds(dir', lines, s) /\ Moving(dir', lines, retired, s)
        BY <3>1, <3>2, <3>3, <4>1, ProcFacts DEF ProcOK, Holds, Moving
      <4>4. Free(dir', faults, s)
        BY <1>2, <2>1, <3>1, <3>2, <4>1, ProcFacts DEF ProcOK, Free
      <4> QED BY <4>2, <4>3, <4>4 DEF ProcOK
    <3> QED BY <3>1, <3>2, <3>4 DEF Claims
  <2>2. CASE r.op # "rotate"
    <3>1. /\ s \in LogFiles /\ s.pc = "list" /\ s.op = r.op /\ s.stem = r.stem
      BY <1>1, <2>2, ProcFacts DEF LogFiles, Steps
    <3>2. r.op = "drop"
      BY <1>2, <2>2, ProcFacts DEF ProcOK, ProcType, LogFiles
    <3>3. ~Owning(s) /\ ~Probing(s)
      BY <3>1, <3>2 DEF Owning, Probing
    <3> QED BY <3>1, <3>2, <3>3, ProcFacts DEF ProcOK, ProcType, Holds, Moving, Free, Claims
  <2> QED BY <2>1, <2>2
<1> QED BY <1>2, <1>3, <1>4, <1>5, UnlinkActive

(* create_new makes a new file under a name nobody claims. *)
LEMMA CreateStep == ASSUME LogInv, NEW p \in Process, CreateNew(p) PROVE LogInv'
<1> DEFINE r == proc[p]
<1>1. PICK n : n = stamp + 1
  OBVIOUS
<1>2. PICK s : s = [r EXCEPT !.pc = "check", !.fresh = n]
  OBVIOUS
<1>3. /\ r.pc = "create" /\ proc' = [proc EXCEPT ![p] = s] /\ Active(r.stem) \notin DOMAIN dir
      /\ stamp' = n /\ stamp < MaxStamp /\ dir' = Linked(Active(r.stem), n)
      /\ lines' = [f \in DOMAIN lines \cup {n} |-> IF f = n THEN {} ELSE lines[f]]
      /\ UNCHANGED <<time, faults, accepted, archived, retired>>
  BY <1>1, <1>2 DEF CreateNew, Step, Creatable
<1>4. n \in 0 .. MaxStamp /\ n \in Nat /\ n > stamp /\ n = stamp + 1 /\ stamp \in Nat
  BY <1>1, <1>3, ProcFacts, LogBounds
<1>5. /\ DOMAIN dir' = DOMAIN dir \cup {Active(r.stem)} /\ dir'[Active(r.stem)] = n
      /\ \A y \in DOMAIN dir : y # Active(r.stem) /\ dir'[y] = dir[y]
  <2>1. PICK x : x = Active(r.stem)
    OBVIOUS
  <2>2. /\ DOMAIN Linked(x, n) = DOMAIN dir \cup {x} /\ Linked(x, n)[x] = n
        /\ \A y \in DOMAIN dir \ {x} : Linked(x, n)[y] = dir[y]
    BY DEF Linked
  <2> QED BY <1>3, <2>1, <2>2
<1>6. /\ DOMAIN lines' = DOMAIN lines \cup {n} /\ lines'[n] = {} /\ n \notin DOMAIN lines
      /\ \A f \in DOMAIN lines : f # n /\ lines'[f] = lines[f]
  <2>1. DOMAIN lines \subseteq 1 .. stamp
    BY DEF LogInv, Global, FilesOK
  <2>2. n \notin DOMAIN lines
    BY <1>4, <2>1
  <2> QED BY <1>3, <2>2
<1>7. r.stem \in Stems /\ r.stem[2] <= stamp
  BY ProcFacts DEF ProcOK, ProcType
<1>8. FilesOK(dir', lines', n)
  <2>1. DOMAIN dir' \subseteq Stems \X {"logging", "log"}
    BY <1>5, <1>7 DEF LogInv, Global, FilesOK, Active
  <2>2. DOMAIN lines' \subseteq 1 .. n
    BY <1>4, <1>6 DEF LogInv, Global, FilesOK
  <2>3. ASSUME NEW x \in DOMAIN dir' PROVE dir'[x] \in DOMAIN lines' /\ x[1][2] < n
    <3>1. CASE x = Active(r.stem)
      <4>1. x[1] = r.stem /\ r.stem[2] \in Nat
        BY <1>7, <3>1, Names, Stemmed
      <4> QED BY <1>4, <1>5, <1>6, <1>7, <3>1, <4>1
    <3>2. CASE x # Active(r.stem)
      <4>1. x \in DOMAIN dir /\ x[1] \in Stems /\ x[1][2] < stamp /\ dir[x] \in DOMAIN lines
        BY <1>5, <3>2 DEF LogInv, Global, FilesOK
      <4>2. x[1][2] \in Nat
        BY <4>1, Stemmed
      <4> QED BY <1>4, <1>5, <1>6, <4>1, <4>2
    <3> QED BY <3>1, <3>2
  <2>4. \A f \in DOMAIN lines' : lines'[f] \subseteq 1 .. n
    BY <1>4, <1>6 DEF LogInv, Global, FilesOK
  <2>5. ASSUME NEW a \in Stems, NEW b \in Stems, {Active(a), Active(b)} \subseteq DOMAIN dir',
               dir'[Active(a)] = dir'[Active(b)]
        PROVE  a = b
    <3>1. \A x \in DOMAIN dir : dir[x] # n
      BY <1>6 DEF LogInv, Global, FilesOK
    <3>2. CASE a = r.stem \/ b = r.stem
      BY <1>5, <2>5, <3>1, <3>2, Names
    <3>3. CASE a # r.stem /\ b # r.stem
      <4>1. {Active(a), Active(b)} \subseteq DOMAIN dir
        BY <1>5, <2>5, <3>3, Names
      <4>2. dir[Active(a)] = dir[Active(b)]
        BY <1>5, <2>5, <4>1
      <4> QED BY <4>1, <4>2 DEF LogInv, Global, FilesOK
    <3> QED BY <3>2, <3>3
  <2> QED BY <2>1, <2>2, <2>3, <2>4, <2>5 DEF FilesOK
<1>9. Found(dir', lines', accepted, retired)
  <2> SUFFICES ASSUME NEW l \in accepted \ retired PROVE \E x \in DOMAIN dir' : l \in lines'[dir'[x]]
    BY DEF Found
  <2>1. PICK x \in DOMAIN dir : l \in lines[dir[x]]
    BY DEF LogInv, Global, Found
  <2>2. dir[x] \in DOMAIN lines
    BY DEF LogInv, Global, FilesOK
  <2> QED BY <1>5, <1>6, <2>1, <2>2
<1>10. Global'
  <2>1. accepted' \cup retired' \subseteq 1 .. stamp'
    BY <1>3, <1>4 DEF LogInv, Global
  <2> QED BY <1>3, <1>4, <1>8, <1>9, <2>1 DEF LogInv, Global
<1>11. /\ s \in LogFiles /\ s.pc = "check" /\ s.op = r.op /\ s.path = r.path /\ s.file = r.file
       /\ s.stem = r.stem /\ s.fresh = n
  BY <1>2, <1>4, ProcFacts DEF LogFiles, Steps
<1>12. Probing(s) /\ ~Probing(r) /\ (Owning(s) <=> Owning(r))
  BY <1>3, <1>11 DEF Owning, Probing
<1>13. ProcOK(dir', lines', retired, n, faults, s)
  <2>1. ProcType(n, s)
    <3>1. s.stem[2] <= n
      BY <1>4, <1>7, <1>11, Stemmed
    <3> QED BY <1>3, <1>11, <3>1, ProcFacts DEF ProcOK, ProcType
  <2>2. Owning(r) => Active(r.path) \in DOMAIN dir /\ dir[Active(r.path)] = r.file
    BY ProcFacts DEF ProcOK, Holds
  <2>3. Holds(dir', lines', s)
    BY <1>5, <1>6, <1>11, <1>12, <2>2, Names DEF Holds
  <2>4. Archive(r.path) # Active(r.stem)
    BY Names
  <2>5. Moving(dir', lines', retired, s) /\ Free(dir', faults, s)
    BY <1>3, <1>5, <1>11, <1>12, <2>4, ProcFacts DEF ProcOK, Moving, Free
  <2> QED BY <2>1, <2>3, <2>5 DEF ProcOK
<1>14. ASSUME NEW q \in Process \ {p}
       PROVE  /\ Kept(dir, lines, retired, dir', lines', retired', proc[q])
              /\ Claims(s) \cap Claims(proc[q]) = {}
  <2>1. \A t \in Claims(proc[q]) : /\ Active(t) \in DOMAIN dir /\ dir[Active(t)] \in DOMAIN lines
                                   /\ Archive(t) # Active(r.stem) /\ t # r.stem
    BY <1>3, ClaimsHeld, Names
  <2>2. Kept(dir, lines, retired, dir', lines', retired', proc[q])
    BY <1>3, <1>5, <1>6, <2>1 DEF Kept
  <2>3. Claims(s) \subseteq Claims(r) \cup {r.stem}
    BY <1>11, <1>12 DEF Claims
  <2> QED BY <2>1, <2>2, <2>3 DEF LogInv
<1>15. stamp <= stamp' /\ faults' = faults /\ ProcOK(dir', lines', retired', stamp', faults', s)
  BY <1>3, <1>4, <1>13
<1> QED BY <1>3, <1>10, <1>14, <1>15, Assemble

(* The archive of p's own file, whose name no other process claims. *)
LEMMA LinkStep == ASSUME LogInv, NEW p \in Process, HardLink(p) PROVE LogInv'
<1> DEFINE r == proc[p]
           ok == Active(r.path) \in DOMAIN dir /\ Archive(r.path) \notin DOMAIN dir
<1>1. r.pc = "link" /\ UNCHANGED <<lines, stamp, time, faults, accepted, retired>>
  BY DEF HardLink, Step
<1>2. Owning(r) /\ r.path \in Claims(r) /\ Active(r.path) \in DOMAIN dir /\ dir[Active(r.path)] = r.file
  BY <1>1, ProcFacts DEF Owning, Claims, ProcOK, Holds
<1>3. CASE Archive(r.path) \in DOMAIN dir
  <2>1. PICK s : s = Failed(r)
    OBVIOUS
  <2>2. proc' = [proc EXCEPT ![p] = s] /\ UNCHANGED <<disk, time, faults>>
    BY <1>3, <2>1 DEF HardLink, Step, disk
  <2>3. faults # 0
    BY <1>1, <1>2, <1>3, ProcFacts DEF ProcOK, Free
  <2>4. ProcOK(dir, lines, retired, stamp, faults, s) /\ Claims(s) \subseteq Claims(r)
    BY <1>1, <2>1, <2>3, FailedOK
  <2> QED BY <2>2, <2>4, ProcFacts, Quiet
<1>4. CASE Archive(r.path) \notin DOMAIN dir
  <2>1. PICK s : s = [r EXCEPT !.pc = "unlink"]
    OBVIOUS
  <2>2. /\ proc' = [proc EXCEPT ![p] = s] /\ dir' = Linked(Archive(r.path), r.file)
        /\ archived' = archived \cup {<<r.path, r.file>>}
    BY <1>2, <1>4, <2>1 DEF HardLink, Step
  <2>3. /\ DOMAIN dir' = DOMAIN dir \cup {Archive(r.path)} /\ dir'[Archive(r.path)] = r.file
        /\ \A y \in DOMAIN dir : y # Archive(r.path) /\ dir'[y] = dir[y]
    <3>1. PICK x, f : x = Archive(r.path) /\ f = r.file
      OBVIOUS
    <3>2. /\ DOMAIN Linked(x, f) = DOMAIN dir \cup {x} /\ Linked(x, f)[x] = f
          /\ \A y \in DOMAIN dir \ {x} : Linked(x, f)[y] = dir[y]
      BY DEF Linked
    <3> QED BY <1>4, <2>2, <3>1, <3>2
  <2>4. r.path \in Stems /\ r.file \in DOMAIN lines /\ r.path[2] < stamp
    BY <1>2, ProcFacts, Names DEF LogInv, Global, FilesOK
  <2>5. FilesOK(dir', lines, stamp)
    <3>1. DOMAIN dir' \subseteq Stems \X {"logging", "log"}
      BY <2>3, <2>4 DEF LogInv, Global, FilesOK, Archive
    <3>2. \A x \in DOMAIN dir' : dir'[x] \in DOMAIN lines /\ x[1][2] < stamp
      BY <2>3, <2>4, Names DEF LogInv, Global, FilesOK
    <3>3. \A t : Active(t) \in DOMAIN dir' => Active(t) \in DOMAIN dir /\ dir'[Active(t)] = dir[Active(t)]
      BY <2>3, Names
    <3> QED BY <3>1, <3>2, <3>3 DEF LogInv, Global, FilesOK
  <2>6. Found(dir', lines, accepted, retired)
    BY <2>3 DEF LogInv, Global, Found
  <2>7. Global'
    <3>1. r.file \in Files
      BY <2>4, ProcFacts, LogBounds DEF Files, LogInv, Global, FilesOK
    <3> QED BY <1>1, <2>2, <2>4, <2>5, <2>6, <3>1 DEF LogInv, Global
  <2>8. /\ s \in LogFiles /\ s.pc = "unlink" /\ s.op = r.op /\ s.path = r.path /\ s.file = r.file
        /\ s.stem = r.stem /\ s.fresh = r.fresh
    BY <2>1, ProcFacts DEF LogFiles, Steps
  <2>9. Owning(s) /\ (Probing(s) <=> Probing(r)) /\ (Probing(r) <=> r.op = "rotate")
    BY <1>1, <2>8 DEF Owning, Probing
  <2>10. ProcOK(dir', lines, retired, stamp, faults, s)
    <3>1. ProcType(stamp, s) /\ Moving(dir', lines, retired, s)
      BY <1>1, <2>3, <2>8, ProcFacts DEF ProcOK, ProcType, Moving
    <3>2. Holds(dir', lines, s)
      BY <1>2, <2>3, <2>8, <2>9, ProcFacts DEF ProcOK, Holds
    <3>3. Probing(r) => Archive(r.stem) # Archive(r.path)
      BY <1>2, ProcFacts, Names DEF ProcOK, Holds
    <3>4. Free(dir', faults, s)
      BY <1>1, <2>3, <2>8, <2>9, <3>3, ProcFacts DEF ProcOK, Free
    <3> QED BY <3>1, <3>2, <3>4 DEF ProcOK
  <2>11. ASSUME NEW q \in Process \ {p}
         PROVE  /\ Kept(dir, lines, retired, dir', lines', retired', proc[q])
                /\ Claims(s) \cap Claims(proc[q]) = {}
    <3>1. \A t \in Claims(proc[q]) : Active(t) \in DOMAIN dir /\ Archive(t) # Archive(r.path)
      BY <1>2, ClaimsHeld, ClaimsApart, Names
    <3>2. Kept(dir, lines, retired, dir', lines', retired', proc[q])
      BY <1>1, <2>3, <3>1 DEF Kept
    <3>3. Claims(s) = Claims(r)
      BY <1>2, <2>8, <2>9 DEF Claims
    <3> QED BY <3>2, <3>3 DEF LogInv
  <2>12. stamp <= stamp' /\ faults' = faults /\ ProcOK(dir', lines', retired', stamp', faults', s)
    BY <1>1, <2>10, ProcFacts
  <2> QED BY <2>2, <2>7, <2>11, <2>12, Assemble
<1> QED BY <1>3, <1>4

(* prune retires the lines of what it removes. *)
LEMMA PruneStep == ASSUME LogInv, NEW p \in Process, PruneNext(p) PROVE LogInv'
<1> DEFINE r == proc[p]
<1>1. r.pc = "prune" /\ r.todo # <<>> /\ UNCHANGED <<lines, stamp, time, faults, accepted, archived>>
  BY DEF PruneNext, Step
<1>2. PICK x : x = Head(r.todo)
  OBVIOUS
<1>3. r.todo \in Seq(Stems \X {"log"}) /\ r.op \in {"new", "rotate", "drop"}
  BY ProcFacts DEF LogFiles
<1>4. x \in Stems \X {"log"} /\ Tail(r.todo) \in Seq(Stems \X {"log"})
  BY <1>1, <1>2, <1>3
<1>5. CASE x \notin DOMAIN dir
  <2>1. PICK s : s = Failed(r)
    OBVIOUS
  <2>2. proc' = [proc EXCEPT ![p] = s] /\ UNCHANGED <<disk, time, faults>>
    BY <1>1, <1>2, <1>5, <2>1 DEF PruneNext, Step, disk
  <2>3. ProcOK(dir, lines, retired, stamp, faults, s) /\ Claims(s) \subseteq Claims(r)
    BY <1>1, <2>1, FailedOK
  <2> QED BY <2>2, <2>3, ProcFacts, Quiet
<1>6. CASE x \in DOMAIN dir
  <2>1. PICK s : s = [r EXCEPT !.todo = Tail(@)]
    OBVIOUS
  <2>2. /\ proc' = [proc EXCEPT ![p] = s] /\ dir' = Unlinked(x)
        /\ retired' = retired \cup lines[dir[x]]
    BY <1>2, <1>6, <2>1 DEF PruneNext, Step
  <2>3. DOMAIN dir' = DOMAIN dir \ {x} /\ \A y \in DOMAIN dir' : dir'[y] = dir[y]
    BY <2>2, UnlinkedDef
  <2>4. \A t : Active(t) # x
    BY <1>4 DEF Active
  <2>5. dir[x] \in DOMAIN lines /\ lines[dir[x]] \subseteq 1 .. stamp
    BY <1>6 DEF LogInv, Global, FilesOK
  <2>6. FilesOK(dir', lines, stamp)
    BY <2>3 DEF LogInv, Global, FilesOK
  <2>7. Found(dir', lines, accepted, retired')
    BY <2>2, <2>3 DEF LogInv, Global, Found
  <2>8. Global'
    BY <1>1, <2>2, <2>5, <2>6, <2>7 DEF LogInv, Global
  <2>9. /\ s \in LogFiles /\ s.pc = r.pc /\ s.op = r.op /\ s.path = r.path /\ s.file = r.file
        /\ s.stem = r.stem /\ s.fresh = r.fresh
    BY <1>4, <2>1, ProcFacts DEF LogFiles
  <2>10. (Owning(s) <=> Owning(r)) /\ ~Probing(s) /\ ~Probing(r)
    BY <1>1, <2>9 DEF Owning, Probing
  <2>11. ProcOK(dir', lines, retired', stamp, faults, s)
    <3>1. ProcType(stamp, s) /\ Moving(dir', lines, retired', s)
      BY <1>1, <2>9, ProcFacts DEF ProcOK, ProcType, Moving
    <3>2. Holds(dir', lines, s)
      BY <2>3, <2>4, <2>9, <2>10, ProcFacts DEF ProcOK, Holds
    <3>3. Free(dir', faults, s)
      BY <1>1, <2>3, <2>9, <2>10, ProcFacts DEF ProcOK, Free
    <3> QED BY <3>1, <3>2, <3>3 DEF ProcOK
  <2>12. ASSUME NEW q \in Process \ {p}
         PROVE  /\ Kept(dir, lines, retired, dir', lines', retired', proc[q])
                /\ Claims(s) \cap Claims(proc[q]) = {}
    <3>1. \A t \in Claims(proc[q]) : Active(t) \in DOMAIN dir
      BY ClaimsHeld
    <3>2. Kept(dir, lines, retired, dir', lines', retired', proc[q])
      BY <1>1, <2>2, <2>3, <2>4, <3>1 DEF Kept
    <3>3. Claims(s) = Claims(r)
      BY <2>9, <2>10 DEF Claims
    <3> QED BY <3>2, <3>3 DEF LogInv
  <2>13. stamp <= stamp' /\ faults' = faults /\ ProcOK(dir', lines', retired', stamp', faults', s)
    BY <1>1, <2>11, ProcFacts
  <2> QED BY <2>2, <2>8, <2>12, <2>13, Assemble
<1> QED BY <1>5, <1>6

(* The line goes to a file that only p claims and that has a name. *)
LEMMA WriteStep == ASSUME LogInv, NEW p \in Process, WriteLine(p) PROVE LogInv'
<1> DEFINE r == proc[p]
<1>1. PICK n : n = stamp + 1
  OBVIOUS
<1>2. /\ stamp' = n /\ stamp < MaxStamp /\ lines' = [lines EXCEPT ![r.file] = @ \cup {n}]
      /\ accepted' = accepted \cup {n} /\ UNCHANGED <<dir, time, faults, archived, retired>>
  BY <1>1 DEF WriteLine
<1>3. PICK s : /\ proc' = [proc EXCEPT ![p] = s]
               /\ (r.pc = "idle" /\ s = r) \/ (r.pc = "write" /\ s = Idle(r))
  BY DEF WriteLine, Step
<1>4. n \in 0 .. MaxStamp /\ n \in Nat /\ n > stamp /\ n = stamp + 1 /\ stamp \in Nat
  BY <1>1, <1>2, ProcFacts, LogBounds
<1>5. /\ Owning(r) /\ ~Probing(r) /\ r.op # "drop" /\ r.path \in Claims(r)
      /\ Active(r.path) \in DOMAIN dir /\ dir[Active(r.path)] = r.file
  BY <1>3, ProcFacts DEF Owning, Probing, Claims, ProcOK, ProcType, Holds
<1>6. r.file \in DOMAIN lines
  BY <1>5 DEF LogInv, Global, FilesOK
<1>7. /\ DOMAIN lines' = DOMAIN lines /\ lines'[r.file] = lines[r.file] \cup {n}
      /\ \A f \in DOMAIN lines : f # r.file => lines'[f] = lines[f]
  BY <1>2, <1>6
<1>8. FilesOK(dir, lines', n)
  <2>1. DOMAIN lines' \subseteq 1 .. n
    BY <1>4, <1>7 DEF LogInv, Global, FilesOK
  <2>2. ASSUME NEW x \in DOMAIN dir PROVE dir[x] \in DOMAIN lines' /\ x[1][2] < n
    <3>1. x[1] \in Stems /\ x[1][2] < stamp /\ dir[x] \in DOMAIN lines
      BY DEF LogInv, Global, FilesOK
    <3>2. x[1][2] \in Nat
      BY <3>1, Stemmed
    <3> QED BY <1>4, <1>7, <3>1, <3>2
  <2>3. ASSUME NEW f \in DOMAIN lines' PROVE lines'[f] \subseteq 1 .. n
    <3>1. lines[f] \subseteq 1 .. stamp
      BY <1>7 DEF LogInv, Global, FilesOK
    <3>2. lines'[f] \subseteq lines[f] \cup {n}
      BY <1>7
    <3> QED BY <1>4, <3>1, <3>2
  <2> QED BY <2>1, <2>2, <2>3 DEF LogInv, Global, FilesOK
<1>9. Found(dir, lines', accepted', retired)
  <2> SUFFICES ASSUME NEW l \in accepted' \ retired PROVE \E x \in DOMAIN dir : l \in lines'[dir[x]]
    BY DEF Found
  <2>1. CASE l = n
    BY <1>5, <1>7, <2>1
  <2>2. CASE l # n
    <3>1. PICK x \in DOMAIN dir : l \in lines[dir[x]]
      BY <1>2, <2>2 DEF LogInv, Global, Found
    <3>2. dir[x] \in DOMAIN lines
      BY DEF LogInv, Global, FilesOK
    <3> QED BY <1>7, <3>1, <3>2
  <2> QED BY <2>1, <2>2
<1>10. Global'
  <2>1. accepted' \cup retired' \subseteq 1 .. stamp'
    BY <1>2, <1>4 DEF LogInv, Global
  <2> QED BY <1>2, <1>4, <1>8, <1>9, <2>1 DEF LogInv, Global
<1>11. ProcOK(dir, lines, retired, stamp, faults, s) /\ Claims(s) \subseteq Claims(r)
  BY <1>3, <1>5, ProcFacts, IdleStays
<1>12. s.pc = "idle" \/ s.pc = "write"
  BY <1>3, ProcFacts, IdleOK
<1>13. ProcOK(dir, lines', retired, n, faults, s)
  <2>1. ProcType(n, s)
    <3>1. s \in LogFiles /\ s.stem[2] <= stamp
      BY <1>11 DEF ProcOK, ProcType
    <3>2. s.stem[2] \in Nat
      BY <3>1, Stemmed DEF LogFiles
    <3> QED BY <1>4, <1>11, <3>1, <3>2 DEF ProcOK, ProcType
  <2>2. ~Probing(s)
    BY <1>12 DEF Probing
  <2> QED BY <1>11, <1>12, <2>1, <2>2 DEF ProcOK, Holds, Moving, Free
<1>14. ASSUME NEW q \in Process \ {p}
       PROVE  /\ Kept(dir, lines, retired, dir', lines', retired', proc[q])
              /\ Claims(s) \cap Claims(proc[q]) = {}
  <2>1. \A t \in Claims(proc[q]) : /\ Active(t) \in DOMAIN dir /\ dir[Active(t)] \in DOMAIN lines
                                   /\ dir[Active(t)] # r.file
    BY <1>5, ClaimsHeld, ClaimsApart
  <2>2. Kept(dir, lines, retired, dir', lines', retired', proc[q])
    BY <1>2, <1>7, <2>1 DEF Kept
  <2> QED BY <1>11, <2>2 DEF LogInv
<1>15. stamp <= stamp' /\ faults' = faults /\ ProcOK(dir', lines', retired', stamp', faults', s)
  BY <1>2, <1>4, <1>13
<1> QED BY <1>3, <1>10, <1>14, <1>15, Assemble

(* Every step preserves the invariant. *)
LEMMA NextLog == LogInv /\ [LogNext]_logVars => LogInv'
<1> SUFFICES ASSUME LogInv, [LogNext]_logVars PROVE LogInv'
  OBVIOUS
<1>1. ASSUME NEW p \in Process,
             \/ NewLog(p) \/ NameTaken(p) \/ CreateNew(p) \/ CheckArchive(p) \/ Unprobe(p)
             \/ HardLink(p) \/ RemoveActive(p) \/ AbortRotation(p)
             \/ List(p) \/ PruneNext(p) \/ Pruned(p)
             \/ Rotate(p) \/ WriteLine(p) \/ Drop(p) \/ CallFails(p) \/ Crash(p)
      PROVE  LogInv'
  BY <1>1, NewStep, NameTakenStep, CreateStep, CheckStep, UnprobeStep, LinkStep, RemoveStep, UndoStep,
     ListStep, PruneStep, PrunedStep, RotateStep, WriteStep, DropStep, FailStep, CrashStep
<1>2. CASE UNCHANGED logVars
  BY <1>2 DEF logVars, disk, LogInv, Global
<1> QED BY <1>1, <1>2, MinuteStep DEF LogNext

(* The type invariant follows. *)
LEMMA LogTypes == LogInv => LogTypeOK
<1> SUFFICES ASSUME LogInv PROVE LogTypeOK
  OBVIOUS
<1>1. Range(dir) \subseteq DOMAIN lines
  BY DEF Range, LogInv, Global, FilesOK
<1>2. DOMAIN lines \subseteq Files
  BY LogBounds DEF LogInv, Global, FilesOK, Files
<1>3. \A p \in Process : proc[p] \in LogFiles
  BY ProcFacts
<1>4. \A p \in Process : /\ proc[p].pc \in Steps /\ proc[p].op \in {"new", "rotate", "drop"}
                         /\ {proc[p].path, proc[p].stem} \subseteq Stems
                         /\ {proc[p].file, proc[p].fresh} \subseteq 0 .. MaxStamp
  BY <1>3 DEF LogFiles
<1> QED BY <1>1, <1>2, <1>4 DEF LogInv, Global, FilesOK, LogTypeOK

(* Files, claims and archives stay consistent, for any number of processes, *)
(* crashes and failed calls.                                               *)
THEOREM LogInvariance == LogSpec => []LogInv
  BY InitLog, NextLog, PTL DEF LogSpec

(* No line whose write succeeded is lost unless its archive was pruned, for *)
(* any number of processes, files, crashes and failed calls.               *)
THEOREM LinesAreKept == LogSpec => []NoLineLost
<1>1. LogInv => NoLineLost
  <2> SUFFICES ASSUME LogInv, NEW l \in accepted \ retired PROVE \E f \in Range(dir) : l \in lines[f]
    BY LogTypes DEF NoLineLost
  <2>1. PICK x \in DOMAIN dir : l \in lines[dir[x]]
    BY DEF LogInv, Global, Found
  <2> QED BY <2>1 DEF Range
<1> QED BY <1>1, LogInvariance, PTL

(* Without faults a rotation never finds its archive name taken, for any   *)
(* number of processes and files.                                          *)
THEOREM ArchivesAreFree == LogSpec => []ArchiveFree
<1>1. LogInv => ArchiveFree
  BY ProcFacts DEF ArchiveFree, ProcOK, Free, Owning
<1> QED BY <1>1, LogInvariance, PTL

--------------------------------------------------------------------------------
(* Retention: the archives newer than a, and that prune may remove a. *)
Newer(A, L, a) == {b \in A : Max(L[b[2]] \cup {b[2]}) > Max(L[a[2]] \cup {a[2]})}
Old(A, L, a) == Cardinality(Newer(A, L, a)) >= MaxFiles

(* What a process is about to prune is old, whatever was archived since. *)
StaleOK(A, L, r) == \A i \in 1 .. Len(r.todo) : \E a \in A : a[1] = r.todo[i][1] /\ Old(A, L, a)

(* The file of a LogFile that may still be written is not archived: an     *)
(* archive that could not be finished belongs to a period that has ended.  *)
Timely(A, t, r) ==
    /\ r.pc = "create" \/ Probing(r) => r.stem[1] <= t
    /\ Probing(r) => \A a \in A : a[2] # r.fresh
    /\ Owning(r) => r.period <= Period(t)
    /\ r.op = "rotate" /\ Owning(r) /\ r.pc \notin {"list", "prune", "write", "idle"} => r.period < Period(t)
    /\ r.op # "drop" /\ Owning(r) /\ (r.period = Period(t) \/ r.pc \in {"list", "prune", "write"})
          => \A a \in A : a[2] # r.file

Listed(d, A) == \A x \in DOMAIN d : x[2] = "log" => <<x[1], d[x]>> \in A
Held(d, a) == Archive(a[1]) \in DOMAIN d /\ d[Archive(a[1])] = a[2]
Retained(d, A, L) ==
    \A a \in A : Held(d, a) \/ \E b \in A : b[1] = a[1] /\ Old(A, L, b)

KeepInv ==
    /\ Listed(dir, archived) /\ Retained(dir, archived, lines)
    /\ \A a \in archived : a[2] \in DOMAIN lines
    /\ \A p \in Process : StaleOK(archived, lines, proc[p]) /\ Timely(archived, time, proc[p])

(* Periods grow with time. *)
LEMMA PeriodMonotone ==
    ASSUME NEW t \in Nat, NEW u \in Nat, t <= u
    PROVE  Period(t) \in Nat /\ Period(u) \in Nat /\ Period(t) <= Period(u)
<1>1. CASE PeriodLength = 0
  BY <1>1 DEF Period
<1>2. CASE PeriodLength # 0
  <2>1. PICK len \in Nat \ {0} : len = PeriodLength
    BY <1>2, LogBounds
  <2>2. PICK a, b, c, d : a = t \div len /\ b = u \div len /\ c = t % len /\ d = u % len
    OBVIOUS
  <2>3. a \in Nat /\ c \in 0 .. len - 1 /\ t = len * a + c
    BY <2>2
  <2>4. b \in Nat /\ d \in 0 .. len - 1 /\ u = len * b + d
    BY <2>2
  <2>5. ASSUME b + 1 <= a PROVE FALSE
    <3>1. len * (b + 1) <= len * a
      BY <2>3, <2>4, <2>5
    <3>2. len * (b + 1) = len * b + len
      BY <2>4
    <3>3. len * b \in Nat /\ len * a \in Nat
      BY <2>3, <2>4
    <3> QED BY <2>3, <2>4, <3>1, <3>2, <3>3
  <2>6. Period(t) = a /\ Period(u) = b
    BY <1>2, <2>1, <2>2 DEF Period
  <2> QED BY <2>3, <2>4, <2>5, <2>6
<1> QED BY <1>1, <1>2

LEMMA PeriodNat ==
    ASSUME NEW r \in LogFiles, NEW t \in 0 .. MaxTime
    PROVE  r.period \in Nat /\ Period(t) \in Nat
<1>1. \A u \in 0 .. MaxTime : Period(u) \in Nat
  BY PeriodMonotone, LogBounds
<1> QED BY <1>1 DEF LogFiles

(* Archives are finitely many. *)
LEMMA FiniteArchives == ASSUME NEW A, A \subseteq Stems \X Files PROVE IsFiniteSet(A)
<1>1. 0 \in Int /\ 1 \in Int /\ MaxTime \in Int /\ MaxStamp \in Int
  BY LogBounds
<1>2. IsFiniteSet(0 .. MaxTime) /\ IsFiniteSet(0 .. MaxStamp) /\ IsFiniteSet(Files)
  BY <1>1, FS_Interval DEF Files
<1>3. IsFiniteSet(Stems)
  BY <1>2, FS_Product DEF Stems
<1>4. IsFiniteSet(Stems \X Files)
  BY <1>2, <1>3, FS_Product
<1> QED BY <1>4, FS_Subset

(* An archive that is old stays old: archives are added and not written. *)
LEMMA OldGrows ==
    ASSUME NEW A, NEW B, A \subseteq B, B \subseteq Stems \X Files, NEW L, NEW M,
           \A b \in A : M[b[2]] = L[b[2]], NEW a \in A, Old(A, L, a)
    PROVE  Old(B, M, a)
<1>1. Newer(A, L, a) \subseteq Newer(B, M, a)
  BY DEF Newer
<1>2. Newer(B, M, a) \subseteq Stems \X Files
  BY DEF Newer
<1>3. IsFiniteSet(Newer(B, M, a))
  BY <1>2, FiniteArchives
<1>4. Cardinality(Newer(A, L, a)) <= Cardinality(Newer(B, M, a))
  BY <1>1, <1>3, FS_Subset
<1>5. Cardinality(Newer(A, L, a)) \in Nat /\ Cardinality(Newer(B, M, a)) \in Nat
  BY <1>1, <1>3, FS_Subset, FS_CardinalityType
<1> QED BY <1>4, <1>5, MaxFilesPositive DEF Old

(* Nothing is archived yet. *)
LEMMA InitKeep == LogInit => KeepInv
<1> SUFFICES ASSUME LogInit PROVE KeepInv
  OBVIOUS
<1>1. DOMAIN dir = {} /\ archived = {} /\ time = 0 /\ proc = [p \in Process |-> Off]
  BY DEF LogInit
<1>2. Off.pc = "off" /\ Off.op = "new" /\ Len(Off.todo) = 0
  BY DEF Off
<1>3. ~Owning(Off) /\ ~Probing(Off)
  BY <1>2 DEF Owning, Probing
<1>4. StaleOK(archived, lines, Off) /\ Timely(archived, time, Off)
  BY <1>2, <1>3 DEF StaleOK, Timely
<1> QED BY <1>1, <1>4 DEF KeepInv, Listed, Retained

(* A step of p that neither archives nor removes an archive. *)
LEMMA KeepStep ==
    ASSUME LogInv, KeepInv, NEW p \in Process, NEW r, proc' = [proc EXCEPT ![p] = r],
           time' = time, archived' = archived,
           \A s : Archive(s) \in DOMAIN dir => Archive(s) \in DOMAIN dir',
           \A x \in DOMAIN dir' : x[2] = "log" => x \in DOMAIN dir /\ dir'[x] = dir[x],
           DOMAIN lines \subseteq DOMAIN lines', \A a \in archived : lines'[a[2]] = lines[a[2]],
           StaleOK(archived, lines, r), Timely(archived, time, r)
    PROVE  KeepInv'
<1>1. DOMAIN proc = Process /\ archived \subseteq Stems \X Files
  BY DEF LogInv, Global
<1>2. ASSUME NEW a \in archived, Old(archived, lines, a) PROVE Old(archived, lines', a)
  BY <1>1, <1>2, OldGrows
<1>3. \A q \in Process : StaleOK(archived, lines, proc'[q]) /\ Timely(archived, time, proc'[q])
  BY <1>1 DEF KeepInv
<1>4. \A q \in Process : StaleOK(archived', lines', proc'[q]) /\ Timely(archived', time', proc'[q])
  BY <1>2, <1>3 DEF StaleOK
<1>5. Listed(dir', archived')
  BY DEF KeepInv, Listed
<1>6. Retained(dir', archived', lines')
  <2>1. ASSUME NEW a \in archived, Held(dir, a) PROVE Held(dir', a)
    <3>1. Archive(a[1])[2] = "log" /\ Archive(a[1]) \in DOMAIN dir'
      BY <2>1, Names DEF Held
    <3> QED BY <2>1, <3>1 DEF Held
  <2> QED BY <1>2, <2>1 DEF KeepInv, Retained
<1>7. \A a \in archived' : a[2] \in DOMAIN lines'
  BY DEF KeepInv
<1> QED BY <1>4, <1>5, <1>6, <1>7 DEF KeepInv

LEMMA KeepQuiet ==
    ASSUME LogInv, KeepInv, NEW p \in Process, NEW r, proc' = [proc EXCEPT ![p] = r],
           UNCHANGED disk, time' = time, StaleOK(archived, lines, r), Timely(archived, time, r)
    PROVE  KeepInv'
<1>1. dir' = dir /\ lines' = lines /\ archived' = archived
  BY DEF disk
<1> QED BY <1>1, KeepStep

(* What the invariant says of one process. *)
LEMMA KeepFacts ==
    ASSUME LogInv, KeepInv, NEW p \in Process
    PROVE  /\ StaleOK(archived, lines, proc[p]) /\ Timely(archived, time, proc[p])
           /\ proc[p].period \in Nat /\ Period(time) \in Nat
<1>1. proc[p] \in LogFiles /\ time \in 0 .. MaxTime
  BY ProcFacts
<1> QED BY <1>1, PeriodNat DEF KeepInv

(* What is to be pruned: nothing, or the same as before. *)
LEMMA NothingStale ==
    ASSUME NEW A, NEW L, NEW r, r.todo = <<>> PROVE StaleOK(A, L, r)
<1>1. Len(r.todo) = 0
  OBVIOUS
<1> QED BY <1>1 DEF StaleOK

LEMMA SameStale ==
    ASSUME NEW A, NEW L, NEW r, NEW s, StaleOK(A, L, r), s.todo = r.todo PROVE StaleOK(A, L, s)
  BY DEF StaleOK

(* The states that several steps end in. *)
LEMMA OffKept == StaleOK(archived, lines, Off) /\ Timely(archived, time, Off)
<1>1. Off.pc = "off" /\ Off.todo = <<>>
  BY DEF Off
<1>2. ~Owning(Off) /\ ~Probing(Off)
  BY DEF Off, Owning, Probing
<1> QED BY <1>1, <1>2, NothingStale DEF Timely

LEMMA IdleKept ==
    ASSUME LogInv, KeepInv, NEW p \in Process, Owning(proc[p]), proc[p].op # "drop"
    PROVE  StaleOK(archived, lines, Idle(proc[p])) /\ Timely(archived, time, Idle(proc[p]))
<1>1. PICK s : s = Idle(proc[p])
  OBVIOUS
<1>2. /\ s.pc = "idle" /\ s.op = proc[p].op /\ s.file = proc[p].file
      /\ s.period = proc[p].period /\ s.todo = <<>>
  BY <1>1, ProcFacts, IdleOK
<1>3. Owning(s) /\ ~Probing(s)
  BY <1>2 DEF Owning, Probing
<1>4. Timely(archived, time, s)
  BY <1>2, <1>3, KeepFacts DEF Timely
<1> QED BY <1>1, <1>2, <1>4, NothingStale

LEMMA SwitchedKept ==
    ASSUME LogInv, KeepInv, NEW p \in Process, Probing(proc[p])
    PROVE  StaleOK(archived, lines, Switched(proc[p])) /\ Timely(archived, time, Switched(proc[p]))
<1> DEFINE r == proc[p]
<1>1. PICK s : s = Switched(r)
  OBVIOUS
<1>2. /\ s.pc = "list" /\ s.file = r.fresh /\ s.period = Period(r.stem[1]) /\ s.todo = r.todo
  BY <1>1, ProcFacts, SwitchedOK
<1>3. ~Probing(s) /\ s.op = r.op
  BY <1>1, <1>2, ProcFacts, SwitchedOK DEF Probing
<1>4. r.stem[1] \in Nat /\ time \in Nat /\ r.stem[1] <= time /\ \A a \in archived : a[2] # r.fresh
  BY ProcFacts, KeepFacts, Stemmed, LogBounds DEF Timely
<1>5. s.period <= Period(time)
  BY <1>2, <1>4, PeriodMonotone
<1>6. Timely(archived, time, s)
  BY <1>2, <1>3, <1>4, <1>5 DEF Timely
<1> QED BY <1>1, <1>2, <1>6, KeepFacts, SameStale

LEMMA FailedKept ==
    ASSUME LogInv, KeepInv, NEW p \in Process,
           proc[p].pc \in {"create", "unprobe", "link", "unlink", "list", "prune"}
    PROVE  StaleOK(archived, lines, Failed(proc[p])) /\ Timely(archived, time, Failed(proc[p]))
<1> DEFINE r == proc[p]
<1>1. PICK s : s = Failed(r)
  OBVIOUS
<1>2. r.op \in {"new", "rotate", "drop"}
  BY ProcFacts DEF LogFiles
<1>3. CASE r.op = "rotate" /\ r.pc \in {"link", "unlink"}
  <2>1. s = [r EXCEPT !.pc = "abort"]
    BY <1>1, <1>3 DEF Failed
  <2>2. /\ s.pc = "abort" /\ s.op = r.op /\ s.path = r.path /\ s.file = r.file
        /\ s.stem = r.stem /\ s.fresh = r.fresh /\ s.period = r.period /\ s.todo = r.todo
    BY <2>1, ProcFacts DEF LogFiles
  <2>3. Owning(r) /\ Probing(r) /\ Owning(s) /\ Probing(s)
    BY <1>3, <2>2 DEF Owning, Probing
  <2>4. Timely(archived, time, s)
    BY <1>3, <2>2, <2>3, KeepFacts DEF Timely
  <2> QED BY <1>1, <2>2, <2>4, KeepFacts, SameStale
<1>4. CASE r.op = "rotate" /\ r.pc \notin {"link", "unlink"}
  <2>1. s = Idle(r)
    BY <1>1, <1>4 DEF Failed
  <2>2. Owning(r)
    BY <1>4 DEF Owning
  <2> QED BY <1>1, <1>4, <2>1, <2>2, IdleKept
<1>5. CASE r.op = "new" /\ r.pc \in {"list", "prune"}
  <2>1. PICK i : i = Idle(r)
    OBVIOUS
  <2>2. s = [i EXCEPT !.pc = "link", !.op = "drop"]
    BY <1>1, <1>5, <2>1 DEF Failed
  <2>3. i \in LogFiles /\ i.period = r.period /\ i.todo = <<>>
    BY <2>1, ProcFacts, IdleOK
  <2>4. s.pc = "link" /\ s.op = "drop" /\ s.period = r.period /\ s.todo = <<>>
    BY <2>2, <2>3 DEF LogFiles
  <2>5. Owning(r)
    BY <1>5 DEF Owning
  <2>6. Owning(s) /\ ~Probing(s)
    BY <2>4 DEF Owning, Probing
  <2>7. Timely(archived, time, s)
    BY <2>4, <2>5, <2>6, KeepFacts DEF Timely
  <2> QED BY <1>1, <2>4, <2>7, NothingStale
<1>6. CASE r.op = "drop" \/ (r.op = "new" /\ r.pc \notin {"list", "prune"})
  <2>1. s = Off
    BY <1>1, <1>6 DEF Failed
  <2> QED BY <1>1, <2>1, OffKept
<1> QED BY <1>2, <1>3, <1>4, <1>5, <1>6

(* The steps that leave the directory alone, as for the first invariant. *)
LEMMA KeepNew == ASSUME LogInv, KeepInv, NEW p \in Process, NewLog(p) PROVE KeepInv'
<1>1. PICK s : s = Creating(proc[p], "new")
  OBVIOUS
<1>2. proc' = [proc EXCEPT ![p] = s] /\ UNCHANGED <<disk, time>>
  BY <1>1 DEF NewLog, Step
<1>3. s.pc = "create" /\ s.op = "new" /\ s.stem = <<time, 0>> /\ s.todo = proc[p].todo
  BY <1>1, ProcFacts, CreatingOK
<1>4. ~Owning(s) /\ ~Probing(s) /\ s.stem[1] = time
  BY <1>3 DEF Owning, Probing
<1>5. Timely(archived, time, s)
  BY <1>3, <1>4, ProcFacts, LogBounds DEF Timely
<1> QED BY <1>2, <1>3, <1>5, KeepFacts, SameStale, KeepQuiet

LEMMA KeepRotate == ASSUME LogInv, KeepInv, NEW p \in Process, Rotate(p) PROVE KeepInv'
<1> DEFINE r == proc[p]
<1>1. PICK s : s = Creating(r, "rotate")
  OBVIOUS
<1>2. /\ r.pc = "idle" /\ Period(time) # r.period
      /\ proc' = [proc EXCEPT ![p] = s] /\ UNCHANGED <<disk, time>>
  BY <1>1 DEF Rotate, Step
<1>3. /\ s.pc = "create" /\ s.op = "rotate" /\ s.stem = <<time, 0>> /\ s.todo = r.todo
      /\ s.period = r.period
  BY <1>1, ProcFacts, CreatingOK
<1>4. Owning(r) /\ Owning(s) /\ ~Probing(s) /\ s.stem[1] = time
  BY <1>2, <1>3 DEF Owning, Probing
<1>5. r.period < Period(time)
  BY <1>2, <1>4, KeepFacts DEF Timely
<1>6. Timely(archived, time, s)
  BY <1>3, <1>4, <1>5, KeepFacts, ProcFacts, LogBounds DEF Timely
<1> QED BY <1>2, <1>3, <1>6, KeepFacts, SameStale, KeepQuiet

LEMMA KeepTaken == ASSUME LogInv, KeepInv, NEW p \in Process, NameTaken(p) PROVE KeepInv'
<1> DEFINE r == proc[p]
<1>1. PICK s : s = [r EXCEPT !.stem = NextIndex(@)]
  OBVIOUS
<1>2. r.pc = "create" /\ proc' = [proc EXCEPT ![p] = s] /\ UNCHANGED <<disk, time>>
  BY <1>1 DEF NameTaken, Step
<1>3. /\ s.pc = "create" /\ s.op = r.op /\ s.stem = NextIndex(r.stem) /\ s.todo = r.todo
      /\ s.period = r.period /\ s.file = r.file
  BY <1>1, <1>2, ProcFacts DEF LogFiles
<1>4. (Owning(s) <=> Owning(r)) /\ ~Probing(s) /\ s.stem[1] = r.stem[1]
  BY <1>2, <1>3 DEF Owning, Probing, NextIndex
<1>5. Timely(archived, time, s)
  BY <1>2, <1>3, <1>4, KeepFacts DEF Timely
<1> QED BY <1>2, <1>3, <1>5, KeepFacts, SameStale, KeepQuiet

LEMMA KeepCheck == ASSUME LogInv, KeepInv, NEW p \in Process, CheckArchive(p) PROVE KeepInv'
<1> DEFINE r == proc[p]
<1>1. r.pc = "check" /\ UNCHANGED <<disk, time>>
  BY DEF CheckArchive, Step
<1>2. PICK s : /\ proc' = [proc EXCEPT ![p] = s]
               /\ s = IF ArchiveTaken(r.stem) THEN [r EXCEPT !.pc = "unprobe"]
                      ELSE IF r.op = "new" THEN Switched(r) ELSE [r EXCEPT !.pc = "link"]
  BY DEF CheckArchive, Step
<1>3. Probing(r) /\ r.op \in {"new", "rotate"} /\ (Owning(r) <=> r.op = "rotate")
  BY <1>1, ProcFacts DEF ProcOK, ProcType, LogFiles, Owning, Probing
<1>4. CASE s = Switched(r)
  BY <1>1, <1>2, <1>3, <1>4, SwitchedKept, KeepQuiet
<1>5. CASE s # Switched(r)
  <2>1. /\ s.pc = "unprobe" \/ (r.op # "new" /\ s.pc = "link")
        /\ s.op = r.op /\ s.file = r.file /\ s.period = r.period
        /\ s.stem = r.stem /\ s.fresh = r.fresh /\ s.todo = r.todo
    BY <1>2, <1>5, ProcFacts DEF LogFiles
  <2>2. Probing(s) /\ (Owning(s) <=> Owning(r))
    BY <1>1, <1>3, <2>1 DEF Owning, Probing
  <2>3. Timely(archived, time, s)
    BY <1>1, <1>3, <2>1, <2>2, KeepFacts DEF Timely
  <2> QED BY <1>1, <1>2, <2>1, <2>3, KeepFacts, SameStale, KeepQuiet
<1> QED BY <1>4, <1>5

LEMMA KeepPruned == ASSUME LogInv, KeepInv, NEW p \in Process, Pruned(p) PROVE KeepInv'
<1> DEFINE r == proc[p]
<1>1. r.pc = "prune" /\ UNCHANGED <<disk, time>>
  BY DEF Pruned, Step
<1>2. PICK s : /\ proc' = [proc EXCEPT ![p] = s]
               /\ s = CASE r.op = "new" -> Idle(r)
                        [] r.op = "rotate" -> [r EXCEPT !.pc = "write"]
                        [] r.op = "drop" -> Off
  BY DEF Pruned, Step
<1>3. r.op \in {"new", "rotate", "drop"}
  BY ProcFacts DEF LogFiles
<1>4. CASE r.op = "new"
  <2>1. s = Idle(r) /\ Owning(r)
    BY <1>1, <1>2, <1>4 DEF Owning
  <2> QED BY <1>1, <1>2, <1>4, <2>1, IdleKept, KeepQuiet
<1>5. CASE r.op = "rotate"
  <2>1. s = [r EXCEPT !.pc = "write"] /\ Owning(r)
    BY <1>1, <1>2, <1>5 DEF Owning
  <2>2. s.pc = "write" /\ s.op = r.op /\ s.file = r.file /\ s.period = r.period /\ s.todo = r.todo
    BY <2>1, ProcFacts DEF LogFiles
  <2>3. Owning(s) /\ ~Probing(s)
    BY <2>2 DEF Owning, Probing
  <2>4. Timely(archived, time, s)
    BY <1>1, <1>5, <2>1, <2>2, <2>3, KeepFacts DEF Timely
  <2> QED BY <1>1, <1>2, <2>2, <2>4, KeepFacts, SameStale, KeepQuiet
<1>6. CASE r.op = "drop"
  BY <1>1, <1>2, <1>6, OffKept, KeepQuiet
<1> QED BY <1>3, <1>4, <1>5, <1>6

LEMMA KeepDrop == ASSUME LogInv, KeepInv, NEW p \in Process, Drop(p) PROVE KeepInv'
<1> DEFINE r == proc[p]
<1>1. PICK s : s = [r EXCEPT !.pc = "link", !.op = "drop"]
  OBVIOUS
<1>2. r.pc = "idle" /\ UNCHANGED <<disk, time>> /\ proc' = [proc EXCEPT ![p] = s]
  BY <1>1 DEF Drop, Step
<1>3. s.pc = "link" /\ s.op = "drop" /\ s.period = r.period /\ s.todo = r.todo
  BY <1>1, ProcFacts DEF LogFiles
<1>4. Owning(r) /\ ~Probing(s)
  BY <1>2, <1>3 DEF Owning, Probing
<1>5. Timely(archived, time, s)
  BY <1>3, <1>4, KeepFacts DEF Timely
<1> QED BY <1>2, <1>3, <1>5, KeepFacts, SameStale, KeepQuiet

LEMMA KeepFail == ASSUME LogInv, KeepInv, NEW p \in Process, CallFails(p) PROVE KeepInv'
<1>1. UNCHANGED <<disk, time>>
  BY DEF CallFails
<1>2. ASSUME NEW pc \in {"create", "unprobe", "link", "unlink", "list", "prune"},
             Step(p, pc, Failed(proc[p]))
      PROVE  KeepInv'
  <2>1. PICK s : s = Failed(proc[p])
    OBVIOUS
  <2>2. proc[p].pc = pc /\ proc' = [proc EXCEPT ![p] = s]
    BY <1>2, <2>1 DEF Step
  <2> QED BY <1>1, <2>1, <2>2, FailedKept, KeepQuiet
<1>3. ASSUME NEW pc \in {"abort", "write"}, Step(p, pc, Idle(proc[p]))
      PROVE  KeepInv'
  <2>1. PICK s : s = Idle(proc[p])
    OBVIOUS
  <2>2. proc[p].pc = pc /\ proc' = [proc EXCEPT ![p] = s]
    BY <1>3, <2>1 DEF Step
  <2>3. Owning(proc[p]) /\ proc[p].op # "drop"
    BY <2>2, ProcFacts DEF Owning, ProcOK, ProcType
  <2> QED BY <1>1, <2>1, <2>2, <2>3, IdleKept, KeepQuiet
<1> QED BY <1>2, <1>3 DEF CallFails

LEMMA KeepCrash == ASSUME LogInv, KeepInv, NEW p \in Process, Crash(p) PROVE KeepInv'
<1>1. UNCHANGED <<disk, time>> /\ proc' = [proc EXCEPT ![p] = Off]
  BY DEF Crash, Step
<1> QED BY <1>1, OffKept, KeepQuiet

LEMMA KeepMinute == ASSUME LogInv, KeepInv, Minute PROVE KeepInv'
<1>1. time' = time + 1 /\ UNCHANGED <<dir, lines, archived, proc>> /\ time \in Nat
  BY LogBounds DEF Minute, disk, LogInv, Global
<1>2. ASSUME NEW p \in Process PROVE Timely(archived, time', proc[p])
  <2>1. Period(time) \in Nat /\ Period(time') \in Nat /\ Period(time) <= Period(time')
    BY <1>1, PeriodMonotone
  <2>2. proc[p].period \in Nat /\ Timely(archived, time, proc[p]) /\ proc[p].stem[1] \in Nat
    BY KeepFacts, ProcFacts, Stemmed
  <2> QED BY <1>1, <2>1, <2>2 DEF Timely
<1> QED BY <1>1, <1>2 DEF KeepInv

(* Removing an active name. *)
LEMMA KeepUnlink ==
    ASSUME LogInv, KeepInv, NEW p \in Process, NEW r, proc' = [proc EXCEPT ![p] = r], NEW u,
           dir' = Unlinked(Active(u)), UNCHANGED <<lines, time, archived>>,
           StaleOK(archived, lines, r), Timely(archived, time, r)
    PROVE  KeepInv'
<1>1. DOMAIN dir' = DOMAIN dir \ {Active(u)} /\ \A y \in DOMAIN dir' : dir'[y] = dir[y]
  BY UnlinkedDef
<1>2. \A s : Archive(s) \in DOMAIN dir => Archive(s) \in DOMAIN dir'
  BY <1>1, Names
<1> QED BY <1>1, <1>2, KeepStep

LEMMA KeepUnprobe == ASSUME LogInv, KeepInv, NEW p \in Process, Unprobe(p) PROVE KeepInv'
<1> DEFINE r == proc[p]
<1>1. PICK s : s = [r EXCEPT !.pc = "create", !.stem = NextIndex(@)]
  OBVIOUS
<1>2. /\ r.pc = "unprobe" /\ proc' = [proc EXCEPT ![p] = s] /\ dir' = Unlinked(Active(r.stem))
      /\ UNCHANGED <<lines, time, archived>>
  BY <1>1 DEF Unprobe, Step
<1>3. /\ s.pc = "create" /\ s.op = r.op /\ s.stem = NextIndex(r.stem) /\ s.todo = r.todo
      /\ s.period = r.period /\ s.file = r.file
  BY <1>1, ProcFacts DEF LogFiles
<1>4. (Owning(s) <=> Owning(r)) /\ ~Probing(s) /\ Probing(r) /\ s.stem[1] = r.stem[1]
  BY <1>2, <1>3 DEF Owning, Probing, NextIndex
<1>5. Timely(archived, time, s)
  BY <1>2, <1>3, <1>4, KeepFacts DEF Timely
<1>6. StaleOK(archived, lines, s)
  BY <1>3, KeepFacts, SameStale
<1> QED BY <1>2, <1>5, <1>6, KeepUnlink

LEMMA KeepAbort == ASSUME LogInv, KeepInv, NEW p \in Process, AbortRotation(p) PROVE KeepInv'
<1>1. PICK s : s = Idle(proc[p])
  OBVIOUS
<1>2. /\ proc[p].pc = "abort" /\ proc' = [proc EXCEPT ![p] = s]
      /\ dir' = Unlinked(Active(proc[p].stem)) /\ UNCHANGED <<lines, time, archived>>
  BY <1>1 DEF AbortRotation, Step
<1>3. Owning(proc[p]) /\ proc[p].op # "drop"
  BY <1>2, ProcFacts DEF Owning, ProcOK, ProcType
<1>4. StaleOK(archived, lines, s) /\ Timely(archived, time, s)
  BY <1>1, <1>3, IdleKept
<1> QED BY <1>2, <1>4, KeepUnlink

LEMMA KeepRemove == ASSUME LogInv, KeepInv, NEW p \in Process, RemoveActive(p) PROVE KeepInv'
<1> DEFINE r == proc[p]
<1>1. PICK s : s = IF r.op = "rotate" THEN Switched(r) ELSE [r EXCEPT !.pc = "list"]
  OBVIOUS
<1>2. /\ r.pc = "unlink" /\ proc' = [proc EXCEPT ![p] = s] /\ dir' = Unlinked(Active(r.path))
      /\ UNCHANGED <<lines, time, archived>>
  BY <1>1 DEF RemoveActive, Step
<1>3. StaleOK(archived, lines, s) /\ Timely(archived, time, s)
  <2>1. CASE r.op = "rotate"
    <3>1. s = Switched(r) /\ Probing(r)
      BY <1>1, <1>2, <2>1 DEF Probing
    <3> QED BY <3>1, SwitchedKept
  <2>2. CASE r.op # "rotate"
    <3>1. s.pc = "list" /\ s.op = r.op /\ s.todo = r.todo
      BY <1>1, <2>2, ProcFacts DEF LogFiles
    <3>2. r.op = "drop"
      BY <1>2, <2>2, ProcFacts DEF ProcOK, ProcType, LogFiles
    <3>3. ~Owning(s) /\ ~Probing(s)
      BY <3>1, <3>2 DEF Owning, Probing
    <3>4. Timely(archived, time, s)
      BY <3>1, <3>3 DEF Timely
    <3> QED BY <3>1, <3>4, KeepFacts, SameStale
  <2> QED BY <2>1, <2>2
<1> QED BY <1>2, <1>3, KeepUnlink

LEMMA KeepCreate == ASSUME LogInv, KeepInv, NEW p \in Process, CreateNew(p) PROVE KeepInv'
<1> DEFINE r == proc[p]
<1>1. PICK n : n = stamp + 1
  OBVIOUS
<1>2. PICK s : s = [r EXCEPT !.pc = "check", !.fresh = n]
  OBVIOUS
<1>3. /\ r.pc = "create" /\ proc' = [proc EXCEPT ![p] = s] /\ Active(r.stem) \notin DOMAIN dir
      /\ dir' = Linked(Active(r.stem), n)
      /\ lines' = [f \in DOMAIN lines \cup {n} |-> IF f = n THEN {} ELSE lines[f]]
      /\ UNCHANGED <<time, archived>>
  BY <1>1, <1>2 DEF CreateNew, Step, Creatable
<1>4. /\ DOMAIN dir' = DOMAIN dir \cup {Active(r.stem)}
      /\ \A y \in DOMAIN dir : y # Active(r.stem) /\ dir'[y] = dir[y]
  <2>1. PICK x : x = Active(r.stem)
    OBVIOUS
  <2>2. /\ DOMAIN Linked(x, n) = DOMAIN dir \cup {x}
        /\ \A y \in DOMAIN dir \ {x} : Linked(x, n)[y] = dir[y]
    BY DEF Linked
  <2> QED BY <1>3, <2>1, <2>2
<1>5. \A a \in archived : a[2] # n /\ a[2] \in DOMAIN lines
  <2>1. stamp \in Nat /\ DOMAIN lines \subseteq 1 .. stamp
    BY ProcFacts DEF LogInv, Global, FilesOK
  <2>2. n \notin DOMAIN lines
    BY <1>1, <2>1
  <2> QED BY <2>2 DEF KeepInv
<1>6. DOMAIN lines \subseteq DOMAIN lines' /\ \A a \in archived : lines'[a[2]] = lines[a[2]]
  BY <1>3, <1>5
<1>7. /\ s.pc = "check" /\ s.op = r.op /\ s.file = r.file /\ s.period = r.period /\ s.todo = r.todo
      /\ s.stem = r.stem /\ s.fresh = n
  BY <1>2, ProcFacts DEF LogFiles
<1>8. Probing(s) /\ (Owning(s) <=> Owning(r))
  BY <1>3, <1>7 DEF Owning, Probing
<1>9. Timely(archived, time, s)
  BY <1>3, <1>5, <1>7, <1>8, KeepFacts DEF Timely
<1>10. StaleOK(archived, lines, s)
  BY <1>7, KeepFacts, SameStale
<1>11. \A x \in DOMAIN dir' : x[2] = "log" => x \in DOMAIN dir /\ dir'[x] = dir[x]
  BY <1>4, Names
<1> QED BY <1>3, <1>4, <1>6, <1>9, <1>10, <1>11, KeepStep

(* Only a file that is not archived is written. *)
LEMMA KeepWrite == ASSUME LogInv, KeepInv, NEW p \in Process, WriteLine(p) PROVE KeepInv'
<1> DEFINE r == proc[p]
<1>1. PICK n : n = stamp + 1
  OBVIOUS
<1>2. lines' = [lines EXCEPT ![r.file] = @ \cup {n}] /\ UNCHANGED <<dir, time, archived>>
  BY <1>1 DEF WriteLine
<1>3. PICK s : /\ proc' = [proc EXCEPT ![p] = s]
               /\ \/ r.pc = "idle" /\ r.period = Period(time) /\ s = r
                  \/ r.pc = "write" /\ s = Idle(r)
  BY DEF WriteLine, Step
<1>4. Owning(r) /\ r.op # "drop"
  BY <1>3, ProcFacts DEF Owning, ProcOK, ProcType
<1>5. \A a \in archived : a[2] # r.file /\ a[2] \in DOMAIN lines
  BY <1>3, <1>4, KeepFacts DEF Timely, KeepInv
<1>6. DOMAIN lines \subseteq DOMAIN lines' /\ \A a \in archived : lines'[a[2]] = lines[a[2]]
  BY <1>2, <1>5
<1>7. StaleOK(archived, lines, s) /\ Timely(archived, time, s)
  BY <1>3, <1>4, IdleKept, KeepFacts
<1> QED BY <1>2, <1>3, <1>6, <1>7, KeepStep

(* The new archive is in the directory and makes no other one young. *)
LEMMA KeepLink == ASSUME LogInv, KeepInv, NEW p \in Process, HardLink(p) PROVE KeepInv'
<1> DEFINE r == proc[p]
<1>1. r.pc = "link" /\ UNCHANGED <<lines, time>>
  BY DEF HardLink, Step
<1>2. Owning(r) /\ r.path \in Claims(r) /\ Active(r.path) \in DOMAIN dir /\ dir[Active(r.path)] = r.file
  BY <1>1, ProcFacts DEF Owning, Claims, ProcOK, Holds
<1>3. CASE Archive(r.path) \in DOMAIN dir
  <2>1. PICK s : s = Failed(r)
    OBVIOUS
  <2>2. proc' = [proc EXCEPT ![p] = s] /\ UNCHANGED <<disk, time>>
    BY <1>3, <2>1 DEF HardLink, Step, disk
  <2>3. StaleOK(archived, lines, s) /\ Timely(archived, time, s)
    BY <1>1, <2>1, FailedKept
  <2> QED BY <2>2, <2>3, KeepQuiet
<1>4. CASE Archive(r.path) \notin DOMAIN dir
  <2>1. PICK s, e : s = [r EXCEPT !.pc = "unlink"] /\ e = <<r.path, r.file>>
    OBVIOUS
  <2>2. /\ proc' = [proc EXCEPT ![p] = s] /\ dir' = Linked(Archive(r.path), r.file)
        /\ archived' = archived \cup {e}
    BY <1>2, <1>4, <2>1 DEF HardLink, Step
  <2>3. /\ DOMAIN dir' = DOMAIN dir \cup {Archive(r.path)} /\ dir'[Archive(r.path)] = r.file
        /\ \A y \in DOMAIN dir : y # Archive(r.path) /\ dir'[y] = dir[y]
    <3>1. PICK x, f : x = Archive(r.path) /\ f = r.file
      OBVIOUS
    <3>2. /\ DOMAIN Linked(x, f) = DOMAIN dir \cup {x} /\ Linked(x, f)[x] = f
          /\ \A y \in DOMAIN dir \ {x} : Linked(x, f)[y] = dir[y]
      BY DEF Linked
    <3> QED BY <1>4, <2>2, <3>1, <3>2
  <2>4. /\ e[1] = r.path /\ e[2] = r.file /\ r.file \in DOMAIN lines
        /\ e \in Stems \X Files /\ archived \subseteq Stems \X Files
    <3>1. r.file \in DOMAIN lines /\ r.path \in Stems
      BY <1>2, ProcFacts DEF LogInv, Global, FilesOK
    <3>2. r.file \in Files
      BY <3>1, ProcFacts, LogBounds DEF LogInv, Global, FilesOK, Files
    <3> QED BY <2>1, <3>1, <3>2 DEF LogInv, Global
  <2>5. ASSUME NEW a \in archived, Old(archived, lines, a) PROVE Old(archived', lines, a)
    BY <2>2, <2>4, <2>5, OldGrows
  <2>6. Listed(dir', archived')
    <3>1. Archive(r.path)[1] = r.path
      BY Names
    <3> QED BY <2>1, <2>2, <2>3, <3>1 DEF KeepInv, Listed
  <2>7. Retained(dir', archived', lines)
    <3>1. Retained(dir, archived, lines)
      BY DEF KeepInv
    <3> SUFFICES ASSUME NEW a \in archived'
                 PROVE  Held(dir', a) \/ \E b \in archived' : b[1] = a[1] /\ Old(archived', lines, b)
      BY DEF Retained
    <3>2. CASE a = e
      BY <2>3, <2>4, <3>2 DEF Held
    <3>3. CASE a # e
      <4>1. a \in archived
        BY <2>2, <3>3
      <4>2. Held(dir, a) => Held(dir', a)
        BY <2>3 DEF Held
      <4>3. \A b \in archived : b \in archived'
        BY <2>2
      <4> QED BY <2>5, <3>1, <4>1, <4>2, <4>3 DEF Retained
    <3> QED BY <3>2, <3>3
  <2>8. \A a \in archived' : a[2] \in DOMAIN lines
    BY <2>2, <2>4 DEF KeepInv
  <2>9. /\ s.pc = "unlink" /\ s.op = r.op /\ s.file = r.file /\ s.stem = r.stem /\ s.fresh = r.fresh
        /\ s.period = r.period /\ s.todo = r.todo
    BY <2>1, ProcFacts DEF LogFiles
  <2>10. Owning(s) /\ (Probing(s) <=> Probing(r)) /\ r.op \in {"rotate", "drop"}
    BY <1>1, <2>9, ProcFacts DEF Owning, Probing, ProcOK, ProcType, LogFiles
  <2>11. Probing(r) => r.fresh # r.file
    <3>1. Probing(r) => /\ Active(r.stem) \in DOMAIN dir /\ dir[Active(r.stem)] = r.fresh
                        /\ r.path # r.stem
      BY <1>2, ProcFacts DEF ProcOK, Holds
    <3>2. r.path \in Stems /\ r.stem \in Stems
      BY ProcFacts
    <3> QED BY <1>2, <3>1, <3>2 DEF LogInv, Global, FilesOK
  <2>12. Timely(archived', time, s)
    BY <1>1, <1>2, <2>2, <2>4, <2>9, <2>10, <2>11, KeepFacts DEF Timely
  <2>13. ASSUME NEW q \in Process, q # p PROVE Timely(archived', time, proc[q])
    <3>1. Timely(archived, time, proc[q])
      BY KeepFacts
    <3>2. Owning(proc[q]) => proc[q].file # r.file
      <4>1. Owning(proc[q]) => proc[q].path \in Claims(proc[q]) /\ dir[Active(proc[q].path)] = proc[q].file
        BY ProcFacts DEF Claims, ProcOK, Holds
      <4> QED BY <1>2, <2>13, <4>1, ClaimsApart
    <3>3. Probing(proc[q]) => proc[q].fresh # r.file
      <4>1. Probing(proc[q]) => proc[q].stem \in Claims(proc[q]) /\ dir[Active(proc[q].stem)] = proc[q].fresh
        BY ProcFacts DEF Claims, ProcOK, Holds
      <4> QED BY <1>2, <2>13, <4>1, ClaimsApart
    <3> QED BY <2>2, <2>4, <3>1, <3>2, <3>3 DEF Timely
  <2>14. ASSUME NEW q \in Process
         PROVE  StaleOK(archived', lines, proc'[q]) /\ Timely(archived', time, proc'[q])
    <3>1. proc'[q].todo = proc[q].todo
      BY <2>2, <2>9 DEF LogInv
    <3>2. StaleOK(archived, lines, proc[q])
      BY KeepFacts
    <3>3. StaleOK(archived', lines, proc'[q])
      BY <2>2, <2>5, <3>1, <3>2 DEF StaleOK
    <3>4. Timely(archived', time, proc'[q])
      <4>1. CASE q = p
        BY <2>2, <2>12, <4>1 DEF LogInv
      <4>2. CASE q # p
        BY <2>2, <2>13, <4>2 DEF LogInv
      <4> QED BY <4>1, <4>2
    <3> QED BY <3>3, <3>4
  <2> QED BY <1>1, <2>6, <2>7, <2>8, <2>14 DEF KeepInv
<1> QED BY <1>3, <1>4

(* prune counts in the directory, which is no more than was ever archived. *)
LEMMA ExcessOld ==
    ASSUME LogInv, KeepInv, NEW x \in Excess(Archives)
    PROVE  \E a \in archived : a[1] = x[1] /\ Old(archived, lines, a)
<1>1. PICK Y : Y = {y \in Archives : MTime(dir[y]) > MTime(dir[x])}
  OBVIOUS
<1>2. x \in Archives /\ Cardinality(Y) >= MaxFiles
  BY <1>1 DEF Excess
<1>3. PICK a : a = <<x[1], dir[x]>>
  OBVIOUS
<1>4. a \in archived /\ a[1] = x[1] /\ a[2] = dir[x]
  BY <1>2, <1>3 DEF Archives, KeepInv, Listed
<1>5. PICK T : T = Newer(archived, lines, a)
  OBVIOUS
<1>6. IsFiniteSet(T)
  <2>1. T \subseteq Stems \X Files
    BY <1>5 DEF Newer, LogInv, Global
  <2> QED BY <2>1, FiniteArchives
<1>7. PICK f : f = [y \in Y |-> <<y[1], dir[y]>>]
  OBVIOUS
<1>8. \A y \in Y : f[y] \in T
  <2> SUFFICES ASSUME NEW y \in Y PROVE f[y] \in T
    OBVIOUS
  <2>1. f[y] \in archived /\ f[y][2] = dir[y]
    BY <1>1, <1>7 DEF Archives, KeepInv, Listed
  <2>2. Max(lines[dir[y]] \cup {dir[y]}) > Max(lines[dir[x]] \cup {dir[x]})
    BY <1>1 DEF MTime
  <2> QED BY <1>4, <1>5, <2>1, <2>2 DEF Newer
<1>9. \A y, z \in Y : f[y] = f[z] => y = z
  <2>1. Y \subseteq Stems \X {"log"}
    BY <1>1 DEF Archives, LogInv, Global, FilesOK
  <2> QED BY <1>7, <2>1
<1>10. f \in Injection(Y, T)
  BY <1>7, <1>8, <1>9 DEF Injection, IsInjective
<1>11. IsFiniteSet(Y) /\ Cardinality(Y) <= Cardinality(T)
  BY <1>6, <1>10, FS_Injection
<1>12. Cardinality(Y) \in Nat /\ Cardinality(T) \in Nat
  BY <1>6, <1>11, FS_CardinalityType
<1>13. Old(archived, lines, a)
  BY <1>2, <1>5, <1>11, <1>12, MaxFilesPositive DEF Old
<1> QED BY <1>4, <1>13

LEMMA KeepList == ASSUME LogInv, KeepInv, NEW p \in Process, List(p) PROVE KeepInv'
<1> DEFINE r == proc[p] E == Excess(Archives)
<1>1. PICK t \in [1 .. Cardinality(E) -> E] : Step(p, "list", [r EXCEPT !.pc = "prune", !.todo = t])
  BY DEF List
<1>2. UNCHANGED <<disk, time>>
  BY DEF List
<1>3. Cardinality(E) \in Nat
  BY ExcessFinite
<1>4. PICK s : s = [r EXCEPT !.pc = "prune", !.todo = t]
  OBVIOUS
<1>5. r.pc = "list" /\ proc' = [proc EXCEPT ![p] = s]
  BY <1>1, <1>4 DEF Step
<1>6. s.pc = "prune" /\ s.op = r.op /\ s.file = r.file /\ s.period = r.period /\ s.todo = t
  BY <1>4, ProcFacts DEF LogFiles
<1>7. ~Probing(s) /\ (Owning(s) <=> Owning(r))
  BY <1>5, <1>6 DEF Owning, Probing
<1>8. Timely(archived, time, s)
  BY <1>5, <1>6, <1>7, KeepFacts DEF Timely
<1>9. \A x \in E : \E a \in archived : a[1] = x[1] /\ Old(archived, lines, a)
  BY ExcessOld
<1> HIDE DEF E
<1>10. StaleOK(archived, lines, s)
  <2>1. \A i \in 1 .. Len(t) : t[i] \in E
    BY <1>3
  <2> QED BY <1>6, <1>9, <2>1 DEF StaleOK
<1> QED BY <1>2, <1>5, <1>8, <1>10, KeepQuiet

(* What prune removes was old when it was listed, so it is old now. *)
LEMMA KeepPrune == ASSUME LogInv, KeepInv, NEW p \in Process, PruneNext(p) PROVE KeepInv'
<1> DEFINE r == proc[p]
<1>1. r.pc = "prune" /\ r.todo # <<>> /\ UNCHANGED <<lines, time, archived>>
  BY DEF PruneNext, Step
<1>2. PICK x : x = Head(r.todo)
  OBVIOUS
<1>3. r.todo \in Seq(Stems \X {"log"})
  BY ProcFacts DEF LogFiles
<1>4. x \in Stems \X {"log"} /\ x = r.todo[1] /\ 1 \in 1 .. Len(r.todo)
  BY <1>1, <1>2, <1>3
<1>5. CASE x \notin DOMAIN dir
  <2>1. PICK s : s = Failed(r)
    OBVIOUS
  <2>2. proc' = [proc EXCEPT ![p] = s] /\ UNCHANGED <<disk, time>>
    BY <1>1, <1>2, <1>5, <2>1 DEF PruneNext, Step, disk
  <2>3. StaleOK(archived, lines, s) /\ Timely(archived, time, s)
    BY <1>1, <2>1, FailedKept
  <2> QED BY <2>2, <2>3, KeepQuiet
<1>6. CASE x \in DOMAIN dir
  <2>1. PICK s : s = [r EXCEPT !.todo = Tail(@)]
    OBVIOUS
  <2>2. proc' = [proc EXCEPT ![p] = s] /\ dir' = Unlinked(x)
    BY <1>2, <1>6, <2>1 DEF PruneNext, Step
  <2>3. DOMAIN dir' = DOMAIN dir \ {x} /\ \A y \in DOMAIN dir' : dir'[y] = dir[y]
    BY <2>2, UnlinkedDef
  <2>4. /\ s.pc = r.pc /\ s.op = r.op /\ s.file = r.file /\ s.period = r.period
        /\ s.todo = Tail(r.todo)
    BY <2>1, ProcFacts DEF LogFiles
  <2>5. (Owning(s) <=> Owning(r)) /\ ~Probing(s) /\ ~Probing(r)
    BY <1>1, <2>4 DEF Owning, Probing
  <2>6. Timely(archived, time, s)
    BY <1>1, <2>4, <2>5, KeepFacts DEF Timely
  <2>7. StaleOK(archived, lines, s)
    <3>1. PICK q \in Seq(Stems \X {"log"}) : q = r.todo /\ q # <<>>
      BY <1>1, <1>3
    <3>2. Len(Tail(q)) = Len(q) - 1 /\ Len(q) \in Nat
      BY <3>1
    <3>3. \A i \in 1 .. Len(q) - 1 : i + 1 \in 1 .. Len(q) /\ Tail(q)[i] = q[i + 1]
      BY <3>1, <3>2
    <3>4. \A i \in 1 .. Len(q) : \E a \in archived : a[1] = q[i][1] /\ Old(archived, lines, a)
      BY <3>1, KeepFacts DEF StaleOK
    <3> QED BY <2>4, <3>1, <3>2, <3>3, <3>4 DEF StaleOK
  <2>8. Listed(dir', archived')
    BY <1>1, <2>3 DEF KeepInv, Listed
  <2>9. Retained(dir', archived', lines')
    <3> SUFFICES ASSUME NEW a \in archived
                 PROVE  Held(dir', a) \/ \E b \in archived : b[1] = a[1] /\ Old(archived, lines, b)
      BY <1>1 DEF Retained
    <3>1. Held(dir, a) \/ \E b \in archived : b[1] = a[1] /\ Old(archived, lines, b)
      BY DEF KeepInv, Retained
    <3>2. CASE Archive(a[1]) # x
      BY <2>3, <3>1, <3>2 DEF Held
    <3>3. CASE Archive(a[1]) = x
      <4>1. PICK b \in archived : b[1] = x[1] /\ Old(archived, lines, b)
        BY <1>4, KeepFacts DEF StaleOK
      <4>2. a[1] = x[1]
        BY <3>3, Names
      <4> QED BY <4>1, <4>2
    <3> QED BY <3>2, <3>3
  <2>10. \A q \in Process : StaleOK(archived, lines, proc'[q]) /\ Timely(archived, time, proc'[q])
    BY <2>2, <2>6, <2>7 DEF KeepInv, LogInv
  <2> QED BY <1>1, <2>8, <2>9, <2>10 DEF KeepInv
<1> QED BY <1>5, <1>6

(* Every step preserves the invariant. *)
LEMMA NextKeep == LogInv /\ KeepInv /\ [LogNext]_logVars => KeepInv'
<1> SUFFICES ASSUME LogInv, KeepInv, [LogNext]_logVars PROVE KeepInv'
  OBVIOUS
<1>1. ASSUME NEW p \in Process,
             \/ NewLog(p) \/ NameTaken(p) \/ CreateNew(p) \/ CheckArchive(p) \/ Unprobe(p)
             \/ HardLink(p) \/ RemoveActive(p) \/ AbortRotation(p)
             \/ List(p) \/ PruneNext(p) \/ Pruned(p)
             \/ Rotate(p) \/ WriteLine(p) \/ Drop(p) \/ CallFails(p) \/ Crash(p)
      PROVE  KeepInv'
  BY <1>1, KeepNew, KeepTaken, KeepCreate, KeepCheck, KeepUnprobe, KeepLink, KeepRemove, KeepAbort,
     KeepList, KeepPrune, KeepPruned, KeepRotate, KeepWrite, KeepDrop, KeepFail, KeepCrash
<1>2. CASE UNCHANGED logVars
  BY <1>2 DEF logVars, disk, KeepInv
<1> QED BY <1>1, <1>2, KeepMinute DEF LogNext

(* If an archive is gone, it or another one of its name has max_files      *)
(* newer ones, for any number of processes that rotate, prune and fail,    *)
(* and also when a stem is used for several archives.                      *)
THEOREM OnlyOldIsPruned == LogSpec => []PrunesOnlyOld
<1>1. LogInv /\ KeepInv => PrunesOnlyOld
  <2> SUFFICES ASSUME LogInv, KeepInv, NEW a \in archived
               PROVE  \/ Archive(a[1]) \in DOMAIN dir /\ dir[Archive(a[1])] = a[2]
                      \/ \E b \in archived :
                            /\ b[1] = a[1]
                            /\ Cardinality({c \in archived : MTime(c[2]) > MTime(b[2])}) >= MaxFiles
    BY DEF PrunesOnlyOld
  <2>1. Held(dir, a) \/ \E b \in archived : b[1] = a[1] /\ Old(archived, lines, b)
    BY DEF KeepInv, Retained
  <2>2. \A b \in archived : Newer(archived, lines, b) = {c \in archived : MTime(c[2]) > MTime(b[2])}
    BY DEF Newer, MTime
  <2> QED BY <2>1, <2>2 DEF Held, Old
<1> QED BY <1>1, InitLog, NextLog, InitKeep, NextKeep, PTL DEF LogSpec
=============================================================================

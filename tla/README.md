# Verification of rosbridge_server_rs

TLA+ models of the rosbridge server in `src/`, the TLC configurations that
check them on small instances, and TLAPS proofs of the results that should hold
for every number of clients, queue size or pool size.  All paths below are
relative to the repository; the Rust sources are in `src/src/`.

`PROJECT.json` maps every definition to the lines it models and lists the
hazards the properties are aimed at.

## 1. The system

A tokio runtime runs one task per WebSocket connection.  One thread, the *ROS
worker*, owns the ROS node and the `Bridge`.  They meet in two places only:

    WebSocket task --- incoming.rs (commands) ---> ROS worker: Bridge <-> rcl
          ^                                             |
          +-------------- outgoing.rs (batches) <-------+
                          + a shared pool of encoding permits

| component (source) | state | operations | what makes it hard |
|---|---|---|---|
| command queue (`incoming.rs`) | per client: pending connect, messages, disconnect flag, scheduled flag; a shared ready list; closed flag | connect, message, disconnect, shutdown by the sessions; try_recv by the worker | many senders, a lossless order built from three fields per client, `unwrap`s that rely on the ready list, fairness between clients |
| outbound queue and encoding pool (`outgoing.rs`, `encoding.rs`) | per connection two lanes with byte counts, open/closed flags and reason, two notifications, one receiver; a shared semaphore | send (evict, queue or close), drop; recv: check, sleep, acquire, take, encode in a blocking job, finish; abort | notifications sent after the lock is released, permits that move into jobs which outlive the socket task, results that arrive after a close, byte limits |
| bridge core (`bridge/mod.rs`) | outputs, failed clients | connect, command, send, tick, disconnect, shutdown | commands queued behind the end of their client, sends that fail half-way through a tick |
| services (`bridge/services.rs`) | calls, services, external requests; ROS handles and request headers (`ros/mod.rs`) | call, advertise, unadvertise, respond; response and request events; two time-outs | response against time-out against disconnect, replacing a service while requests wait |
| topics (`bridge/topics.rs`) | publishers with owners and registrations; subscriptions with clients, throttle state, queues, a retained message | advertise, publish, unadvertise, subscribe, unsubscribe; message events; throttle timers | entities shared by clients and ids, three paths of one message to one client |
| action clients (`bridge/actions.rs`) | goals, outstanding calls, five handles per goal | send, cancel; acceptance, result, cancel answer, feedback; acceptance deadline; disconnect | events of one goal in any order, partial creation, goals of a client that leaves |
| action servers (`bridge/actions.rs`) | action servers, goals with waiting requests and a cached result | advertise, unadvertise, result, feedback; goal, result and cancel requests; expiry of finished goals | `HashMap` indexing that panics, answers of which some fail, cancel after the end |
| ROS backend (`ros/mod.rs`, `backend.rs`) | handles, request headers | create, destroy, request, respond, poll | modelled as part of the bridge modules and of `Rosapi` |
| server (`server.rs`, `shutdown.rs`, `main.rs`) | the accept loop, the connection tasks, the worker thread, the grace period | start, bind, accept, register, disconnect, worker round, stop, abort, join | failure of the worker or of a start-up step, tasks that run on their own time-outs while the process ends |
| wait set and wake-up (`ros/wait.rs`) | the guard condition, the wake handle | trigger, wait, end of the worker | a command queued between the check of the queue and the wait |
| WebSocket session (`websocket.rs`) | pending ping, a `Notify` permit, the sink behind a fair lock | reader, writer, heartbeat, closing handshake | four time-outs, stale permits and late pongs, batches of several frames |
| rosapi and parameters (`ros/api.rs`, `ros/parameters.rs`) | groups, pending calls, parameter clients, request headers | request, response, expiry at a deadline | requests that fan out to nodes which answer together, late or never; errors half-way |
| log files (`logging/file.rs`) | the active file and period of each process; the directory they share | create, write, rotate, prune, finalise | several system calls per rotation, crashes, two processes in one directory |
| wire format, access control, configuration, message conversion | | | see section 8 |

What each component must guarantee is stated by the properties in section 4.

## 2. Modules

| module | models | state and actions |
|---|---|---|
| `CommandChannel` | what `incoming.rs` promises to one connection: connect first, accepted messages once and in order, nothing after the disconnect | `phase`, `sent`, `got` per connection |
| `Incoming` | `incoming.rs` and the way `server.rs` drives it | one variable per field of `Client` and `State`; `Connect`, `Message`, `Disconnect`, `Shutdown` of `Sender`; `RecvDisconnect`, `RecvConnect`, `RecvMessage`, `RecvShutdown` are the ways out of `try_recv`; `WorkerFails` drops the `Receiver`.  Each call holds the mutex throughout and is one action |
| `Outgoing` | `outgoing.rs` with the pool of `encoding.rs` | `EnqueueTopic`, `EnqueueControl`, `DropOutput` under the mutex, followed by separate `Notify` steps; `recv` is split at every await and every lock (`RecvCheck`, `RecvWake`, `Acquire`, `AcquireClosed`, `Start`, `Finish`); `JobCheck` and `JobEnd` are the blocking job; `DropReceiver` is the end or the abort of the socket task at any await |
| `BridgeClients` | what all parts of the bridge share: outputs, failed clients, `Bridge::send`, and the phases of the worker's loop | extended by the next four |
| `BridgeServices` | `services.rs`, `calls`, `external`, and the handle and request tables of `ros/mod.rs` | one action per command outcome, per event taken and handled, per timer |
| `BridgeTopics` | `topics.rs` and the throttle part of `tick` | the same |
| `BridgeGoals` | the client half of `actions.rs` | the same |
| `BridgeActionServers` | the server half of `actions.rs` | the same |
| `Session` | `websocket.rs`: `run_with_timing` and the closing handshake | the sink's `Mutex` is the queue of its holder and waiters; a write reaches the wire before its flush returns (`PingSent`, `PingFlushed`); one action per await of the reader (`Read...`, `ReaderWrites`), the writer (`Recv`, `RecvNone`, `WriterSends`) and the heartbeat (`Probe`, `CheckPending`, `Notified`, `PongTimeout`); `Ended` is the `select!` |
| `Server` | `server.rs`, `shutdown.rs`, `ros/wait.rs`, with the channel and the sessions reduced to what the life of an `Output` needs | discrete time; tasks with deadlines; `Trigger` is the wake-up that follows a command; `Worker...` the loop of the ROS worker; `Accept`, `JoinNext` and `NapEnds` the accept loop, whose 100 ms sleep (`nap`) begins anew in every turn; `Stop`, `Joined`, `Abort`, `Exit` the shutdown; `StartFails`, `BindFails`, `AcceptFails` the ways `run` returns early |
| `Rosapi` | `ros/api.rs`, `ros/parameters.rs` and the take of `poll` | `Poll` takes a batch; `GraphReply`, `Parameter`, `PassOn` and the four kinds of `Response` handle one event; `StartExpiry`, `Expire`, `EndPoll` the deadlines; an error that is not caught ends the worker |
| `LogFile` | `logging/file.rs` and the call in `logging.rs` that creates it | one action per system call (`CreateNew`, `CheckArchive`, `Unprobe`, `HardLink`, `RemoveActive`, `List`, `PruneNext`, `WriteLine`, ...); `CallFails` and `Crash` at any of them |
| `IncomingProofs`, `OutgoingProofs`, `BridgeServicesProofs`, `BridgeTopicsProofs`, `BridgeGoalsProofs`, `BridgeActionServersProofs`, `SessionProofs`, `ServerProofs` (of `Server`, `Rosapi` and `LogFile`) | theorems | section 6 |
| `MC*` | instances for TLC; some add a symmetry set | |

The bridge is a single thread, so the four bridge modules need no interleaving
of their own with each other: they share only the clients and the order of the
loop, which is what `BridgeClients` holds.  An action of the worker is one
command or one step of `tick`; between two of them sockets may close
(`OutputCloses`).  Commands may be executed only in phase `commands`, events
are handled in the order `poll` returned them, then the timers run, then failed
clients are disconnected (`Reap`): the order of `Bridge::tick`.

Abstractions: a payload is the number of the message; a deadline is an action
that may be taken whenever the timers run; `Bridge::send` fails for any subset
of the addressed clients (a full control lane) and always for a closed one;
names, types and ids are small sets; which error refused a command is not told
apart (`CommandRefused`), but errors that leave a trace have an action of their
own (`CallServiceFails`, `AdvertiseServiceFails`, `SendGoalFails`,
`ActionResultTorn`, `HandleRequestFails`).  Each module has one type invariant,
`TypeOK`; it is a conjunct of one of the named invariants of its run.  History
variables (`got`, `bypass`, `asker`, `replies`, `told`, `answers`, `log`,
`abandoned`, `stranded`, `wire`, `echoed`, `accepted`, `archived`, ...) record
what was delivered or done; no step of the code depends on them (`told` is also
the set of requests a client may answer).

Definitions marked `\* mutant` are wrong variants of the definition that follows
them.  `PROJECT.json` names for each property one such variant that breaks it;
they show that the property depends on the code it is about.

## 3. Fairness

* `Incoming`: `WF(Recv)`.  The worker loops for ever and never waits longer than
  100 ms (`Bridge::next_wakeup`); the sessions are not assumed to do anything.
* `Outgoing`: `WF` of the pending `Notify` of each sender, of each receiver task
  and of each encoding job: the runtime runs every runnable task, and a job
  that was spawned runs to its end.  Nothing is assumed of senders, nor that a
  particular waiter obtains a permit while others compete for it beyond weak
  fairness of its own step; tokio's semaphore is FIFO, which is stronger.
* Bridge modules: `WF(Tick)`, the loop again, and `SF` of each timer: a
  deadline lies in the future only for a finite time, so an entry that is seen
  by infinitely many runs of the timers is overdue in one of them.  The same
  holds for a throttle interval.  Nothing is assumed of ROS or of clients.
* `Session`: `WF` of what the task does by itself (`RecvNone`, `CheckPending`,
  `Notified`) and of its timers (`PongTimeout`, `WriteTimeout`,
  `GiveUpClosing`).  No read and no write is fair: the peer may stall for ever.
* `Rosapi`: `WF` of the steps of the worker's loop, and `SF` of a poll that finds
  a given group past its deadline, for the reason given above.
* `Server`: `WF` of the tasks that cannot wait, of the worker, of a pending
  trigger and of the shutdown, `SF` of the clock.  The clock only moves when
  nothing has to happen before, so tasks and timers do not starve each other.
  Neither connections nor signals are assumed to come, and connections may come
  and end for ever.  `worker.is_finished()` is read only when the accept loop's
  sleep is over, and every `accept` and `join_next` begins a new one: the end of
  that sleep is fair, but it is only enabled when nothing arrived for its whole
  length.  So `ServerExits` promises the exit after the end of the worker unless
  connections are accepted for ever.
* `LogFile` has safety properties only.

## 4. Runs

Deadlock checking is off everywhere because every model may stop: after
`Shutdown`, when the worker has failed, or when its bounds are used up.

| run | what is asked | properties |
|---|---|---|
| `incoming` | two clients with three messages each and queue size 2 | `ReadyIffWork` (the ready list names exactly the clients with work, so the `unwrap`s of `try_recv` never fail and nothing is forgotten; a message is refused as full exactly when `Capacity` messages wait), `BoundedBypass` (nobody is served twice while another waits), `ChannelSpec` (refinement of `CommandChannel`), `EventuallyServed` |
| `outgoing` | one connection, two topics, sizes around the byte limit, every topic limit, frames and requests | `LanesFaithful` (bytes are accounted for, control batches are delivered or the connection closes, topics keep their order), `CloseIsFinal`, `EvictOwnTopic` |
| `outgoing_pool` | two connections and one permit, with aborts at every await | `PermitsConserved`, `WakeupPending`, `ControlDelivered` |
| `services` | two clients, one service name with two types, three advertisements, two requests in one batch, one call | `ResourcesOwned` (tables and ROS handles agree and belong to connected clients), `RequestsAnswerable` (a forwarded request keeps its header and its service until it is answered or given up; an answer, however late, reaches no request another client was asked, and no other request of the same advertisement), `AnsweredOnce`, `CallsEnd`, `FailedReaped` |
| `topics` | two clients on one topic, transient-local or not, three messages, with and without a throttle, registrations that change the queue length between 0 and 1 | `SharedEntities` (a ROS entity lives as long as a registration), `LateJoiner`, `InOrder` (no message overtakes another or comes twice), `QueueBounded`, `PendingDrains` |
| `goals` | two clients, two goals, a cancel, feedback, two events per batch | `Conversation`, `GoalsTracked`, `LeaversCancel` (an accepted goal stops being tracked only with its result or after a cancel request, which may have failed, and only the goals of clients that leave are cancelled so), `GoalsDecided` |
| `action_servers` | two clients, one action advertised twice, two goals, four requests | `ServersTracked` (no index can panic, requests are kept until answered), `SameResult`, `GoalLife` |
| `session` | three frames of the peer, a batch of two frames, two pings | `BatchIntact` (nothing but an automatic pong between the fragments of a batch), `ProbeMatchesPong` (a stale permit or another pong never counts, an early pong does), `SessionEnds`, `ProbeResolved` |
| `server` | two connections at a time, each of which may come again, start-up, a signal, the end of the worker, a tick that hangs | `NoLostWake` (the worker does not sleep on a command), `GraceSuffices` (connections end by themselves within the grace period unless a tick is held up in ROS), `ServerExits` (a signal ends the process, and so does the end of the worker unless connections keep arriving) |
| `rosapi` | two nodes, three requests, five parameter clients, two events per poll, calls into rcl that fail, also after some of a request's calls were made | `GroupsMatchCalls` (the `unwrap` of `parameter_response` is safe, no ROS client is left behind), `HeadersTracked` (each request is answered or discarded once), `EveryRequestEnds` |
| `logfile` | two processes in one directory, one archive kept, one crash or failed call anywhere | `NoLineLost`, `PrunesOnlyOld` (a name that is gone was once that of an archive with `max_files` newer ones), `ArchiveFree` |
| `log_retention` | the same two processes, one archive kept, no crash and no failed call | `RetainsMaxFiles` |

All of them pass but `log_retention`, which expects TLC to find the violation.
`RetainsMaxFiles` is the sentence of `docs/configuration.md:88`, "`max_files`
retains that many completed timestamped `.log` archives": at least as many as
were completed, up to `max_files`.  In the trace one process lists an old archive
for pruning; the other prunes it first, gets its stem for a new file within the
same minute and completes that; the first then removes the new archive by the
name it had listed.  Three archives were completed, one is to be kept, and the
directory has none.

## 5. Bounds, and why they are enough

The bounds are constants named `Max...`; they appear only in guards.  The races
the properties are about involve at most two parties and one resource that is
created, destroyed and created again, so two clients, two creations and a batch
of two events reach every order of the steps involved.  In particular:

* a queue of size 2 with three messages overflows, wraps and is re-queued;
* `ByteLimit = 3` with sizes 1, 2 and 4 has a batch that fits, one that fits
  only after an eviction and one that never fits; `Capacity = 2` with two
  topics has a full lane without a batch of the topic offered;
* one permit and two connections is the smallest pool that is contended;
* three advertisements and two requests let a service be replaced and
  replaced again while a request of the first waits;
* two events per batch let a response and a result, or a request and the
  feedback of its goal, be handled in one tick before the timers;
* queue lengths 0 and 1 and three messages let a throttled client's queue
  shrink while it is full, and drop, keep and deliver messages; each client has
  one registration at a time, without an id, that may be replaced.  Several ids of
  one client would not fit beside the rest, and the theorems on the safety
  properties hold for every set of ids;
* two pings with three frames let the pong of the first arrive before its own
  flush, after the second ping, or not at all, next to a frame that makes the
  reader compete for the sink with a batch that is half written;
* the times of `Server` are scaled (2, 2, 1 and a grace period of 5 for 10 s,
  10 s, 1 s and 12 s, and one unit for each 100 ms wait); `GraceAssumption` names the one relation that matters and
  that the constants of the code satisfy.  `SlowTime = 6` is longer than the
  grace period, `Budget = 2` is the smallest that has a command before the last
  one of a round;
* three requests and five clients let a group expire while the answers of
  another are in the same poll, and `delete_param` make its second call;
* one archive kept, two minutes and five stamps (creations and writes) let two
  processes collide on a name, rotate and prune each other's archives, with one
  fault at any system call; the reuse of a name in `log_retention` takes one
  minute and three files, and no fault.

Symmetry (of clients, types, UUIDs or processes) is used only in runs that check
no liveness property.  Where a proof exists, the bounds on clients, queue and
pool sizes do not matter.

## 6. Proofs

`IncomingProofs`, for every `Conn`, `Capacity >= 1` and `MaxSent`:
`TypeCorrect`, `NoPanic`, `NoLostWork`, `ReadyExact` (`ReadyIffWork`),
`FifoBacklog`, `RoundRobin` (`BoundedBypass`) and `Refinement` (`ChannelSpec`).  The inductive invariant `IInv` joins the type invariant with
`QueueInv` (the ready list has no duplicates and holds exactly the clients whose
`scheduled` flag is set), `WorkInv` (a registered client is scheduled iff it has
work), `Backlog` and `BypassInv`.  None of the properties is inductive alone:
that `unwrap` is safe needs the flag to agree with the list, and this needs both
directions of "scheduled iff work".  `BypassInv` strengthens the fairness
property with the positions in the list: a client that was served once while
`c` waits stands behind `c`.  `Refinement` maps the four fields of a client to
one phase and shows that every step is a step of `CommandChannel` or leaves it
unchanged.  That a message is refused only when `Capacity` messages wait needs
the capacity as an upper bound in the invariant (`FullExact`).

`OutgoingProofs`, for every finite set of connections, all limits and any number
of workers: `PermitConservation`, from an invariant that says who holds a permit
in which state of receiver and job (finite-set cardinalities; an abort moves the
permit from the task to the job or back to the pool); `NoLostWakeup`, from an
invariant that ties the stored notifications to the notifications still to be
sent; and `FinalClose`, an action property from the same invariant.
`FaithfulLanes` (`LanesFaithful`) and the action property `EvictsOwnTopic`
(`EvictOwnTopic`) follow from `LaneInvariance`.  `LaneInv` says of each
connection (`ConnOK`) that lanes, batch in flight and counters have their
`Shape`, that what was delivered, is in flight and is queued has rising numbers,
none above the last one offered (`Order`), that a closed connection has empty
lanes, and that the `Books` of an open one are right: bytes, batches and, for the
control lane, the exact number of each batch.  The property alone is not
inductive: it does not say that a closed connection has nothing left to take,
that the next number is larger than all others, or to which lane a queued batch
belongs.  The loop of `enqueue` and the bytes of a lane are recursive functions,
and what they compute is proved by induction: `LeastNatural` is the library's
well-foundedness of `<`, `Induction` follows because a set that misses a natural
misses a least one, `SumExists` and `TurnsExist` build the functions that `Bytes`
and `Evict` choose, and `EvictTurn` shows that a turn of the loop keeps
`EvictedFrom`: the lane has what it had, in order, but for the oldest batches of
the topic.

`BridgeServicesProofs`, for every set of clients, services and types and every
bound on calls, advertisements and requests: `OneReply` (`AnsweredOnce`),
`HandlesAreOwned`, `NothingOrphaned` and, from both, `OwnedResources`
(`ResourcesOwned`).
`CallInv` says that a pending call was issued by its connected owner, has its
own ROS client and has no reply yet, that any other call of a connected client
has one, and that numbers not yet used have none; the last part is what makes a
new call start without a reply, and the numbering is what makes a late response
miss.  `ServiceInv` says that the ROS services are those of the table, that each
owner is connected and that entities are numbered below the next one, without
which a new service could share the entity of an old one.  `Awaited` adds that
the client a forwarded request waits for is connected, which needs `ServiceInv`
for the step that forwards it.  `RequestsStayAnswerable`
(`RequestsAnswerable`) takes `RequestInv`: `Batch` follows a request from the
poll that took it to the handler, where its service may be gone or advertised
again, `Forwarded` says that each forwarded request has the number, the entity
and the owner of a live service, and `HeadersKept` that what `Ros` keeps for the
answer exists exactly for the requests in the batch or forwarded.  The three
need each other: the handler can only keep the header of a request if the batch
says that the header is there and that no other request uses it.  Where an
answer goes follows from `ToldInv`: the identifiers of an advertisement go up to
its counter and are never given twice, so a late answer with the identifier of
another request can only come from the client's earlier advertisement.

`BridgeTopicsProofs`, for every set of clients, topics and ids, every set of
queue lengths and any number of messages: `EntitiesAreShared`
(`SharedEntities`), `MessagesInOrder` (`InOrder`), `LateJoinersAreFed`
(`LateJoiner`) and the action property `QueuesAreBounded` (`QueueBounded`), all
from `TopicInvariance`.  `TopicInv` joins `Batch` (the messages of a poll that
wait to be handled are numbered without gaps after those handled before, so a
message that is handled is newer than anything a client has), `Subscriptions`
and `Publishers` (each entry of the tables has its own live ROS entity and the
entities are those of the entries).  For each client `InLine` says that what
waits is in order and newer than what was handed over, and `Fed` that a client
of a transient-local topic has nothing newer than the retained message and
something if there is one.  `InOrder` is not inductive alone: direct delivery
is in order only because it is done when nothing waits, and because the batch
is numbered.  A queue may be longer than the length asked for, when a later
registration asks for less; what is bounded is its growth, and the lemmas show
for each step that the queue shrinks, stays or ends below the shortest length
(`Limited`).

`BridgeGoalsProofs`, for every set of clients and tags and every bound:
`ConversationEnds` (`Conversation`), `GoalsAreTracked` (`GoalsTracked`) and the
action property `LeaversAreCancelled` (`LeaversCancel`), all from
`GoalInvariance`.  The last covers cancel requests that fail: such a goal is
`stranded`, and only goals whose client is gone can be.  `GoalInv` joins `Owned` (a goal belongs to its connected
asker, and its entities exist), `Calls` (each outstanding call to an action
server is of the stage its goal is in), `Logged` (what the client of a goal was
sent, and that the numbers not yet used have an empty log), `Held` and
`Bounded`; the last counts, for every goal, the feedback that poll has taken and
tick has not handled, so that the model's bound on feedback is kept.

`BridgeActionServersProofs`, for every set of clients, actions, types and UUIDs
and every bound: `ServersAreTracked` (`ServersTracked`), `ResultsAgree`
(`SameResult`) and the action property `GoalsLive` (`GoalLife`), all from
`ActionInvariance`.  `ActionInv` joins `ServersOK` (the ROS entities are the five
of each server, entities are numbered below the next one), `GoalsOK` (goals are
known by number and by action and UUID, a goal with a result has a terminal
status and nobody waiting, and no request waits twice), `Hosted`, `BatchOK` (the
requests of a poll are new, all different, of live servers, and gone when
commands run), `RequestsOK` (`Ros.requests` is what the batch and the goals hold)
and `AnswersOK`.  `SameResult` needs the last two: an answer already given about
a goal without a result would contradict the next one, so `AnswersOK` ties every
answer to the stored result of its goal.  `RequestsTracked` needs that the
numbers in the batch are not yet with a goal, which is where a request passes
from one to the other (`HandleResultWaits`).

`SessionProofs`, for any number of frames, batches and pings: `ProbesMatch`
(`ProbeMatchesPong`).  `ProbeInv` adds what relates the three places a pong
passes: the pending ping is the last one and has not been echoed, a heartbeat
that waits although nothing is pending has a permit stored, and one that sleeps
has nothing pending.  Without the permit a heartbeat could time out after its
pong was read.  `BatchesIntact` (`BatchIntact`) takes `BatchInv`: `SinkUse`
says who may write in which state of the fair lock, and `WireInv` that a batch
that is not complete on the wire is the one whose writer still holds the lock,
or that nothing but a close may follow.  The property itself only compares
frames that are on the wire, and says nothing about who may write next.

`ServerProofs`, for every set of connections, all times and every budget:
`WorkerWoken` (`NoLostWake`).  The property is inductive with the types, because
it counts the senders that are between their command and the trigger; the
argument is that a command or the close of the channel always leaves one, and
that a trigger cannot be lost while the worker waits.  `GraceIsEnough`
(`GraceSuffices`) takes `GraceInv`: `Deadlines` bounds the time each connection
task needs in the stage it is in and the worker's tick, `Outputs` says that only
registered connections have an `Output` and that neither a closed channel nor
the bridge of a worker that is gone holds one, `Stages` relates how far `main`
and the worker are, and `InTime` says that what a task still needs is less than
what is left of the grace period, unless the last tick is a slow one.  This last part
is a sum over the stages a task may still pass (handshake, one batch, close),
and `GraceAssumption` is exactly the comparison of that sum with the constants
of the code.

`ServerProofs` on `Rosapi` (whose specification has prefixed names, `RosapiSpec`
and so on, so that a module can extend both), for any number of nodes, requests,
clients and events:
`HeadersAreTracked` and `GroupsAreMatched`.  `Numbers` says that nothing carries
a number that was not handed out yet, `EventInv` that a request is to be handled
once and before its group exists, `HeaderInv` and `CallInv` are the two
properties with the finiteness and the uniqueness of calls they need: a client
is destroyed with its call only because no other call shares it.  `TakenBack` is
the error path of a request that made some of its calls: `Finish` takes back
exactly those.

`ServerProofs` on `LogFile` (with prefixed names, `LogSpec` and so on), for any
number of processes, files, crashes and failed calls and every rotation period:
`LinesAreKept` (`NoLineLost`), `ArchivesAreFree` (`ArchiveFree`) and
`OnlyOldIsPruned` (`PrunesOnlyOld`).  The first two follow from `LogInv`: a process
claims the `.logging` name of its LogFile (`Owning`) and the one `create` has just
made (`Probing`), the claims of two processes never meet, and behind a claimed
name is the file the process has open.  So nobody else unlinks or writes that
file; a probe that is removed is empty (`Holds`); and between `hard_link` and the
removal of the active name the archive has the lines, or they were retired
(`Moving`).  That an index never leaves its range needs that it is smaller than
the number of files ever made.  `PrunesOnlyOld` needs `KeepInv` as well: a name
that is about to be pruned is that of an archive with `max_files` newer ones (`StaleOK`, which
compares the directory that `prune` lists with the history by an injection), and
stays so because an archived file is never written again (`Timely`): when the
removal of the active name fails the process keeps a file that is archived, but
of a period that has ended, and periods grow with time (`PeriodMonotone`).

The assumptions on constants are named (`CapacityAssumption`,
`LimitAssumption`, `NoServiceAssumption`, `GraceAssumption`, `QueuesAssumption`,
`BoundsAssumption` in the bridge modules and `Session`, ...) and are
evaluated by TLC in the runs.  The inductive invariants were checked with TLC on
the instances of the runs before they were proved.

## 7. Only model-checked

* Liveness (`EventuallyServed`, `ControlDelivered`, `CallsEnd`, `FailedReaped`,
  `PendingDrains`, `GoalsDecided`, `SessionEnds`, `ProbeResolved`, `ServerExits`,
  `EveryRequestEnds`): outside the prover's reach.

Every safety invariant and every action property that a passing run checks is
also stated by a theorem of section 6.  `log_retention` is a counterexample and
has none.

## 8. Not modelled

* Wire format (`wire.rs`): conversions of values, and the reassembly of
  fragments, which is a sequential function of a map that one task owns.  Its
  result is an input of `Session` (`ReadData`, `ReadBad`), and the number of
  frames of a batch a constant.
* Access control (`access.rs`): glob matching of names against fixed settings.
  A refused command is one of the refusals of the bridge modules.
* Message conversion (`ros/message.rs`, `ros/definitions.rs`): reflection over C
  structures, where correctness is about memory layout.
* `config.rs`, `main.rs`: parsing of settings, no state after start-up.
* What a graph request computes (`ros/graph.rs`), the layout of the rcl wait set,
  QoS, log formatting: data no property tells apart.
* Calls into rcl and DDS: the models let them succeed or fail at any time.
* Overflow of `Instant::now() + timeout` (`services.rs`, `actions.rs`): time is
  abstract here; the panic would need a time-out of centuries.

## 9. Observations

One disagreement with the documentation is a finding, with a run of its own:

* A pruned archive's name can be used again within the same minute
  (`logging/file.rs:68-73`), and a process that still prunes from an older
  listing then removes the new archive by its name (`file.rs:152`).  Fewer than
  `max_files` archives are left, against `docs/configuration.md:88`
  (`RetainsMaxFiles`, run `log_retention`).

Besides, the models show this, which no document speaks of:

* `next_request` begins at 0 again when a service is advertised again
  (`services.rs:129-134`).  A late answer to a request of the earlier
  advertisement then answers the new request with the same identifier
  (`services.rs:199-200`), if the same client advertised both.
  `RequestsAnswerable` says that this is the only way an answer can go astray.
* When a client leaves, the result of the cancel request is ignored and the goal
  is destroyed anyway (`bridge/mod.rs:648-654`).  If the request fails, an accepted
  goal runs on and nobody tracks it (`stranded`).
* The accept loop notices the end of the worker only in a turn in which nothing
  arrives for 100 ms (`server.rs:148-176`), so connections that come and end more
  often than that postpone the shutdown (`ServerExits`).
* A file that another process removed first makes `prune` return an error.
* When `remove_file` fails after `hard_link`, the active file keeps its name and
  the archive exists, so every later rotation of that file fails with
  `AlreadyExists`.  No accepted line is lost, and without such a failure it
  cannot happen (`ArchiveFree`).
* An error of `parameter_response`, or of `finish` at a deadline, is propagated
  by `?` and ends the ROS worker, while an error of a request is logged and
  discarded (the isolation that `CHANGELOG.md` speaks of).  The server then shuts
  down in order (`ServerExits`).
* A failed `accept` returns from `run` without the orderly shutdown; tasks and
  worker end with the process.
* `GraceSuffices` depends on the length of a tick: a worker that is held up in
  ROS longer than the grace period keeps the outputs open, and the connections
  are aborted.

## 10. Plan

1. `Server` against `Incoming`: show that its channel, one entry per client, is
   implemented by the queue with a backlog.
2. Fragment assembly with its limits and its expiry against a reference
   definition, if it ever becomes shared between tasks.

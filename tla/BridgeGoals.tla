----------------------------- MODULE BridgeGoals -----------------------------
(***************************************************************************)
(* Action goals that WebSocket clients send to ROS action servers          *)
(* (src/src/bridge/actions.rs: send_goal, cancel_goal, finish_goal; the    *)
(* goal part of Bridge::response, topic_message, tick and disconnect).     *)
(*                                                                         *)
(* A goal owns three ROS clients and two ROS subscriptions.  It is sent,   *)
(* accepted or rejected, then its result is asked for; meanwhile feedback  *)
(* flows and it may be cancelled.  Goals are numbered in the order of the  *)
(* send_action_goal commands; time is abstracted: a goal that is not       *)
(* accepted may be overdue whenever the timers run.                        *)
(***************************************************************************)
EXTENDS BridgeClients, SequencesExt

CONSTANTS
    Tag,                \* the action and the id a client names a goal by
    MaxGoals,           \* bound: send_action_goal commands
    MaxFeedback,        \* bound: feedback messages taken from ROS
    MaxCancels,         \* bound: cancel requests sent
    MaxBatch            \* bound: events taken by one poll

ASSUME BoundsAssumption ==
    {MaxGoals, MaxFeedback, MaxCancels, MaxBatch} \subseteq Nat

VARIABLES
    goals,              \* Bridge.goals: [n, owner, tag, accepted, cancelling]
    action_calls,       \* Bridge.action_calls: <<kind, n>>
    handles,            \* live ROS entities of goals: <<kind, n>>
    events,             \* what poll returned and tick has not handled yet
    heard,              \* feedback messages taken so far
    cancels,            \* cancel requests sent so far
    (* History, by goal. *)
    asker,              \* asker[n]: who sent goal n
    log,                \* log[n]: what its owner was sent about goal n
    abandoned,          \* goals ROS was asked to cancel when their owner left
    stranded,           \* goals for which that request failed: they run on
    unanswerable        \* accepted goals whose result could not be asked for

goalVars == <<goals, action_calls, handles, events, heard, cancels, asker, log,
              abandoned, stranded, unanswerable>>
vars == <<clientVars, goalVars>>

Clients == {"send", "result", "cancel"}
Kinds == Clients \cup {"feedback", "status"}

sent == Len(asker)

GoalRec == [n : Nat, owner : Conn, tag : Tag, accepted : BOOLEAN,
            cancelling : BOOLEAN]
EventRec == [kind : Kinds, n : Nat, ok : BOOLEAN]

(* The shape of the state. *)
TypeOK ==
    /\ ClientsTypeOK
    /\ goals \subseteq GoalRec
    /\ \A g, h \in goals : g.n = h.n => g = h
    /\ action_calls \subseteq Clients \X (1..sent)
    /\ handles \subseteq Kinds \X (1..sent)
    /\ events \in Seq(EventRec)
    /\ heard \in 0..MaxFeedback
    /\ cancels \in 0..MaxCancels
    /\ asker \in Seq(Conn)
    /\ sent \in 0..MaxGoals
    /\ log \in [1..MaxGoals -> Seq({"feedback", "error", "result"})]
    /\ \A n \in 1..MaxGoals : Len(log[n]) <= MaxFeedback + MaxCancels + 1
    /\ abandoned \cup stranded \subseteq 1..sent
    /\ unanswerable \subseteq 1..sent

Init ==
    /\ ClientsInit
    /\ goals = {}
    /\ action_calls = {}
    /\ handles = {}
    /\ events = << >>
    /\ heard = 0
    /\ cancels = 0
    /\ asker = << >>
    /\ log = [n \in 1..MaxGoals |-> << >>]
    /\ abandoned = {}
    /\ stranded = {}
    /\ unanswerable = {}

(* The goal numbered n, as a set. *)
Goal(n) == {g \in goals : g.n = n}

Numbers(G) == {g.n : g \in G}

(* What a client is sent about the goals numbered in N. *)
Tell(N, what) ==
    [n \in 1..MaxGoals |-> IF n \in N THEN Append(log[n], what) ELSE log[n]]

-----------------------------------------------------------------------------
(* Bridge::send_goal.  A goal that is refused or cannot be sent leaves no  *)
(* ROS entity behind and is answered at once (Bridge::error).              *)
SendGoal(c, t) ==
    /\ Commands(c)
    /\ sent < MaxGoals
    /\ \A g \in goals : g.owner # c \/ g.tag # t
    /\ asker' = Append(asker, c)
    /\ goals' = goals \cup {[n |-> sent + 1, owner |-> c, tag |-> t,
                             accepted |-> FALSE, cancelling |-> FALSE]}
    /\ handles' = handles \cup (Kinds \X {sent + 1})
    /\ action_calls' = action_calls \cup {<<"send", sent + 1>>}
    /\ UNCHANGED <<clientVars, events, heard, cancels, log, abandoned,
                   stranded, unanswerable>>

SendGoalFails(c) ==
    /\ Commands(c)
    /\ sent < MaxGoals
    /\ asker' = Append(asker, c)
    /\ log' = Tell({sent + 1}, "result")
    /\ Send({c})
    /\ UNCHANGED <<outputs, seen, phase, goals, action_calls, handles, events,
                   heard, cancels, abandoned, stranded, unanswerable>>

(* Bridge::cancel_goal *)
CancelGoal(c, g) ==
    /\ Commands(c)
    /\ g \in goals
    /\ g.owner = c
    /\ ~g.cancelling
    /\ g.accepted
    /\ cancels < MaxCancels
    /\ cancels' = cancels + 1
    /\ goals' = (goals \ {g}) \cup {[g EXCEPT !.cancelling = TRUE]}
    /\ action_calls' = action_calls \cup {<<"cancel", g.n>>}
    /\ UNCHANGED <<clientVars, handles, events, heard, asker, log, abandoned,
                   stranded, unanswerable>>

(* Any other outcome of cancel_action_goal: a status message. *)
CommandRefused(c) ==
    /\ Commands(c)
    /\ Send({c})
    /\ UNCHANGED <<outputs, seen, phase, goalVars>>

-----------------------------------------------------------------------------
(* Bridge::finish_goal of the goals in G: their owners, if still there,    *)
(* get the result, and nothing of the goals is left.                       *)
FinishKeepsCalls(G) ==                          \* mutant
    /\ goals' = goals \ G
    /\ log' = Tell(Numbers({g \in G : g.owner \in outputs'}), "result")
    /\ UNCHANGED action_calls
    /\ handles' = {x \in handles : x[2] \notin Numbers(G)}

FinishKeepsGoal(G) ==                           \* mutant
    /\ log' = Tell(Numbers({g \in G : g.owner \in outputs'}), "result")
    /\ UNCHANGED <<goals, handles, action_calls>>

Finish(G) ==
    /\ goals' = goals \ G
    /\ log' = Tell(Numbers({g \in G : g.owner \in outputs'}), "result")
    /\ action_calls' = {x \in action_calls : x[2] \notin Numbers(G)}
    /\ handles' = {x \in handles : x[2] \notin Numbers(G)}

-----------------------------------------------------------------------------
(* Bridge::tick: poll takes answers to outstanding requests and feedback.  *)
(* ok is "accepted" for send, "return_code is 0" for cancel, and "about    *)
(* this goal" for feedback, which all goals of an action share.            *)
StartTick ==
    /\ Advance("commands", "poll")
    /\ UNCHANGED <<outputs, failed, closed, seen, goalVars>>

TakeResponse(x, ok) ==
    /\ phase = "poll"
    /\ x \in action_calls
    /\ Len(events) < MaxBatch
    /\ events' = Append(events, [kind |-> x[1], n |-> x[2], ok |-> ok])
    /\ UNCHANGED <<clientVars, goals, action_calls, handles, heard, cancels,
                   asker, log, abandoned, stranded, unanswerable>>

TakeFeedback(n, ok) ==
    /\ phase = "poll"
    /\ <<"feedback", n>> \in handles
    /\ Len(events) < MaxBatch
    /\ heard < MaxFeedback
    /\ heard' = heard + 1
    /\ events' = Append(events, [kind |-> "feedback", n |-> n, ok |-> ok])
    /\ UNCHANGED <<clientVars, goals, action_calls, handles, cancels, asker,
                   log, abandoned, stranded, unanswerable>>

EndPoll ==
    /\ Advance("poll", "events")
    /\ UNCHANGED <<outputs, failed, closed, seen, goalVars>>

(* The next event is of this kind; it is for the goals in Goal(Head.n).    *)
Event(kind) ==
    /\ phase = "events"
    /\ events # << >>
    /\ Head(events).kind = kind
    /\ events' = Tail(events)

Outstanding == <<Head(events).kind, Head(events).n>> \in action_calls

(* Bridge::topic_message for a feedback subscription.  The model lets      *)
(* every goal ask for feedback.                                            *)
HandleFeedback ==
    /\ Event("feedback")
    /\ LET G == {g \in Goal(Head(events).n) : Head(events).ok}
       IN  /\ log' = Tell(Numbers(G), "feedback")
           /\ Send({g.owner : g \in G})
    /\ UNCHANGED <<outputs, seen, phase, goals, action_calls, handles, heard,
                   cancels, asker, abandoned, stranded, unanswerable>>

(* Bridge::response.  An answer to a request that is not outstanding is    *)
(* ignored.                                                                *)
HandleStale ==
    /\ phase = "events"
    /\ events # << >>
    /\ Head(events).kind \in Clients
    /\ ~Outstanding
    /\ events' = Tail(events)
    /\ UNCHANGED <<clientVars, goals, action_calls, handles, heard, cancels,
                   asker, log, abandoned, stranded, unanswerable>>

(* The goal is accepted, and its result is asked for ...                   *)
HandleAccepted ==
    /\ Event("send")
    /\ Outstanding
    /\ Head(events).ok
    /\ LET n == Head(events).n
       IN  /\ goals' = {g \in goals : g.n # n}
                         \cup {[g EXCEPT !.accepted = TRUE] : g \in Goal(n)}
           /\ \/ /\ action_calls' = (action_calls \ {<<"send", n>>})
                                      \cup {<<"result", x>> : x \in Numbers(Goal(n))}
                 /\ UNCHANGED unanswerable
              (* ... or cannot be, which is only logged.                   *)
              \/ /\ action_calls' = action_calls \ {<<"send", n>>}
                 /\ unanswerable' = unanswerable \cup Numbers(Goal(n))
    /\ UNCHANGED <<clientVars, handles, heard, cancels, asker, log, abandoned,
                   stranded>>

(* The goal is rejected, or its result arrives. *)
HandleFinal ==
    /\ \/ Event("send") /\ ~Head(events).ok
       \/ Event("result")
    /\ Outstanding
    /\ UNCHANGED <<outputs, seen, phase>>
    /\ Finish(Goal(Head(events).n))
    /\ Send({g.owner : g \in Goal(Head(events).n)})
    /\ UNCHANGED <<heard, cancels, asker, abandoned, stranded, unanswerable>>

(* ROS answers a cancel request; a refusal lets the client ask again. *)
HandleCancelled ==
    /\ Event("cancel")
    /\ Outstanding
    /\ action_calls' = action_calls \ {<<"cancel", Head(events).n>>}
    /\ LET G == {g \in Goal(Head(events).n) : ~Head(events).ok}
       IN  /\ goals' = (goals \ G) \cup {[g EXCEPT !.cancelling = FALSE] : g \in G}
           /\ log' = Tell(Numbers(G), "error")
           /\ Send({g.owner : g \in G})
    /\ UNCHANGED <<outputs, seen, phase, handles, heard, cancels, asker,
                   abandoned, stranded, unanswerable>>

EndEvents ==
    /\ events = << >>
    /\ Advance("events", "timers")
    /\ UNCHANGED <<outputs, failed, closed, seen, goalVars>>

(* Goals not accepted by their deadline. *)
OverdueAccepted(g) == g.accepted                \* mutant

MayBeOverdue(g) == ~g.accepted

ExpireGoal(g) ==
    /\ phase = "timers"
    /\ g \in goals
    /\ MayBeOverdue(g)
    /\ UNCHANGED <<outputs, seen, phase>>
    /\ Finish({g})
    /\ Send({g.owner})
    /\ UNCHANGED <<events, heard, cancels, asker, abandoned, stranded,
                   unanswerable>>

EndTimers ==
    /\ Advance("timers", "reap")
    /\ UNCHANGED <<outputs, failed, closed, seen, goalVars>>

(* Bridge::disconnect of every client in D: ROS is asked to cancel the     *)
(* goals it has accepted.                                                  *)
ToCancelUnlessAsked(G) ==                       \* mutant
    Numbers({g \in G : g.accepted /\ ~g.cancelling})

ToCancel(G) == Numbers({g \in G : g.accepted})

(* A request that fails is ignored, and its goal forgotten all the same.   *)
Release(D) ==
    /\ outputs' = outputs \ D
    /\ LET G == {g \in goals : g.owner \in D}
       IN  /\ \E F \in SUBSET ToCancel(G) :
                /\ abandoned' = abandoned \cup (ToCancel(G) \ F)
                /\ stranded' = stranded \cup F
           /\ Finish(G)

Reap ==
    /\ Advance("reap", "commands")
    /\ Release(Reaped)
    /\ failed' = {}
    /\ UNCHANGED <<closed, seen, events, heard, cancels, asker, unanswerable>>

(* Command::Disconnect, when the session has ended. *)
Disconnect(c) ==
    /\ phase = "commands"
    /\ c \in seen
    /\ Release({c})
    /\ UNCHANGED <<failed, closed, seen, phase, events, heard, cancels, asker,
                   unanswerable>>

(* Command::Shutdown: Bridge::shutdown. *)
Shutdown ==
    /\ Advance("commands", "stopped")
    /\ Release(outputs)
    /\ UNCHANGED <<failed, closed, seen, events, heard, cancels, asker,
                   unanswerable>>

(* Backend::wait or Backend::poll fails: the worker returns the error and  *)
(* drops the bridge with all its tables and ROS handles.                   *)
WorkerFails ==
    /\ phase \in {"commands", "poll"}
    /\ phase' = "broken"
    /\ outputs' = {}
    /\ goals' = {} /\ action_calls' = {} /\ handles' = {}
    /\ events' = << >>
    /\ UNCHANGED <<failed, closed, seen, heard, cancels, asker, log,
                   abandoned, stranded, unanswerable>>

Tick ==
    \/ StartTick \/ EndPoll \/ EndEvents \/ EndTimers \/ Reap
    \/ HandleFeedback \/ HandleStale \/ HandleAccepted \/ HandleFinal
    \/ HandleCancelled

Next ==
    \/ \E c \in Conn :
          \/ ClientConnect(c) /\ UNCHANGED goalVars
          \/ OutputCloses(c) /\ UNCHANGED goalVars
          \/ \E t \in Tag : SendGoal(c, t)
          \/ SendGoalFails(c)
          \/ \E g \in goals : CancelGoal(c, g)
          \/ CommandRefused(c)
          \/ Disconnect(c)
    \/ \E x \in action_calls, ok \in BOOLEAN : TakeResponse(x, ok)
    \/ \E n \in 1..sent, ok \in BOOLEAN : TakeFeedback(n, ok)
    \/ \E g \in goals : ExpireGoal(g)
    \/ Tick
    \/ Shutdown
    \/ WorkerFails

Spec == Init /\ [][Next]_vars

(* The worker never stops ticking, and time passes: a goal that is not     *)
(* accepted through infinitely many runs of the timers is overdue in one.  *)
FairSpec ==
    /\ Spec
    /\ WF_vars(Tick)
    /\ \A n \in 1..MaxGoals : SF_vars(\E g \in Goal(n) : ExpireGoal(g))

-----------------------------------------------------------------------------
(* Properties. *)

(* What a client hears about a goal: feedback and cancellation errors,     *)
(* then one action_result and nothing after it, whatever order the         *)
(* rejection, the result, the timeout and late feedback come in.  A        *)
(* connected client has either been given the result or has the goal still *)
(* among Bridge.goals.                                                     *)
Conversation ==
    \A n \in 1..sent :
        /\ \A i \in 1..Len(log[n]) : log[n][i] = "result" => i = Len(log[n])
        /\ asker[n] \in outputs =>
              (Contains(log[n], "result") <=> Goal(n) = {})

(* The ROS entities of goals are exactly the five of every active goal,    *)
(* and the active goals are those of connected clients, each named         *)
(* uniquely by its client: nothing is left of a goal that ended or of a    *)
(* client that left, and no command queued behind them brings it back.     *)
HandlesOwned ==
    /\ handles = Kinds \X Numbers(goals)
    /\ \A g \in goals : g.owner \in outputs /\ g.owner = asker[g.n]
    /\ \A g, h \in goals : g.owner = h.owner /\ g.tag = h.tag => g = h

(* A goal is waiting for exactly what it needs to go on: the answer to     *)
(* send_goal until it is accepted and then the answer to get_result        *)
(* (unless that request could not be sent); an unanswered cancel request   *)
(* belongs to a goal marked as cancelling, and no request outlives its     *)
(* goal.                                                                   *)
CallsTracked ==
    /\ \A g \in goals :
          /\ <<"send", g.n>> \in action_calls <=> ~g.accepted
          /\ <<"result", g.n>> \in action_calls
                <=> (g.accepted /\ g.n \notin unanswerable)
          /\ <<"cancel", g.n>> \in action_calls => g.accepted /\ g.cancelling
    /\ \A x \in action_calls : Goal(x[2]) # {}

(* A goal's record, its ROS entities and the answers it waits for come and *)
(* go together.                                                            *)
GoalsTracked == TypeOK /\ HandlesOwned /\ CallsTracked

(* No accepted goal is dropped in silence: one that goes without a result  *)
(* for its client was to be cancelled in ROS, whatever its cancel state,   *)
(* and runs on only if that very request failed (as long as the worker     *)
(* ends in an orderly way).  And a goal whose client is still there is     *)
(* never cancelled on its behalf.                                          *)
LeaversCancel ==
    [][/\ \A g \in goals :
             /\ g.accepted
             /\ Goal(g.n)' = {}
             /\ phase' # "broken"
             => g.n \in abandoned' \cup stranded' \/ Contains(log'[g.n], "result")
       /\ \A n \in (abandoned' \cup stranded') \ (abandoned \cup stranded) :
             asker[n] \notin outputs']_vars

(* A goal does not stay undecided: it is accepted, or it ends.  (Once it   *)
(* is accepted the bridge waits for ROS without a limit.)                  *)
GoalsDecided ==
    \A n \in 1..MaxGoals :
        (\E g \in Goal(n) : ~g.accepted) ~> ~(\E g \in Goal(n) : ~g.accepted)
=============================================================================

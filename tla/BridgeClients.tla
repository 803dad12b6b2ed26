--------------------------- MODULE BridgeClients ---------------------------
(***************************************************************************)
(* The part of the bridge (src/src/bridge/mod.rs) that every kind of       *)
(* resource shares: the connected clients, how a send to a client fails,   *)
(* and the order of work in the ROS worker's loop (src/src/server.rs).     *)
(* The modules about services, topics, goals and action servers extend it. *)
(*                                                                         *)
(* One thread runs the bridge.  It executes commands, then a tick: take    *)
(* the ROS events, handle them one by one, run the timers, and finally     *)
(* disconnect the clients that failed or whose socket is gone.  Only the   *)
(* sockets, which close an Output, run beside it.                          *)
(***************************************************************************)
EXTENDS Naturals, Sequences, FiniteSets

CONSTANT Conn           \* connection identifiers; the server never reuses one

VARIABLES
    outputs,            \* keys of Bridge.outputs
    failed,             \* Bridge.failed
    closed,             \* connections whose Output reports is_closed
    seen,               \* connections that have been connected
    phase               \* where the ROS worker is

clientVars == <<outputs, failed, closed, seen, phase>>

Phases == {"commands", "poll", "events", "timers", "reap", "stopped", "broken"}

ClientsTypeOK ==
    /\ outputs \subseteq seen
    /\ failed \subseteq seen
    /\ closed \subseteq seen
    /\ seen \subseteq Conn
    /\ phase \in Phases

ClientsInit ==
    /\ outputs = {}
    /\ failed = {}
    /\ closed = {}
    /\ seen = {}
    /\ phase = "commands"

(* Bridge::connect *)
ClientConnect(c) ==
    /\ phase = "commands"
    /\ c \notin seen
    /\ outputs' = outputs \cup {c}
    /\ seen' = seen \cup {c}
    /\ UNCHANGED <<failed, closed, phase>>

(* The session of c ends and drops its Receiver. *)
OutputCloses(c) ==
    /\ c \in outputs \ closed
    /\ closed' = closed \cup {c}
    /\ UNCHANGED <<outputs, failed, seen, phase>>

(* Bridge::send to the owners in S, in the control lane.  A failed owner   *)
(* gets nothing more; a closed Output or one whose control lane overflows  *)
(* makes its owner fail; an unknown owner is ignored.                      *)
Send(S) ==
    \E full \in SUBSET ((S \cap outputs) \ (failed \cup closed)) :
        /\ failed' = failed \cup full \cup (S \cap outputs \cap closed)
        /\ closed' = closed \cup full

(* Bridge::send in the topic lane, which drops batches instead. *)
SendTopic(S) ==
    /\ failed' = failed \cup (S \cap outputs \cap closed)
    /\ UNCHANGED closed

CommandsAfterClose(c) ==                        \* mutant
    /\ phase = "commands"
    /\ c \in seen

(* Only clients with an Output may issue commands (Bridge::command). *)
Commands(c) ==
    /\ phase = "commands"
    /\ c \in outputs

(* The loop of the worker, from one step of Bridge::tick to the next. *)
Advance(from, to) ==
    /\ phase = from
    /\ phase' = to

ReapedFailedOnly == failed                      \* mutant

(* The clients that the end of a tick disconnects. *)
Reaped == failed \cup (outputs \cap closed)
=============================================================================

--------------------------- MODULE CommandChannel ---------------------------
(***************************************************************************)
(* What the incoming scheduler promises the connections and the worker,    *)
(* without queues or scheduling: each registration of a connection is a    *)
(* reliable FIFO channel that opens before its first message, hands over   *)
(* message got+1 after message got, and hands over nothing once closing.   *)
(* Stopping discards everything, for good.                                 *)
(***************************************************************************)
EXTENDS Naturals

CONSTANT Conn

VARIABLES
    phase,      \* "absent", "pending", "open" or "closing"
    sent,       \* messages accepted in this registration
    got,        \* messages handed to the worker in this registration
    stopped     \* no registration and no delivery from now on

vars == <<phase, sent, got, stopped>>

Phases == {"absent", "pending", "open", "closing"}

Init ==
    /\ phase = [c \in Conn |-> "absent"]
    /\ sent = [c \in Conn |-> 0]
    /\ got = [c \in Conn |-> 0]
    /\ stopped = FALSE

Register(c) ==
    /\ ~stopped
    /\ phase[c] = "absent"
    /\ phase' = [phase EXCEPT ![c] = "pending"]
    /\ sent' = [sent EXCEPT ![c] = 0]
    /\ got' = [got EXCEPT ![c] = 0]
    /\ UNCHANGED stopped

Open(c) ==
    /\ phase[c] = "pending"
    /\ phase' = [phase EXCEPT ![c] = "open"]
    /\ UNCHANGED <<sent, got, stopped>>

Accept(c) ==
    /\ phase[c] \in {"pending", "open"}
    /\ sent' = [sent EXCEPT ![c] = @ + 1]
    /\ UNCHANGED <<phase, got, stopped>>

Deliver(c) ==
    /\ phase[c] = "open"
    /\ got[c] < sent[c]
    /\ got' = [got EXCEPT ![c] = @ + 1]
    /\ UNCHANGED <<phase, sent, stopped>>

StartClosing(c) ==
    /\ phase[c] \in {"pending", "open"}
    /\ phase' = [phase EXCEPT ![c] = "closing"]
    /\ UNCHANGED <<sent, got, stopped>>

Closed(c) ==
    /\ phase[c] = "closing"
    /\ phase' = [phase EXCEPT ![c] = "absent"]
    /\ UNCHANGED <<sent, got, stopped>>

Stop ==
    /\ stopped' = TRUE
    /\ phase' = [c \in Conn |-> "absent"]
    /\ UNCHANGED <<sent, got>>

Next ==
    \/ \E c \in Conn : \/ Register(c)
                       \/ Open(c)
                       \/ Accept(c)
                       \/ Deliver(c)
                       \/ StartClosing(c)
                       \/ Closed(c)
    \/ Stop

Spec == Init /\ [][Next]_vars
=============================================================================

------------------------------ MODULE Session ------------------------------
(***************************************************************************)
(* One WebSocket session, src/src/websocket.rs: the reader, writer and     *)
(* heartbeat futures of run_with_timing, which one task polls in turn      *)
(* until the first of them ends, and the closing handshake after it.       *)
(*                                                                         *)
(* The three share the sink behind a fair (FIFO) tokio Mutex, the pending  *)
(* ping and a Notify permit.  A write is on the wire before its flush      *)
(* returns, so the peer may answer while it is still in progress.  The     *)
(* network never has to make progress; the timers do.                      *)
(***************************************************************************)
EXTENDS Naturals, Sequences

CONSTANTS
    Probes,         \* ping_interval is not zero
    MaxFrames,      \* bound: frames the peer sends
    MaxBatches,     \* bound: batches the bridge sends
    BatchFrames,    \* frames in a batch
    MaxPings        \* bound: heartbeat sequence

ASSUME BoundsAssumption ==
    {MaxFrames, MaxBatches, MaxPings} \subseteq Nat /\ BatchFrames \in Nat \ {0}

VARIABLES
    received,           \* frames read from the peer, which may send anything
    queued, batches,    \* the Receiver's batches, and how many were sent
    output,             \* the Output: "open", or why it closed
    sink,               \* holder and waiters of the sink's Mutex, in order
    flushing,           \* the holder's frame is on the wire, its flush pending
    reader, writer,     \* the reader's write; the frames left of the writer's batch
    heart, sequence,    \* the heartbeat's step and its last payload
    pending, permit,    \* pending_ping (0 is None) and pong_received's permit
    reply,              \* tungstenite's automatic reply, not yet written
    wire,               \* every frame written
    echoed,             \* probes whose payload a pong has brought back
    phase, end          \* "run", "closing", "draining", "done"; result of the session

outVars == <<queued, batches, output>>
heartVars == <<heart, sequence, pending, permit, echoed>>
sinkVars == <<sink, flushing, reply, wire>>
endVars == <<phase, end>>
vars == <<received, outVars, heartVars, sinkVars, endVars, reader, writer>>

Tasks == {"reader", "writer", "heart"}
Ends == {"PeerClose", "Eof", "OutputClosed", "HeartbeatTimeout", "QueueFull", "Elapsed", "Failed"}

Init ==
    /\ received = 0
    /\ queued = 0 /\ batches = 0 /\ output = "open"
    /\ sink = <<>> /\ flushing = FALSE /\ reply = "none" /\ wire = <<>>
    /\ reader = "read" /\ writer = 0
    /\ heart = "sleep" /\ sequence = 0 /\ pending = 0 /\ permit = FALSE /\ echoed = {}
    /\ phase = "run" /\ end = "none"

--------------------------------------------------------------------------------
(* The bridge enqueues a batch. *)
Enqueue ==
    /\ output = "open"
    /\ batches < MaxBatches
    /\ batches' = batches + 1
    /\ queued' = queued + 1
    /\ UNCHANGED <<received, output, heartVars, sinkVars, endVars, reader, writer>>

(* The Output is dropped, or a full control lane closes it, or an encoding *)
(* fails in recv; its queues are cleared.                                  *)
CloseOutput(reason) ==
    /\ output = "open"
    /\ reason = "encoding" => writer = 0 /\ queued > 0
    /\ output' = reason
    /\ queued' = 0
    /\ UNCHANGED <<received, batches, heartVars, sinkVars, endVars, reader, writer>>

(* select!: the first future to end decides the result, and dropping the   *)
(* others gives up their place in the sink's queue.  The Receiver is       *)
(* dropped before the closing handshake; an end of stream has none.        *)
Ended(e) ==
    /\ phase = "run"
    /\ end' = e
    /\ phase' = IF e = "Eof" THEN "done" ELSE "closing"
    /\ sink' = <<>> /\ flushing' = FALSE
    /\ queued' = 0
    /\ output' = IF output = "open" THEN "dropped" ELSE output
    /\ UNCHANGED batches

(* sink.lock().await *)
Lock(t) == sink' = Append(sink, t)
Holds(t) == phase = "run" /\ sink # <<>> /\ Head(sink) = t
Unlock == sink' = Tail(sink) /\ flushing' = FALSE

(* A frame goes out, and with it the automatic reply. *)
Written(fs) == fs \o (IF reply = "none" THEN <<>> ELSE <<<<reply>>>>)
Write(fs) == wire' = wire \o Written(fs) /\ reply' = "none"

(* reader, Message::Pong: the payload is that of the outstanding ping. *)
Acknowledges(n) == pending # 0 /\ pending = n

(* reader: source.next() returns a frame. *)
Reading == phase = "run" /\ reader = "read" /\ received < MaxFrames /\ received' = received + 1

ReadPong(n) ==
    /\ Reading
    /\ pending' = IF Acknowledges(n) THEN 0 ELSE pending
    /\ permit' = (permit \/ Acknowledges(n))
    /\ echoed' = IF n = sequence THEN echoed \cup {n} ELSE echoed
    /\ UNCHANGED <<outVars, heart, sequence, sinkVars, endVars, reader, writer>>

(* reader, Message::Ping: flush the pong that tungstenite queued. *)
ReadPing ==
    /\ Reading
    /\ reader' = "flush" /\ reply' = "pong"
    /\ Lock("reader")
    /\ UNCHANGED <<outVars, heartVars, flushing, wire, endVars, writer>>

(* reader: a frame that does not decode is answered with a status. *)
ReadBad ==
    /\ Reading
    /\ reader' = "status"
    /\ Lock("reader")
    /\ UNCHANGED <<outVars, heartVars, flushing, reply, wire, endVars, writer>>

(* reader: a decoded command is queued, or the frame was a fragment. *)
ReadData ==
    /\ Reading
    /\ UNCHANGED <<outVars, heartVars, sinkVars, endVars, reader, writer>>

(* reader: a Close, the end of the stream, a failed read, or a command     *)
(* that meets a full or a closed queue ends the session.                   *)
ReadEnd(e) ==
    /\ reader = "read"
    /\ e \in {"PeerClose", "Eof", "Failed", "QueueFull"}
    /\ reply' = IF e = "PeerClose" THEN "close" ELSE reply
    /\ Ended(e)
    /\ UNCHANGED <<received, heartVars, wire, reader, writer>>

(* reader: the pong or the status is written. *)
ReaderWrites ==
    /\ Holds("reader")
    /\ Write(IF reader = "status" THEN <<<<"status">>>> ELSE <<>>)
    /\ reader' = "read"
    /\ Unlock
    /\ UNCHANGED <<received, outVars, heartVars, endVars, writer>>

(* writer: output.recv() returns a batch, *)
Recv ==
    /\ phase = "run" /\ writer = 0 /\ queued > 0
    /\ queued' = queued - 1
    /\ writer' = BatchFrames
    /\ Lock("writer")
    /\ UNCHANGED <<received, output, batches, heartVars, flushing, reply, wire, endVars, reader>>

(* or None, which ends the session. *)
RecvNone ==
    /\ writer = 0 /\ output # "open"
    /\ Ended("OutputClosed")
    /\ UNCHANGED <<received, heartVars, reply, wire, reader, writer>>

(* mutant: the lock is taken for each frame *)
BatchLockPerFrame(left) == IF left = 1 THEN Tail(sink) ELSE Append(Tail(sink), "writer")

(* writer: the lock is held for the whole batch. *)
BatchLock(left) == IF left = 1 THEN Tail(sink) ELSE sink

WriterSends ==
    /\ Holds("writer")
    /\ Write(<<<<"data", writer>>>>)
    /\ writer' = writer - 1
    /\ sink' = BatchLock(writer)
    /\ UNCHANGED <<received, outVars, heartVars, flushing, endVars, reader>>

(* heartbeat: the interval has passed.  The ping is registered before it   *)
(* is sent.                                                                *)
Probe ==
    /\ Probes /\ phase = "run" /\ heart = "sleep" /\ sequence < MaxPings
    /\ sequence' = sequence + 1
    /\ pending' = sequence'
    /\ heart' = "send"
    /\ Lock("heart")
    /\ UNCHANGED <<received, outVars, permit, echoed, flushing, reply, wire, endVars, reader, writer>>

(* heartbeat: the ping reaches the wire, *)
PingSent ==
    /\ Holds("heart") /\ ~flushing
    /\ Write(<<<<"ping", sequence>>>>)
    /\ flushing' = TRUE
    /\ UNCHANGED <<received, outVars, heartVars, sink, endVars, reader, writer>>

(* and its flush returns. *)
PingFlushed ==
    /\ Holds("heart") /\ flushing
    /\ heart' = "check"
    /\ Unlock
    /\ UNCHANGED <<received, outVars, sequence, pending, permit, echoed, reply, wire, endVars, reader, writer>>

(* acknowledged: return if no ping is pending, else wait for the Notify. *)
CheckPending ==
    /\ phase = "run" /\ heart = "check"
    /\ heart' = IF pending = 0 THEN "sleep" ELSE "notified"
    /\ UNCHANGED <<received, outVars, sequence, pending, permit, echoed, sinkVars, endVars, reader, writer>>

(* mutant: the permit is taken for the acknowledgement *)
OnNotifiedAcks == "sleep"

(* acknowledged: a permit, which may be an old one, repeats the check. *)
OnNotified == "check"

Notified ==
    /\ phase = "run" /\ heart = "notified" /\ permit
    /\ permit' = FALSE
    /\ heart' = OnNotified
    /\ UNCHANGED <<received, outVars, sequence, pending, echoed, sinkVars, endVars, reader, writer>>

(* heartbeat: ping_timeout passes; Timeout polls the acknowledgement once  *)
(* more, so a stored permit is seen first.                                 *)
PongTimeout ==
    /\ heart = "notified" /\ ~permit
    /\ Ended("HeartbeatTimeout")
    /\ UNCHANGED <<received, heartVars, reply, wire, reader, writer>>

(* mutant: no deadline for a batch *)
DeadlinesNoBatch == {"reader", "heart"}

(* mutant: no deadline for a ping *)
DeadlinesNoPing == {"reader", "writer"}

(* write_timeout covers each future's wait for the lock and its write. *)
Deadlines == Tasks

WriteTimeout(t) ==
    /\ t \in Deadlines /\ \E i \in 1 .. Len(sink) : sink[i] = t
    /\ Ended("Elapsed")
    /\ UNCHANGED <<received, heartVars, reply, wire, reader, writer>>

(* The peer is gone: the write fails. *)
WriteFails(t) ==
    /\ Holds(t)
    /\ Ended("Failed")
    /\ UNCHANGED <<received, heartVars, reply, wire, reader, writer>>

(* The close code for the result and the Receiver's close_reason. *)
LocalCode ==
    CASE end = "PeerClose" -> "none"
      [] end = "HeartbeatTimeout" -> "Away"
      [] end = "OutputClosed" -> [encoding |-> "Error", full |-> "Again", dropped |-> "Away"][output]
      [] end = "QueueFull" -> "Again"
      [] end \in {"Elapsed", "Failed"} -> "Error"

(* The closing handshake: send Close and drain the peer until its Close,   *)
(* or flush the automatic reply to the peer's Close.                       *)
SendClose ==
    /\ phase = "closing"
    /\ Write(IF LocalCode = "none" THEN <<>> ELSE <<<<"close", LocalCode>>>>)
    /\ phase' = IF LocalCode = "none" THEN "done" ELSE "draining"
    /\ UNCHANGED <<received, outVars, heartVars, sink, flushing, end, reader, writer>>

Drained ==
    /\ phase = "draining"
    /\ phase' = "done"
    /\ UNCHANGED <<received, outVars, heartVars, sinkVars, end, reader, writer>>

(* CLOSE_TIMEOUT passes, or the handshake's write fails. *)
GiveUpClosing ==
    /\ phase \in {"closing", "draining"}
    /\ phase' = "done"
    /\ UNCHANGED <<received, outVars, heartVars, sinkVars, end, reader, writer>>

Next ==
    \/ Enqueue \/ \E reason \in {"dropped", "full", "encoding"} : CloseOutput(reason)
    \/ \E n \in 0 .. MaxPings : ReadPong(n)
    \/ ReadPing \/ ReadBad \/ ReadData \/ ReaderWrites \/ \E e \in Ends : ReadEnd(e)
    \/ Recv \/ RecvNone \/ WriterSends
    \/ Probe \/ PingSent \/ PingFlushed \/ CheckPending \/ Notified \/ PongTimeout
    \/ \E t \in Tasks : WriteTimeout(t) \/ WriteFails(t)
    \/ SendClose \/ Drained \/ GiveUpClosing

Spec == Init /\ [][Next]_vars

(* Only the timers and the task itself are fair, never the peer. *)
FairSpec ==
    /\ Spec
    /\ WF_vars(RecvNone) /\ WF_vars(CheckPending) /\ WF_vars(Notified)
    /\ WF_vars(PongTimeout) /\ \A t \in Tasks : WF_vars(WriteTimeout(t))
    /\ WF_vars(GiveUpClosing)

--------------------------------------------------------------------------------
(* The state's types; the sink's queue holds each future at most once. *)
TypeOK ==
    /\ received \in 0 .. MaxFrames
    /\ queued \in 0 .. MaxBatches /\ output \in {"open", "dropped", "full", "encoding"}
    /\ sink \in Seq(Tasks) /\ \A i, j \in 1 .. Len(sink) : sink[i] = sink[j] => i = j
    /\ reader \in {"read", "flush", "status"} /\ writer \in 0 .. BatchFrames
    /\ heart \in {"sleep", "send", "check", "notified"} /\ sequence \in 0 .. MaxPings
    /\ pending \in 0 .. MaxPings /\ {permit, flushing} \subseteq BOOLEAN
    /\ reply \in {"none", "pong", "close"} /\ echoed \subseteq 0 .. MaxPings
    /\ phase \in {"run", "closing", "draining", "done"} /\ end \in Ends \cup {"none"}

(* The frames of a batch (the fragments of one message) are contiguous on  *)
(* the wire: only an automatic pong may come between two of them, never a  *)
(* status, a ping or another batch, and a batch cut short is followed by   *)
(* nothing but a Close.                                                    *)
BatchIntact ==
    TypeOK /\ \A i, j \in 1 .. Len(wire) :
        /\ i < j /\ wire[i][1] = "data" /\ wire[i][2] > 1
        /\ wire[j][1] # "pong" /\ \A k \in i + 1 .. j - 1 : wire[k][1] = "pong"
        => wire[j] = <<"data", wire[i][2] - 1>> \/ wire[j][1] = "close"

(* The heartbeat ends the session only if the pong that echoes its last    *)
(* ping has not been read, however early it came, and goes on to the next  *)
(* interval only if it has: other pongs and stale permits do not count.    *)
ProbeMatchesPong ==
    /\ end = "HeartbeatTimeout" => sequence \notin echoed
    /\ heart = "sleep" /\ sequence > 0 => sequence \in echoed

(* Once the bridge closes the Output the session ends, whatever the peer   *)
(* does: it may stall every write and never answer the Close.              *)
SessionEnds == output # "open" ~> phase = "done"

(* A probe is answered or ends the session. *)
ProbeResolved == heart = "send" ~> heart = "sleep" \/ phase # "run"
=============================================================================

--------------------------- MODULE SessionProofs ---------------------------
(***************************************************************************)
(* Proofs about the heartbeat of a WebSocket session and about what it     *)
(* writes, for every bound on frames, batches and pings.                   *)
(***************************************************************************)
EXTENDS Session, TLAPS

(* What the heartbeat and the reader know about the last probe.  It is     *)
(* outstanding exactly until its pong is read; when it is not, a heartbeat *)
(* that waits has a permit; and the heartbeat only gives up on one that is *)
(* outstanding.                                                            *)
ProbeInv ==
    /\ sequence \in Nat
    /\ echoed \subseteq 0 .. sequence
    /\ permit \in BOOLEAN
    /\ pending # 0 => pending = sequence /\ sequence \notin echoed
    /\ pending = 0 /\ sequence > 0 => sequence \in echoed
    /\ heart = "sleep" => pending = 0
    /\ heart = "notified" /\ pending = 0 => permit
    /\ end = "HeartbeatTimeout" => phase # "run" /\ pending # 0

-----------------------------------------------------------------------------
(* No probe is outstanding at the start. *)
LEMMA InitProbe == Init => ProbeInv
<1> SUFFICES ASSUME Init PROVE ProbeInv
  OBVIOUS
<1>1. permit \in BOOLEAN
  BY Zenon DEF Init
<1>2. echoed \subseteq 0 .. sequence
  BY DEF Init
<1>3. /\ sequence \in Nat /\ sequence = 0 /\ pending = 0
      /\ heart = "sleep" /\ end = "none"
  BY DEF Init
<1> QED
  BY <1>1, <1>2, <1>3 DEF ProbeInv

(* A step that leaves the heartbeat alone, while the session runs or for   *)
(* good, keeps the invariant if it does not end it by time-out.            *)
LEMMA OtherStep ==
    ASSUME ProbeInv, UNCHANGED heartVars,
           \/ UNCHANGED endVars
           \/ end' # "HeartbeatTimeout"
           \/ phase' # "run" /\ UNCHANGED end
    PROVE  ProbeInv'
BY DEF ProbeInv, heartVars, endVars

(* The reader gets a pong: only one with the payload of the outstanding    *)
(* probe changes anything, and it stores a permit.                         *)
LEMMA PongStep ==
    ASSUME ProbeInv, NEW n, ReadPong(n)
    PROVE  ProbeInv'
<1>1. /\ phase = "run"
      /\ pending' = IF Acknowledges(n) THEN 0 ELSE pending
      /\ permit' = (permit \/ Acknowledges(n))
      /\ echoed' = IF n = sequence THEN echoed \cup {n} ELSE echoed
      /\ UNCHANGED <<heart, sequence, phase, end>>
  BY DEF ReadPong, Reading, endVars
<1>2. CASE Acknowledges(n)
  <2>1. n = sequence /\ pending' = 0 /\ permit' = TRUE
    BY <1>1, <1>2 DEF Acknowledges, ProbeInv
  <2> QED
    BY <1>1, <2>1 DEF ProbeInv
<1>3. CASE ~Acknowledges(n)
  <2>1. n = sequence => pending = 0
    BY <1>3 DEF Acknowledges, ProbeInv
  <2>2. permit \in BOOLEAN
    BY DEF ProbeInv
  <2>3. permit' = permit
    BY <1>1, <1>3, <2>2, Zenon
  <2>4. pending' = pending
    BY <1>1, <1>3
  <2>5. echoed' = IF n = sequence THEN echoed \cup {n} ELSE echoed
    BY <1>1
  <2>6. pending # 0 => echoed' = echoed
    BY <2>1, <2>5
  <2>7. echoed \subseteq echoed'
    BY <2>5, Zenon
  <2>8. echoed' \subseteq 0 .. sequence
    <3>1. echoed \subseteq 0 .. sequence /\ sequence \in 0 .. sequence
      BY DEF ProbeInv
    <3> QED
      BY <2>5, <3>1, Zenon
  <2>9. UNCHANGED <<heart, sequence, phase, end>>
    BY <1>1
  <2> QED
    BY <2>2, <2>3, <2>4, <2>6, <2>7, <2>8, <2>9 DEF ProbeInv
<1> QED
  BY <1>2, <1>3

(* Every step keeps the invariant. *)
LEMMA NextProbe == ProbeInv /\ [Next]_vars => ProbeInv'
<1> SUFFICES ASSUME ProbeInv, [Next]_vars PROVE ProbeInv'
  OBVIOUS
<1>1. CASE Enqueue \/ \E reason \in {"dropped", "full", "encoding"} : CloseOutput(reason)
  BY <1>1, OtherStep DEF Enqueue, CloseOutput
<1>2. CASE \E n \in 0 .. MaxPings : ReadPong(n)
  BY <1>2, PongStep
<1>3. CASE ReadPing \/ ReadBad \/ ReadData \/ ReaderWrites
  BY <1>3, OtherStep DEF ReadPing, ReadBad, ReadData, ReaderWrites
<1>4. CASE \E e \in Ends : ReadEnd(e)
  BY <1>4, OtherStep DEF ReadEnd, Ended
<1>5. CASE Recv \/ WriterSends \/ PingSent
  BY <1>5, OtherStep DEF Recv, WriterSends, PingSent
<1>6. CASE RecvNone
  BY <1>6, OtherStep DEF RecvNone, Ended
<1>7. CASE Probe
  BY <1>7 DEF Probe, ProbeInv, endVars
<1>8. CASE PingFlushed
  BY <1>8 DEF PingFlushed, ProbeInv, endVars
<1>9. CASE CheckPending
  BY <1>9 DEF CheckPending, ProbeInv, endVars
<1>10. CASE Notified
  BY <1>10 DEF Notified, OnNotified, ProbeInv, endVars
<1>11. CASE PongTimeout
  BY <1>11 DEF PongTimeout, Ended, ProbeInv, heartVars
<1>12. CASE \E t \in Tasks : WriteTimeout(t) \/ WriteFails(t)
  BY <1>12, OtherStep DEF WriteTimeout, WriteFails, Ended
<1>13. CASE SendClose \/ Drained \/ GiveUpClosing
  <2>1. phase' # "run" /\ UNCHANGED end /\ UNCHANGED heartVars
    BY <1>13 DEF SendClose, Drained, GiveUpClosing
  <2> QED
    BY <2>1, OtherStep
<1>14. CASE UNCHANGED vars
  BY <1>14, OtherStep DEF vars
<1> QED
  BY <1>1, <1>2, <1>3, <1>4, <1>5, <1>6, <1>7, <1>8, <1>9, <1>10, <1>11, <1>12, <1>13, <1>14 DEF Next

(* A heartbeat ends the session, or starts another interval, for the pong  *)
(* of its last ping alone, however many frames and pings there are.        *)
THEOREM ProbesMatch == Spec => []ProbeMatchesPong
<1>1. ProbeInv => ProbeMatchesPong
  BY DEF ProbeInv, ProbeMatchesPong
<1> QED
  BY <1>1, InitProbe, NextProbe, PTL DEF Spec

-----------------------------------------------------------------------------
(***************************************************************************)
(* What the session writes.  While the last message on the wire, but for   *)
(* automatic pongs, is a batch that is not complete, the writer has the    *)
(* sink and its next frame is the next one of that batch.                  *)
(***************************************************************************)
OutType ==
    /\ received \in 0 .. MaxFrames
    /\ batches \in 0 .. MaxBatches /\ queued \in 0 .. batches
    /\ output \in {"open", "dropped", "full", "encoding"}

HeartType ==
    /\ heart \in {"sleep", "send", "check", "notified"} /\ sequence \in 0 .. MaxPings
    /\ pending \in 0 .. MaxPings /\ echoed \subseteq 0 .. MaxPings

EndType ==
    /\ reader \in {"read", "flush", "status"} /\ writer \in 0 .. BatchFrames
    /\ reply \in {"none", "pong", "close"}
    /\ phase \in {"run", "closing", "draining", "done"} /\ end \in Ends \cup {"none"}

Flags == permit \in BOOLEAN /\ flushing \in BOOLEAN

(* t is in the queue of the sink, s. *)
Waits(s, t) == \E i \in 1 .. Len(s) : s[i] = t

SinkType ==
    /\ sink \in Seq(Tasks)
    /\ \A i, j \in 1 .. Len(sink) : sink[i] = sink[j] => i = j

(* Who is in the sink's queue has something to write. *)
SinkUse ==
    /\ phase = "run" => /\ reader = "read" => ~Waits(sink, "reader")
                        /\ writer = 0 => ~Waits(sink, "writer")
                        /\ heart # "send" => ~Waits(sink, "heart")
                        /\ reply # "close"
    /\ phase # "run" => sink = <<>>

(* The batch of frame i has frames to come, and only pongs came after it. *)
Open(s, i) ==
    /\ i \in 1 .. Len(s)
    /\ s[i][1] = "data" /\ s[i][2] > 1
    /\ \A k \in i + 1 .. Len(s) : s[k][1] = "pong"

Intact(s) ==
    \A i, j \in 1 .. Len(s) :
        /\ i < j /\ s[i][1] = "data" /\ s[i][2] > 1
        /\ s[j][1] # "pong" /\ \A k \in i + 1 .. j - 1 : s[k][1] = "pong"
        => s[j] = <<"data", s[i][2] - 1>> \/ s[j][1] = "close"

WireInv ==
    /\ \E F : wire \in Seq(F)
    /\ Intact(wire)
    /\ phase = "run" => \A i \in 1 .. Len(wire) :
          Open(wire, i) => sink # <<>> /\ Head(sink) = "writer" /\ wire[i][2] = writer + 1

Types == OutType /\ HeartType /\ EndType /\ Flags
BatchInv == Types /\ SinkType /\ SinkUse /\ WireInv

LEMMA Bounds ==
    MaxFrames \in Nat /\ MaxBatches \in Nat /\ MaxPings \in Nat /\ BatchFrames \in Nat /\ BatchFrames > 0
BY BoundsAssumption

LEMMA InitBatch == Init => BatchInv
<1> SUFFICES ASSUME Init PROVE BatchInv
  OBVIOUS
<1>1. OutType /\ HeartType /\ EndType
  BY Bounds DEF Init, OutType, HeartType, EndType
<1>2. Flags
  BY Zenon DEF Init, Flags
<1>3. SinkType /\ SinkUse
  BY DEF Init, SinkType, SinkUse, Waits
<1>4. WireInv
  <2>1. wire = <<>> /\ wire \in Seq({})
    BY DEF Init
  <2> QED
    BY <2>1 DEF WireInv, Intact
<1> QED
  BY <1>1, <1>2, <1>3, <1>4 DEF BatchInv, Types

-----------------------------------------------------------------------------
(* Sequences that grow. *)
LEMMA AppendAny ==
    ASSUME NEW F, NEW s \in Seq(F), NEW f, NEW a, a = Append(s, f)
    PROVE  /\ a \in Seq(F \cup {f})
           /\ Len(s) \in Nat /\ Len(a) = Len(s) + 1
           /\ \A i \in 1 .. Len(s) : a[i] = s[i]
           /\ a[Len(s) + 1] = f
<1>1. s \in Seq(F \cup {f}) /\ f \in F \cup {f}
  OBVIOUS
<1> QED
  BY <1>1

(* An automatic pong may come anywhere. *)
LEMMA PongIntact ==
    ASSUME NEW F, NEW s \in Seq(F), Intact(s), NEW f, f[1] = "pong", NEW a, a = Append(s, f)
    PROVE  /\ Intact(a)
           /\ \A i \in 1 .. Len(a) : Open(a, i) => i \in 1 .. Len(s) /\ Open(s, i) /\ a[i] = s[i]
<1>1. /\ Len(s) \in Nat /\ Len(a) = Len(s) + 1
      /\ \A i \in 1 .. Len(s) : a[i] = s[i]
      /\ a[Len(s) + 1] = f
  BY AppendAny
<1>2. PICK n \in Nat : n = Len(s)
  BY <1>1
<1>3. Intact(a)
  <2> SUFFICES ASSUME NEW i \in 1 .. Len(a), NEW j \in 1 .. Len(a), i < j, a[i][1] = "data", a[i][2] > 1,
                      a[j][1] # "pong", \A k \in i + 1 .. j - 1 : a[k][1] = "pong"
               PROVE  a[j] = <<"data", a[i][2] - 1>> \/ a[j][1] = "close"
    BY DEF Intact
  <2>1. j # n + 1
    BY <1>1, <1>2
  <2>2. i \in 1 .. n /\ j \in 1 .. n
    BY <1>1, <1>2, <2>1
  <2>3. a[i] = s[i] /\ a[j] = s[j] /\ \A k \in i + 1 .. j - 1 : a[k] = s[k]
    BY <1>1, <1>2, <2>2
  <2> QED
    BY <1>2, <2>2, <2>3 DEF Intact
<1>4. ASSUME NEW i \in 1 .. Len(a), Open(a, i)
      PROVE  i \in 1 .. Len(s) /\ Open(s, i) /\ a[i] = s[i]
  <2>1. i # n + 1
    BY <1>1, <1>2, <1>4 DEF Open
  <2>2. i \in 1 .. n /\ a[i] = s[i]
    BY <1>1, <1>2, <2>1
  <2>3. \A k \in i + 1 .. n : a[k] = s[k] /\ a[k][1] = "pong"
    BY <1>1, <1>2, <1>4, <2>2 DEF Open
  <2> QED
    BY <1>2, <1>4, <2>2, <2>3 DEF Open
<1> QED
  BY <1>3, <1>4

(* Any other frame must be the one that an open batch waits for, or a      *)
(* Close.                                                                  *)
Follows(s, f) ==
    /\ f[1] # "pong"
    /\ \A i \in 1 .. Len(s) : Open(s, i) => f = <<"data", s[i][2] - 1>> \/ f[1] = "close"

(* a is a wire that ends with f, but for pongs. *)
EndsWith(a, f) ==
    /\ Intact(a)
    /\ \A i \in 1 .. Len(a) : Open(a, i) => a[i] = f /\ f[1] = "data" /\ f[2] > 1

LEMMA FrameIntact ==
    ASSUME NEW F, NEW s \in Seq(F), Intact(s), NEW f, Follows(s, f), NEW a, a = Append(s, f)
    PROVE  EndsWith(a, f)
<1>1. /\ Len(s) \in Nat /\ Len(a) = Len(s) + 1
      /\ \A i \in 1 .. Len(s) : a[i] = s[i]
      /\ a[Len(s) + 1] = f
  BY AppendAny
<1>2. PICK n \in Nat : n = Len(s)
  BY <1>1
<1>3. Intact(a)
  <2> SUFFICES ASSUME NEW i \in 1 .. Len(a), NEW j \in 1 .. Len(a), i < j, a[i][1] = "data", a[i][2] > 1,
                      a[j][1] # "pong", \A k \in i + 1 .. j - 1 : a[k][1] = "pong"
               PROVE  a[j] = <<"data", a[i][2] - 1>> \/ a[j][1] = "close"
    BY DEF Intact
  <2>1. i \in 1 .. n /\ a[i] = s[i]
    BY <1>1, <1>2
  <2>2. \A k \in i + 1 .. j - 1 : a[k] = s[k]
    BY <1>1, <1>2
  <2>3. CASE j = n + 1
    <3>1. \A k \in i + 1 .. n : s[k][1] = "pong"
      BY <2>2, <2>3
    <3>2. Open(s, i)
      BY <1>2, <2>1, <3>1 DEF Open
    <3>3. a[j] = f
      BY <1>1, <1>2, <2>3
    <3>4. f = <<"data", s[i][2] - 1>> \/ f[1] = "close"
      BY <1>2, <2>1, <3>2 DEF Follows
    <3> QED
      BY <2>1, <3>3, <3>4, Zenon
  <2>4. CASE j # n + 1
    <3>1. j \in 1 .. n /\ a[j] = s[j]
      BY <1>1, <1>2, <2>4
    <3>2. \A k \in i + 1 .. j - 1 : s[k][1] = "pong"
      BY <2>2
    <3> QED
      BY <1>2, <2>1, <3>1, <3>2 DEF Intact
  <2> QED
    BY <2>3, <2>4
<1>4. ASSUME NEW i \in 1 .. Len(a), Open(a, i)
      PROVE  a[i] = f /\ f[1] = "data" /\ f[2] > 1
  <2>1. i = n + 1
    BY <1>1, <1>2, <1>4 DEF Open, Follows
  <2> QED
    BY <1>1, <1>2, <1>4, <2>1 DEF Open
<1> QED
  BY <1>3, <1>4 DEF EndsWith

(* What Write adds to the wire. *)
LEMMA WriteNone ==
    ASSUME NEW F, wire \in Seq(F), Write(<<>>)
    PROVE  \/ reply = "none" /\ wire' = wire
           \/ reply # "none" /\ wire' = Append(wire, <<reply>>)
<1>1. CASE reply = "none"
  BY <1>1 DEF Write, Written
<1>2. CASE reply # "none"
  <2>1. wire' = wire \o (<<>> \o <<<<reply>>>>)
    BY <1>2 DEF Write, Written
  <2> QED
    BY <1>2, <2>1
<1> QED
  BY <1>1, <1>2

LEMMA WriteOne ==
    ASSUME NEW F, wire \in Seq(F), NEW f, Write(<<f>>)
    PROVE  \/ reply = "none" /\ wire' = Append(wire, f)
           \/ reply # "none" /\ wire' = Append(Append(wire, f), <<reply>>)
<1>1. CASE reply = "none"
  <2>1. wire' = wire \o (<<f>> \o <<>>)
    BY <1>1 DEF Write, Written
  <2> QED
    BY <1>1, <2>1
<1>2. CASE reply # "none"
  <2>1. wire' = wire \o (<<f>> \o <<<<reply>>>>)
    BY <1>2 DEF Write, Written
  <2> QED
    BY <1>2, <2>1
<1> QED
  BY <1>1, <1>2

-----------------------------------------------------------------------------
(* The queue of the sink. *)
LEMMA LockSink ==
    ASSUME SinkType, NEW t \in Tasks, ~Waits(sink, t), Lock(t)
    PROVE  /\ SinkType'
           /\ \A u : Waits(sink', u) => Waits(sink, u) \/ u = t
           /\ sink # <<>> => sink' # <<>> /\ Head(sink') = Head(sink)
<1>1. /\ sink \in Seq(Tasks) /\ sink' \in Seq(Tasks)
      /\ Len(sink) \in Nat /\ Len(sink') = Len(sink) + 1
      /\ \A i \in 1 .. Len(sink) : sink'[i] = sink[i] /\ sink[i] # t
      /\ sink'[Len(sink) + 1] = t
  BY DEF SinkType, Lock, Waits
<1>2. PICK n \in Nat : n = Len(sink)
  BY <1>1
<1>3. SinkType'
  <2>1. \A i, j \in 1 .. n : sink[i] = sink[j] => i = j
    BY <1>2 DEF SinkType
  <2>2. \A i \in 1 .. n + 1 : (i \in 1 .. n /\ sink'[i] = sink[i] /\ sink[i] # t) \/ (i = n + 1 /\ sink'[i] = t)
    BY <1>1, <1>2
  <2>3. \A i, j \in 1 .. n + 1 : sink'[i] = sink'[j] => i = j
    BY <2>1, <2>2
  <2> QED
    BY <1>1, <1>2, <2>3 DEF SinkType
<1>4. \A u : Waits(sink', u) => Waits(sink, u) \/ u = t
  BY <1>1, <1>2 DEF Waits
<1>5. sink # <<>> => sink' # <<>> /\ Head(sink') = Head(sink)
  BY <1>1
<1> QED
  BY <1>3, <1>4, <1>5

LEMMA UnlockSink ==
    ASSUME SinkType, sink # <<>>, sink' = Tail(sink)
    PROVE  /\ SinkType'
           /\ \A u : Waits(sink', u) => Waits(sink, u) /\ u # Head(sink)
<1>1. /\ sink \in Seq(Tasks) /\ sink' \in Seq(Tasks)
      /\ Len(sink) \in Nat /\ Len(sink) > 0 /\ Len(sink') = Len(sink) - 1
      /\ \A i \in 1 .. Len(sink') : sink'[i] = sink[i + 1]
      /\ Head(sink) = sink[1]
  BY DEF SinkType
<1>2. PICK n \in Nat : n = Len(sink)
  BY <1>1
<1>3. \A i, j \in 1 .. n : sink[i] = sink[j] => i = j
  BY <1>2 DEF SinkType
<1>4. \A i \in 1 .. n - 1 : i + 1 \in 1 .. n /\ sink'[i] = sink[i + 1] /\ i + 1 # 1
  BY <1>1, <1>2
<1>5. \A i, j \in 1 .. n - 1 : sink'[i] = sink'[j] => i = j
  <2> SUFFICES ASSUME NEW i \in 1 .. n - 1, NEW j \in 1 .. n - 1, sink'[i] = sink'[j] PROVE i = j
    OBVIOUS
  <2>1. i + 1 = j + 1
    BY <1>3, <1>4
  <2> QED
    BY <2>1
<1>6. SinkType'
  BY <1>1, <1>2, <1>5 DEF SinkType
<1>7. ASSUME NEW u, Waits(sink', u) PROVE Waits(sink, u) /\ u # Head(sink)
  <2>1. PICK i \in 1 .. n - 1 : sink'[i] = u
    BY <1>1, <1>2, <1>7 DEF Waits
  <2>2. i + 1 \in 1 .. n /\ sink[i + 1] = u /\ i + 1 # 1 /\ 1 \in 1 .. n
    BY <1>1, <1>2, <1>4, <2>1
  <2>3. sink[1] # u
    BY <1>3, <2>2
  <2> QED
    BY <1>1, <1>2, <2>2, <2>3 DEF Waits
<1> QED
  BY <1>6, <1>7

LEMMA HolderWaits ==
    ASSUME SinkType, NEW t, Holds(t) PROVE Waits(sink, t)
BY DEF SinkType, Holds, Waits

-----------------------------------------------------------------------------
(* Every step keeps the types. *)
LEMMA NextTypes == Types /\ SinkType /\ SinkUse /\ [Next]_vars => Types'
<1> SUFFICES ASSUME Types, SinkType, SinkUse, [Next]_vars PROVE Types'
  OBVIOUS
<1> USE Bounds DEF Types
<1>0. ASSUME NEW e \in Ends, Ended(e)
      PROVE  /\ batches' = batches /\ queued' = 0 /\ output' \in {"dropped", "full", "encoding"}
             /\ phase' \in {"run", "closing", "draining", "done"} /\ end' \in Ends \cup {"none"}
             /\ flushing' \in BOOLEAN
  <2>1. flushing' \in BOOLEAN
    BY <1>0, Zenon DEF Ended
  <2> QED
    BY <1>0, <2>1 DEF Ended, OutType
<1>1. OutType'
  <2>1. CASE Enqueue \/ \E reason \in {"dropped", "full", "encoding"} : CloseOutput(reason)
    BY <2>1 DEF Enqueue, CloseOutput, OutType
  <2>2. CASE (\E n \in 0 .. MaxPings : ReadPong(n)) \/ ReadPing \/ ReadBad \/ ReadData
    <3>1. received' \in 0 .. MaxFrames /\ UNCHANGED outVars
      BY <2>2 DEF ReadPong, ReadPing, ReadBad, ReadData, Reading, OutType
    <3> QED
      BY <3>1 DEF OutType, outVars
  <2>3. CASE Recv
    BY <2>3 DEF Recv, OutType
  <2>4. CASE UNCHANGED <<received, outVars>>
    BY <2>4 DEF OutType, outVars
  <2>5. ASSUME NEW e \in Ends, Ended(e), UNCHANGED received PROVE OutType'
    BY <1>0, <2>5 DEF OutType
  <2>6. CASE \E e \in Ends : ReadEnd(e)
    BY <2>5, <2>6 DEF ReadEnd
  <2>7. CASE RecvNone \/ PongTimeout \/ \E t \in Tasks : WriteTimeout(t) \/ WriteFails(t)
    BY <2>5, <2>7 DEF RecvNone, PongTimeout, WriteTimeout, WriteFails, Ends
  <2>8. CASE ReaderWrites \/ WriterSends \/ Probe \/ PingSent \/ PingFlushed \/ CheckPending \/ Notified
    BY <2>4, <2>8 DEF ReaderWrites, WriterSends, Probe, PingSent, PingFlushed, CheckPending, Notified
  <2>9. CASE SendClose \/ Drained \/ GiveUpClosing \/ UNCHANGED vars
    BY <2>4, <2>9 DEF SendClose, Drained, GiveUpClosing, vars
  <2> QED
    BY <2>1, <2>2, <2>3, <2>6, <2>7, <2>8, <2>9, Zenon DEF Next
<1>2. HeartType'
  <2>1. CASE UNCHANGED heartVars
    BY <2>1 DEF HeartType, heartVars
  <2>2. CASE \E n \in 0 .. MaxPings : ReadPong(n)
    BY <2>2 DEF ReadPong, HeartType
  <2>3. CASE Probe
    BY <2>3 DEF Probe, HeartType
  <2>4. CASE PingFlushed \/ CheckPending \/ Notified
    BY <2>4 DEF PingFlushed, CheckPending, Notified, OnNotified, HeartType
  <2>5. CASE Enqueue \/ \E reason \in {"dropped", "full", "encoding"} : CloseOutput(reason)
    BY <2>1, <2>5 DEF Enqueue, CloseOutput
  <2>6. CASE ReadPing \/ ReadBad \/ ReadData \/ ReaderWrites \/ \E e \in Ends : ReadEnd(e)
    BY <2>1, <2>6 DEF ReadPing, ReadBad, ReadData, ReaderWrites, ReadEnd
  <2>7. CASE Recv \/ RecvNone \/ WriterSends \/ PingSent \/ PongTimeout
    BY <2>1, <2>7 DEF Recv, RecvNone, WriterSends, PingSent, PongTimeout
  <2>8. CASE (\E t \in Tasks : WriteTimeout(t) \/ WriteFails(t)) \/ SendClose \/ Drained \/ GiveUpClosing
    BY <2>1, <2>8 DEF WriteTimeout, WriteFails, SendClose, Drained, GiveUpClosing
  <2>9. CASE UNCHANGED vars
    BY <2>1, <2>9 DEF vars
  <2> QED
    BY <2>2, <2>3, <2>4, <2>5, <2>6, <2>7, <2>8, <2>9, Zenon DEF Next
<1>3. EndType'
  <2>1. CASE UNCHANGED <<endVars, reader, writer, reply>>
    BY <2>1 DEF EndType, endVars
  <2>2. CASE Enqueue \/ \E reason \in {"dropped", "full", "encoding"} : CloseOutput(reason)
    BY <2>1, <2>2 DEF Enqueue, CloseOutput, sinkVars
  <2>3. CASE (\E n \in 0 .. MaxPings : ReadPong(n)) \/ ReadData \/ CheckPending \/ Notified
    BY <2>1, <2>3 DEF ReadPong, ReadData, CheckPending, Notified, sinkVars
  <2>4. CASE Probe \/ PingFlushed
    BY <2>1, <2>4 DEF Probe, PingFlushed
  <2>5. CASE ReadPing \/ ReadBad \/ ReaderWrites
    BY <2>5 DEF ReadPing, ReadBad, ReaderWrites, Write, EndType, endVars
  <2>6. CASE Recv
    BY <2>6 DEF Recv, EndType, endVars
  <2>7. CASE WriterSends
    <3>1. writer # 0
      BY <2>7, HolderWaits DEF WriterSends, SinkUse, Holds
    <3>2. writer' = writer - 1 /\ reply' = "none" /\ UNCHANGED <<endVars, reader>>
      BY <2>7 DEF WriterSends, Write
    <3> QED
      BY <3>1, <3>2 DEF EndType, endVars
  <2>8. CASE PingSent
    BY <2>8 DEF PingSent, Write, EndType, endVars
  <2>9. ASSUME NEW e \in Ends, Ended(e), UNCHANGED <<reader, writer>>, reply' \in {reply, "close"}
        PROVE  EndType'
    BY <1>0, <2>9 DEF EndType
  <2>10. CASE \E e \in Ends : ReadEnd(e)
    BY <2>9, <2>10 DEF ReadEnd
  <2>11. CASE RecvNone \/ PongTimeout \/ \E t \in Tasks : WriteTimeout(t) \/ WriteFails(t)
    BY <2>9, <2>11 DEF RecvNone, PongTimeout, WriteTimeout, WriteFails, Ends
  <2>12. CASE SendClose \/ Drained \/ GiveUpClosing
    <3>1. phase' \in {"draining", "done"} /\ UNCHANGED <<end, reader, writer>> /\ reply' \in {reply, "none"}
      BY <2>12 DEF SendClose, Drained, GiveUpClosing, Write, sinkVars
    <3> QED
      BY <3>1 DEF EndType
  <2>13. CASE UNCHANGED vars
    BY <2>1, <2>13 DEF vars, sinkVars
  <2> QED
    BY <2>2, <2>3, <2>4, <2>5, <2>6, <2>7, <2>8, <2>10, <2>11, <2>12, <2>13, Zenon DEF Next
<1>4. Flags'
  <2>1. permit \in BOOLEAN /\ flushing \in BOOLEAN
    BY Zenon DEF Flags
  <2>2. permit' \in BOOLEAN
    <3>1. CASE UNCHANGED permit
      BY <2>1, <3>1, Zenon
    <3>2. CASE \E n \in 0 .. MaxPings : ReadPong(n)
      BY <3>2, Zenon DEF ReadPong
    <3>3. CASE Notified
      BY <3>3, Zenon DEF Notified
    <3>4. CASE Enqueue \/ \E reason \in {"dropped", "full", "encoding"} : CloseOutput(reason)
      BY <3>1, <3>4 DEF Enqueue, CloseOutput, heartVars
    <3>5. CASE ReadPing \/ ReadBad \/ ReadData \/ ReaderWrites \/ \E e \in Ends : ReadEnd(e)
      BY <3>1, <3>5 DEF ReadPing, ReadBad, ReadData, ReaderWrites, ReadEnd, heartVars
    <3>6. CASE Recv \/ RecvNone \/ WriterSends \/ PingSent \/ PongTimeout
      BY <3>1, <3>6 DEF Recv, RecvNone, WriterSends, PingSent, PongTimeout, heartVars
    <3>7. CASE Probe \/ PingFlushed \/ CheckPending
      BY <3>1, <3>7 DEF Probe, PingFlushed, CheckPending
    <3>8. CASE (\E t \in Tasks : WriteTimeout(t) \/ WriteFails(t)) \/ SendClose \/ Drained \/ GiveUpClosing
      BY <3>1, <3>8 DEF WriteTimeout, WriteFails, SendClose, Drained, GiveUpClosing, heartVars
    <3>9. CASE UNCHANGED vars
      BY <3>1, <3>9 DEF vars, heartVars
    <3> QED
      BY <3>2, <3>3, <3>4, <3>5, <3>6, <3>7, <3>8, <3>9, Zenon DEF Next
  <2>3. flushing' \in BOOLEAN
    <3>1. CASE UNCHANGED flushing
      BY <2>1, <3>1, Zenon
    <3>2. CASE Unlock
      BY <3>2, Zenon DEF Unlock
    <3>3. CASE Enqueue \/ \E reason \in {"dropped", "full", "encoding"} : CloseOutput(reason)
      BY <3>1, <3>3 DEF Enqueue, CloseOutput, sinkVars
    <3>4. CASE (\E n \in 0 .. MaxPings : ReadPong(n)) \/ ReadPing \/ ReadBad \/ ReadData
      BY <3>1, <3>4 DEF ReadPong, ReadPing, ReadBad, ReadData, sinkVars
    <3>5. CASE ReaderWrites \/ PingFlushed
      BY <3>2, <3>5 DEF ReaderWrites, PingFlushed
    <3>6. CASE \E e \in Ends : ReadEnd(e)
      BY <1>0, <3>6 DEF ReadEnd
    <3>7. CASE RecvNone \/ PongTimeout \/ \E t \in Tasks : WriteTimeout(t) \/ WriteFails(t)
      BY <1>0, <3>7 DEF RecvNone, PongTimeout, WriteTimeout, WriteFails, Ends
    <3>8. CASE PingSent
      BY <3>8, Zenon DEF PingSent
    <3>9. CASE Recv \/ WriterSends \/ Probe \/ CheckPending \/ Notified
      BY <3>1, <3>9 DEF Recv, WriterSends, Probe, CheckPending, Notified, sinkVars
    <3>10. CASE SendClose \/ Drained \/ GiveUpClosing \/ UNCHANGED vars
      BY <3>1, <3>10 DEF SendClose, Drained, GiveUpClosing, vars, sinkVars
    <3> QED
      BY <3>3, <3>4, <3>5, <3>6, <3>7, <3>8, <3>9, <3>10, Zenon DEF Next
  <2> QED
    BY <2>2, <2>3, Zenon DEF Flags
<1> QED
  BY <1>1, <1>2, <1>3, <1>4, Zenon

-----------------------------------------------------------------------------
(* The automatic reply keeps a batch together: it is a pong, or the peer's *)
(* Close has ended the session.                                            *)
Replied(s, a) ==
    /\ \E G : a \in Seq(G)
    /\ Intact(a)
    /\ \A i \in 1 .. Len(a) : Open(a, i) => i \in 1 .. Len(s) /\ Open(s, i) /\ a[i] = s[i]

LEMMA ReplyIntact ==
    ASSUME NEW F, NEW s \in Seq(F), Intact(s), NEW r \in {"pong", "close"}, NEW a, a = Append(s, <<r>>)
    PROVE  Replied(s, a)
<1>1. \E G : a \in Seq(G)
  BY AppendAny
<1>2. PICK f : f = <<r>>
  OBVIOUS
<1>3. f[1] = r /\ a = Append(s, f)
  BY <1>2
<1>4. CASE r = "pong"
  <2>1. f[1] = "pong"
    BY <1>3, <1>4
  <2> QED
    BY <1>1, <1>3, <2>1, PongIntact DEF Replied
<1>5. CASE r = "close"
  <2>1. f[1] = "close" /\ f[1] # "pong" /\ f[1] # "data"
    BY <1>3, <1>5
  <2>2. Follows(s, f)
    BY <2>1, Zenon DEF Follows
  <2>3. Intact(a) /\ \A i \in 1 .. Len(a) : ~Open(a, i)
    BY <1>3, <2>1, <2>2, FrameIntact, Zenon DEF EndsWith
  <2> QED
    BY <1>1, <2>3, Zenon DEF Replied
<1> QED
  BY <1>4, <1>5

(* Nothing but the reply is written. *)
LEMMA ReplyStep ==
    ASSUME WireInv, EndType, Write(<<>>)
    PROVE  Replied(wire, wire')
<1>1. PICK F : wire \in Seq(F)
  BY DEF WireInv
<1>2. Intact(wire)
  BY DEF WireInv
<1>3. CASE reply = "none"
  <2>1. wire' = wire
    BY <1>1, <1>3, WriteNone
  <2> QED
    BY <1>1, <1>2, <2>1, Zenon DEF Replied
<1>4. CASE reply # "none"
  <2>1. wire' = Append(wire, <<reply>>)
    BY <1>1, <1>4, WriteNone
  <2>2. reply \in {"pong", "close"}
    BY <1>4 DEF EndType
  <2> QED
    BY <1>1, <1>2, <2>1, <2>2, ReplyIntact, Zenon
<1> QED
  BY <1>3, <1>4

(* A frame is written, and the reply. *)
LEMMA FrameStep ==
    ASSUME WireInv, EndType, NEW f, Write(<<f>>), Follows(wire, f)
    PROVE  EndsWith(wire', f) /\ \E G : wire' \in Seq(G)
<1>1. PICK F : wire \in Seq(F)
  BY DEF WireInv
<1>2. Intact(wire)
  BY DEF WireInv
<1>3. PICK b : b = Append(wire, f)
  OBVIOUS
<1>4. EndsWith(b, f)
  BY <1>1, <1>2, <1>3, FrameIntact, Zenon
<1>5. PICK G : b \in Seq(G)
  BY <1>1, <1>3, AppendAny
<1>6. CASE reply = "none"
  <2>1. wire' = b
    BY <1>1, <1>3, <1>6, WriteOne
  <2> QED
    BY <1>4, <1>5, <2>1, Zenon
<1>7. CASE reply # "none"
  <2>1. wire' = Append(b, <<reply>>)
    BY <1>1, <1>3, <1>7, WriteOne
  <2>2. reply \in {"pong", "close"}
    BY <1>7 DEF EndType
  <2>3. Intact(b)
    BY <1>4, Zenon DEF EndsWith
  <2>4. Replied(b, wire')
    BY <1>5, <2>1, <2>2, <2>3, ReplyIntact, Zenon
  <2> QED
    BY <1>4, <2>4, Zenon DEF Replied, EndsWith
<1> QED
  BY <1>6, <1>7

-----------------------------------------------------------------------------
(* The steps of the session. *)
SinkWire == SinkType /\ SinkUse /\ WireInv

(* Nobody touches the sink. *)
LEMMA QuietStep ==
    ASSUME SinkWire, UNCHANGED <<sink, wire, reader, writer, reply, phase>>, heart # "send" \/ heart' = heart
    PROVE  SinkWire'
<1>1. SinkType'
  BY DEF SinkWire, SinkType
<1>2. SinkUse'
  BY DEF SinkWire, SinkUse
<1>3. WireInv'
  BY DEF SinkWire, WireInv
<1> QED
  BY <1>1, <1>2, <1>3 DEF SinkWire

(* Only the holder of the sink writes, so an open batch means that it is   *)
(* the writer.                                                             *)
LEMMA NoOpenBatch ==
    ASSUME SinkWire, phase = "run", ~(sink # <<>> /\ Head(sink) = "writer"), NEW i \in 1 .. Len(wire)
    PROVE  ~Open(wire, i)
BY DEF SinkWire, WireInv

LEMMA LockStep ==
    ASSUME SinkWire, phase = "run", NEW t \in Tasks, ~Waits(sink, t), Lock(t), UNCHANGED <<wire, phase>>,
           reply' # "close",
           reader' = "read" => reader = "read" /\ t # "reader",
           writer' = 0 => writer = 0 /\ t # "writer",
           heart' # "send" => heart # "send" /\ t # "heart",
           writer' = writer \/ t = "writer"
    PROVE  SinkWire'
<1>1. /\ SinkType'
      /\ \A u : Waits(sink', u) => Waits(sink, u) \/ u = t
      /\ sink # <<>> => sink' # <<>> /\ Head(sink') = Head(sink)
  BY LockSink DEF SinkWire
<1>2. SinkUse'
  <2>1. reader' = "read" => ~Waits(sink', "reader")
    BY <1>1 DEF SinkWire, SinkUse
  <2>2. writer' = 0 => ~Waits(sink', "writer")
    BY <1>1 DEF SinkWire, SinkUse
  <2>3. heart' # "send" => ~Waits(sink', "heart")
    BY <1>1 DEF SinkWire, SinkUse
  <2> QED
    BY <2>1, <2>2, <2>3 DEF SinkUse
<1>3. WireInv'
  <2>1. CASE t = "writer"
    <3>1. ~(sink # <<>> /\ Head(sink) = "writer")
      BY <2>1, HolderWaits DEF SinkWire, Holds
    <3>2. \A i \in 1 .. Len(wire) : ~Open(wire, i)
      BY <3>1, NoOpenBatch
    <3> QED
      BY <3>2 DEF SinkWire, WireInv
  <2>2. CASE writer' = writer
    BY <1>1, <2>2 DEF SinkWire, WireInv
  <2> QED
    BY <2>1, <2>2
<1> QED
  BY <1>1, <1>2, <1>3 DEF SinkWire

(* The session ends: the queue of the sink is gone. *)
LEMMA EndStep ==
    ASSUME SinkWire, sink' = <<>>, phase' # "run", UNCHANGED wire
    PROVE  SinkWire'
<1>1. SinkType' /\ SinkUse'
  BY DEF SinkType, SinkUse
<1>2. WireInv'
  BY DEF SinkWire, WireInv
<1> QED
  BY <1>1, <1>2 DEF SinkWire

LEMMA EndedSteps ==
    ASSUME SinkWire,
           \/ \E e \in Ends : ReadEnd(e)
           \/ RecvNone \/ PongTimeout \/ \E t \in Tasks : WriteTimeout(t) \/ WriteFails(t)
    PROVE  SinkWire'
<1>1. UNCHANGED wire /\ \E e \in Ends : Ended(e)
  BY DEF ReadEnd, RecvNone, PongTimeout, WriteTimeout, WriteFails, Ends
<1>2. sink' = <<>> /\ phase' # "run"
  BY <1>1 DEF Ended
<1> QED
  BY <1>1, <1>2, EndStep

(* The holder gives the sink up, having written no part of a batch. *)
LEMMA UnlockStep ==
    ASSUME SinkWire, NEW t \in {"reader", "heart"}, Holds(t), Unlock, UNCHANGED <<phase, writer>>,
           (\E G : wire' \in Seq(G)) /\ Intact(wire'),
           \A i \in 1 .. Len(wire') : ~Open(wire', i),
           reply' # "close",
           reader' = "read" => reader = "read" \/ t = "reader",
           heart' # "send" => heart # "send" \/ t = "heart"
    PROVE  SinkWire'
<1>1. phase = "run" /\ sink # <<>> /\ Head(sink) = t /\ sink' = Tail(sink)
  BY DEF Holds, Unlock
<1>2. SinkType' /\ \A u : Waits(sink', u) => Waits(sink, u) /\ u # t
  BY <1>1, UnlockSink DEF SinkWire
<1>3. SinkUse'
  <2>1. reader' = "read" => ~Waits(sink', "reader")
    BY <1>1, <1>2 DEF SinkWire, SinkUse
  <2>2. writer' = 0 => ~Waits(sink', "writer")
    BY <1>1, <1>2 DEF SinkWire, SinkUse
  <2>3. heart' # "send" => ~Waits(sink', "heart")
    BY <1>1, <1>2 DEF SinkWire, SinkUse
  <2> QED
    BY <1>1, <2>1, <2>2, <2>3 DEF SinkUse
<1>4. WireInv'
  BY DEF WireInv
<1> QED
  BY <1>2, <1>3, <1>4 DEF SinkWire

LEMMA ReaderWritesStep == ASSUME SinkWire, EndType, ReaderWrites PROVE SinkWire'
<1>1. /\ Holds("reader") /\ Unlock /\ UNCHANGED <<phase, writer, heart>> /\ reply' # "close"
      /\ Write(IF reader = "status" THEN <<<<"status">>>> ELSE <<>>)
  BY DEF ReaderWrites, Write, endVars, heartVars
<1>2. \A i \in 1 .. Len(wire) : ~Open(wire, i)
  BY <1>1, NoOpenBatch DEF Holds
<1>3. WireInv
  BY DEF SinkWire
<1>4. (\E G : wire' \in Seq(G)) /\ Intact(wire') /\ \A i \in 1 .. Len(wire') : ~Open(wire', i)
  <2>1. CASE reader = "status"
    <3>1. PICK f : f = <<"status">>
      OBVIOUS
    <3>2. f[1] = "status" /\ f[1] # "pong" /\ f[1] # "data"
      BY <3>1
    <3>3. Write(<<f>>)
      BY <1>1, <2>1, <3>1, Zenon
    <3> QED
      BY <1>2, <1>3, <3>2, <3>3, FrameStep, Zenon DEF Follows, EndsWith
  <2>2. CASE reader # "status"
    <3>1. Write(<<>>)
      BY <1>1, <2>2
    <3> QED
      BY <1>2, <1>3, <3>1, ReplyStep, Zenon DEF Replied
  <2> QED
    BY <2>1, <2>2
<1> QED
  BY <1>1, <1>4, UnlockStep

LEMMA PingFlushedStep == ASSUME SinkWire, PingFlushed PROVE SinkWire'
<1>1. Holds("heart") /\ Unlock /\ UNCHANGED <<phase, writer, reader, wire, reply>> /\ phase = "run"
  BY DEF PingFlushed, endVars, Holds
<1>2. \A i \in 1 .. Len(wire) : ~Open(wire, i)
  BY <1>1, NoOpenBatch DEF Holds
<1>3. reply' # "close"
  BY <1>1 DEF SinkWire, SinkUse
<1>4. (\E G : wire' \in Seq(G)) /\ Intact(wire') /\ \A i \in 1 .. Len(wire') : ~Open(wire', i)
  BY <1>1, <1>2 DEF SinkWire, WireInv
<1> QED
  BY <1>1, <1>3, <1>4, UnlockStep

LEMMA PingSentStep == ASSUME SinkWire, EndType, PingSent PROVE SinkWire'
<1>1. /\ Holds("heart") /\ UNCHANGED <<sink, phase, writer, reader, heart>> /\ reply' # "close" /\ phase = "run"
      /\ Write(<<<<"ping", sequence>>>>)
  BY DEF PingSent, Write, endVars, heartVars, Holds
<1>2. \A i \in 1 .. Len(wire) : ~Open(wire, i)
  BY <1>1, NoOpenBatch DEF Holds
<1>3. PICK f : f = <<"ping", sequence>>
  OBVIOUS
<1>4. f[1] = "ping" /\ f[1] # "pong" /\ f[1] # "data"
  BY <1>3
<1>5. Write(<<f>>) /\ WireInv
  BY <1>1, <1>3, Zenon DEF SinkWire
<1>6. (\E G : wire' \in Seq(G)) /\ Intact(wire') /\ \A i \in 1 .. Len(wire') : ~Open(wire', i)
  BY <1>2, <1>4, <1>5, FrameStep, Zenon DEF Follows, EndsWith
<1>7. WireInv'
  BY <1>6 DEF WireInv
<1>8. SinkType' /\ SinkUse'
  BY <1>1 DEF SinkWire, SinkType, SinkUse
<1> QED
  BY <1>7, <1>8 DEF SinkWire

(* The writer sends the next frame of its batch and keeps the sink until   *)
(* the last one.                                                           *)
LEMMA WriterSendsStep == ASSUME SinkWire, EndType, WriterSends PROVE SinkWire'
<1>1. /\ Holds("writer") /\ UNCHANGED <<phase, reader, heart>> /\ reply' # "close" /\ phase = "run"
      /\ writer' = writer - 1 /\ sink' = BatchLock(writer) /\ sink # <<>> /\ Head(sink) = "writer"
      /\ Write(<<<<"data", writer>>>>)
  BY DEF WriterSends, Write, endVars, heartVars, Holds
<1>2. writer \in Nat /\ writer # 0
  BY <1>1, HolderWaits, Bounds DEF SinkWire, SinkUse, EndType
<1>3. PICK f : f = <<"data", writer>>
  OBVIOUS
<1>4. f[1] = "data" /\ f[1] # "pong" /\ f[2] = writer
  BY <1>3
<1>5. Write(<<f>>) /\ WireInv
  BY <1>1, <1>3, Zenon DEF SinkWire
<1>6. \A i \in 1 .. Len(wire) : Open(wire, i) => f = <<"data", wire[i][2] - 1>>
  <2> SUFFICES ASSUME NEW i \in 1 .. Len(wire), Open(wire, i) PROVE f = <<"data", wire[i][2] - 1>>
    OBVIOUS
  <2>1. wire[i][2] = writer + 1
    BY <1>1 DEF SinkWire, WireInv
  <2>2. wire[i][2] - 1 = writer
    BY <1>2, <2>1
  <2> QED
    BY <1>3, <2>2, Zenon
<1>7. /\ (\E G : wire' \in Seq(G)) /\ Intact(wire')
      /\ \A i \in 1 .. Len(wire') : Open(wire', i) => wire'[i] = f /\ f[2] > 1
  BY <1>4, <1>5, <1>6, FrameStep, Zenon DEF Follows, EndsWith
<1>8. WireInv'
  <2> SUFFICES ASSUME NEW i \in 1 .. Len(wire'), Open(wire', i)
               PROVE  sink' # <<>> /\ Head(sink') = "writer" /\ wire'[i][2] = writer' + 1
    BY <1>7 DEF WireInv
  <2>1. wire'[i] = f /\ f[2] > 1
    BY <1>7
  <2>2. wire'[i][2] = writer /\ writer > 1
    BY <1>4, <2>1
  <2>3. sink' = sink
    BY <1>1, <1>2, <2>2 DEF BatchLock
  <2> QED
    BY <1>1, <1>2, <2>2, <2>3
<1>9. CASE writer = 1
  <2>1. sink' = Tail(sink)
    BY <1>1, <1>9 DEF BatchLock
  <2>2. SinkType' /\ \A u : Waits(sink', u) => Waits(sink, u) /\ u # "writer"
    BY <1>1, <2>1, UnlockSink DEF SinkWire
  <2>3. ~Waits(sink', "writer") /\ (reader' = "read" => ~Waits(sink', "reader"))
    BY <1>1, <2>2 DEF SinkWire, SinkUse
  <2>4. heart' # "send" => ~Waits(sink', "heart")
    BY <1>1, <2>2 DEF SinkWire, SinkUse
  <2>5. SinkUse'
    BY <1>1, <2>3, <2>4 DEF SinkUse
  <2> QED
    BY <1>8, <2>2, <2>5 DEF SinkWire
<1>10. CASE writer # 1
  <2>1. sink' = sink /\ writer' # 0
    BY <1>1, <1>2, <1>10 DEF BatchLock
  <2>2. SinkType' /\ SinkUse'
    BY <1>1, <2>1 DEF SinkWire, SinkType, SinkUse
  <2> QED
    BY <1>8, <2>2 DEF SinkWire
<1> QED
  BY <1>9, <1>10

LEMMA SendCloseStep == ASSUME SinkWire, EndType, SendClose PROVE SinkWire'
<1>1. /\ phase # "run" /\ phase' # "run" /\ sink' = sink
      /\ Write(IF LocalCode = "none" THEN <<>> ELSE <<<<"close", LocalCode>>>>)
  BY DEF SendClose
<1>2. WireInv
  BY DEF SinkWire
<1>3. (\E G : wire' \in Seq(G)) /\ Intact(wire')
  <2>1. CASE LocalCode = "none"
    <3>1. Write(<<>>)
      BY <1>1, <2>1
    <3> QED
      BY <1>2, <3>1, ReplyStep, Zenon DEF Replied
  <2>2. CASE LocalCode # "none"
    <3>1. PICK f : f = <<"close", LocalCode>>
      OBVIOUS
    <3>2. f[1] = "close" /\ f[1] # "pong"
      BY <3>1
    <3>3. Write(<<f>>)
      BY <1>1, <2>2, <3>1, Zenon
    <3> QED
      BY <1>2, <3>2, <3>3, FrameStep, Zenon DEF Follows, EndsWith
  <2> QED
    BY <2>1, <2>2
<1>4. WireInv'
  BY <1>1, <1>3 DEF WireInv
<1>5. SinkType' /\ SinkUse'
  BY <1>1 DEF SinkWire, SinkType, SinkUse
<1> QED
  BY <1>4, <1>5 DEF SinkWire

LEMMA LockSteps ==
    ASSUME SinkWire, ReadPing \/ ReadBad \/ Recv \/ Probe
    PROVE  SinkWire'
<1>1. {"reader", "writer", "heart"} \subseteq Tasks
  BY DEF Tasks
<1>2. CASE ReadPing \/ ReadBad
  <2>1. /\ phase = "run" /\ Lock("reader") /\ UNCHANGED <<wire, phase, writer, heart>>
        /\ reader = "read" /\ reader' # "read" /\ reply' \in {"pong", reply}
    BY <1>2 DEF ReadPing, ReadBad, Reading, endVars, heartVars
  <2>2. ~Waits(sink, "reader") /\ reply' # "close"
    BY <2>1 DEF SinkWire, SinkUse
  <2> QED
    BY <1>1, <2>1, <2>2, LockStep
<1>3. CASE Recv
  <2>1. /\ phase = "run" /\ Lock("writer") /\ UNCHANGED <<wire, phase, reader, heart, reply>>
        /\ writer = 0 /\ writer' # 0
    BY <1>3, Bounds DEF Recv, endVars, heartVars
  <2>2. ~Waits(sink, "writer") /\ reply' # "close"
    BY <2>1 DEF SinkWire, SinkUse
  <2> QED
    BY <1>1, <2>1, <2>2, LockStep
<1>4. CASE Probe
  <2>1. /\ phase = "run" /\ Lock("heart") /\ UNCHANGED <<wire, phase, reader, writer, reply>>
        /\ heart = "sleep" /\ heart' = "send"
    BY <1>4 DEF Probe, endVars
  <2>2. ~Waits(sink, "heart") /\ reply' # "close"
    BY <2>1 DEF SinkWire, SinkUse
  <2> QED
    BY <1>1, <2>1, <2>2, LockStep
<1> QED
  BY <1>2, <1>3, <1>4

LEMMA NextSinkWire == SinkWire /\ EndType /\ [Next]_vars => SinkWire'
<1> SUFFICES ASSUME SinkWire, EndType, [Next]_vars PROVE SinkWire'
  OBVIOUS
<1>1. CASE Enqueue \/ \E reason \in {"dropped", "full", "encoding"} : CloseOutput(reason)
  BY <1>1, QuietStep DEF Enqueue, CloseOutput, sinkVars, endVars, heartVars
<1>2. CASE (\E n \in 0 .. MaxPings : ReadPong(n)) \/ ReadData
  BY <1>2, QuietStep DEF ReadPong, ReadData, sinkVars, endVars, heartVars
<1>3. CASE CheckPending \/ Notified
  BY <1>3, QuietStep DEF CheckPending, Notified, sinkVars, endVars
<1>4. CASE Drained \/ GiveUpClosing
  <2>1. phase # "run" /\ phase' # "run" /\ UNCHANGED <<sink, wire>>
    BY <1>4 DEF Drained, GiveUpClosing, sinkVars
  <2> QED
    BY <2>1, EndStep DEF SinkWire, SinkUse
<1>5. CASE UNCHANGED vars
  BY <1>5, QuietStep DEF vars, sinkVars, endVars, heartVars
<1> QED
  BY <1>1, <1>2, <1>3, <1>4, <1>5, LockSteps, EndedSteps, ReaderWritesStep, PingFlushedStep, PingSentStep,
     WriterSendsStep, SendCloseStep, Zenon DEF Next

(* The frames of a batch stay together on the wire, whatever pings, pongs, *)
(* statuses and ends of the session come between, for batches of any       *)
(* length.                                                                 *)
THEOREM BatchesIntact == Spec => []BatchIntact
<1>1. BatchInv /\ [Next]_vars => BatchInv'
  <2> SUFFICES ASSUME BatchInv, [Next]_vars PROVE BatchInv'
    OBVIOUS
  <2>1. Types /\ SinkType /\ SinkUse /\ EndType /\ SinkWire
    BY DEF BatchInv, Types, SinkWire
  <2>2. Types' /\ SinkWire'
    BY <2>1, NextTypes, NextSinkWire
  <2> QED
    BY <2>2 DEF BatchInv, SinkWire
<1>2. BatchInv => BatchIntact
  <2> SUFFICES ASSUME BatchInv PROVE BatchIntact
    OBVIOUS
  <2>1. queued \in 0 .. MaxBatches
    BY Bounds DEF BatchInv, Types, OutType
  <2>2. {permit, flushing} \subseteq BOOLEAN
    BY Zenon DEF BatchInv, Types, Flags
  <2>3. /\ received \in 0 .. MaxFrames /\ output \in {"open", "dropped", "full", "encoding"}
        /\ sink \in Seq(Tasks) /\ \A i, j \in 1 .. Len(sink) : sink[i] = sink[j] => i = j
        /\ reader \in {"read", "flush", "status"} /\ writer \in 0 .. BatchFrames
        /\ heart \in {"sleep", "send", "check", "notified"} /\ sequence \in 0 .. MaxPings
        /\ pending \in 0 .. MaxPings
        /\ reply \in {"none", "pong", "close"} /\ echoed \subseteq 0 .. MaxPings
        /\ phase \in {"run", "closing", "draining", "done"} /\ end \in Ends \cup {"none"}
    BY Zenon DEF BatchInv, Types, OutType, HeartType, EndType, SinkType
  <2>4. TypeOK
    BY <2>1, <2>2, <2>3, Zenon DEF TypeOK
  <2>5. Intact(wire)
    BY DEF BatchInv, WireInv
  <2> QED
    BY <2>4, <2>5, Zenon DEF BatchIntact, Intact
<1> QED
  BY <1>1, <1>2, InitBatch, PTL DEF Spec
=============================================================================

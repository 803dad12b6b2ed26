------------------------- MODULE BridgeGoalsProofs -------------------------
(***************************************************************************)
(* Proofs about BridgeGoals, for any number of clients, goals, feedback    *)
(* messages and cancel requests.                                           *)
(***************************************************************************)
EXTENDS BridgeGoals, TLAPS

(* The types of the variables, apart from the bound on the logs. *)
Typed ==
    /\ goals \subseteq GoalRec
    /\ action_calls \subseteq Clients \X (1..sent)
    /\ events \in Seq(EventRec)
    /\ heard \in 0..MaxFeedback
    /\ cancels \in 0..MaxCancels
    /\ asker \in Seq(Conn)
    /\ sent \in 0..MaxGoals
    /\ log \in [1..MaxGoals -> Seq({"feedback", "error", "result"})]
    /\ abandoned \cup stranded \subseteq 1..sent
    /\ unanswerable \subseteq 1..sent

(* Every goal in the table was sent by its owner, who is connected, and is *)
(* known by its number and by its owner's name for it.                     *)
Owned ==
    /\ \A g \in goals : /\ g.n \in 1..sent
                        /\ g.owner \in outputs
                        /\ g.owner = asker[g.n]
    /\ \A g, h \in goals : g.n = h.n => g = h
    /\ \A g, h \in goals : g.owner = h.owner /\ g.tag = h.tag => g = h
    /\ \A n \in 1..sent : asker[n] \in seen

(* CallsTracked, and only an accepted goal's result can have been asked    *)
(* for in vain.                                                            *)
Calls ==
    /\ CallsTracked
    /\ \A g \in goals : g.n \in unanswerable => g.accepted

(* What was sent about a goal: no result while the goal is in the table,   *)
(* nothing before the goal is sent, nothing after a result, and a result   *)
(* by the time the goal of a connected client is gone.                     *)
Ended(seq) == \A i \in 1..Len(seq) : seq[i] = "result" => i = Len(seq)

LogEnds == \A n \in 1..MaxGoals : Ended(log[n])
LogOpen == \A n \in Numbers(goals) : ~Contains(log[n], "result")
LogUnused == \A n \in 1..MaxGoals : n > sent => log[n] = << >>
LogGiven == \A n \in 1..sent :
               asker[n] \in outputs /\ n \notin Numbers(goals)
                  => Contains(log[n], "result")

Logged == LogEnds /\ LogOpen /\ LogUnused /\ LogGiven

(* Why a log is bounded.  left[i] is at least the number of feedback       *)
(* messages among the events from the i-th on; what a client has been sent *)
(* about a goal, what it may yet be sent because of events and of an       *)
(* unanswered cancel request, and its result together are no more than the *)
(* feedback taken and the cancel requests made, and one.                   *)
Counts(left) ==
    /\ left \in [1..Len(events) + 1 -> Nat]
    /\ \A i \in 1..Len(events) :
          /\ left[i + 1] <= left[i]
          /\ events[i].kind = "feedback" => left[i + 1] < left[i]

Open(n) == n > sent \/ n \in Numbers(goals)

Due == [n \in 1..MaxGoals |->
           (IF <<"cancel", n>> \in action_calls THEN 1 ELSE 0)
           + (IF Open(n) THEN 1 ELSE 0)]

Bounded ==
    \E left : /\ Counts(left)
              /\ \A n \in 1..MaxGoals :
                    Len(log[n]) + left[1] + Due[n] <= heard + cancels + 1

Held == handles = Kinds \X Numbers(goals)

GoalInv == ClientsTypeOK /\ Typed /\ Owned /\ Calls /\ Logged /\ Bounded /\ Held

-----------------------------------------------------------------------------
(* Goals by number. *)

LEMMA NumbersDef == \A n : n \in Numbers(goals) <=> \E g \in goals : g.n = n
BY DEF Numbers

LEMMA NoGoal == \A n : Goal(n) = {} <=> n \notin Numbers(goals)
BY DEF Numbers, Goal

LEMMA ActiveNumbers ==
    ASSUME Typed, Owned
    PROVE  Numbers(goals) \subseteq 1..sent /\ Numbers(goals) \subseteq 1..MaxGoals
BY BoundsAssumption DEF Typed, Owned, Numbers

(* A goal is alone with its number. *)
LEMMA GoalAlone ==
    ASSUME Owned, NEW g \in goals
    PROVE  Goal(g.n) = {g}
BY DEF Owned, Goal

(* What Tell does to the logs. *)
LEMMA TellFacts ==
    ASSUME Typed, NEW N, NEW what \in {"feedback", "error", "result"},
           log' = Tell(N, what)
    PROVE  /\ log' \in [1..MaxGoals -> Seq({"feedback", "error", "result"})]
           /\ \A n \in 1..MaxGoals :
                 /\ n \notin N => log'[n] = log[n]
                 /\ n \in N => /\ Len(log'[n]) = Len(log[n]) + 1
                               /\ \A i \in 1..Len(log[n]) : log'[n][i] = log[n][i]
                               /\ log'[n][Len(log[n]) + 1] = what
<1>1. \A n \in 1..MaxGoals : log[n] \in Seq({"feedback", "error", "result"})
  BY DEF Typed
<1>2. \A n \in 1..MaxGoals :
         log'[n] = IF n \in N THEN Append(log[n], what) ELSE log[n]
  BY DEF Tell
<1>3. \A n \in 1..MaxGoals : log'[n] \in Seq({"feedback", "error", "result"})
  <2> TAKE n \in 1..MaxGoals
  <2>1. Append(log[n], what) \in Seq({"feedback", "error", "result"})
    BY <1>1
  <2> QED
    BY <1>1, <1>2, <2>1, Zenon
<1>4. log' \in [1..MaxGoals -> Seq({"feedback", "error", "result"})]
  BY <1>3 DEF Tell
<1>5. \A s \in Seq({"feedback", "error", "result"}) :
         /\ Len(Append(s, what)) = Len(s) + 1
         /\ \A i \in 1..Len(s) : Append(s, what)[i] = s[i]
         /\ Append(s, what)[Len(s) + 1] = what
  OBVIOUS
<1>6. \A n \in N \cap 1..MaxGoals : log'[n] = Append(log[n], what)
  BY <1>2
<1>7. \A n \in 1..MaxGoals : n \notin N => log'[n] = log[n]
  BY <1>2
<1>8. ASSUME NEW n \in 1..MaxGoals, n \in N
      PROVE  /\ Len(log'[n]) = Len(log[n]) + 1
             /\ \A i \in 1..Len(log[n]) : log'[n][i] = log[n][i]
             /\ log'[n][Len(log[n]) + 1] = what
  BY <1>1, <1>5, <1>6, <1>8
<1> QED
  BY <1>4, <1>7, <1>8

LEMMA LogLengths ==
    ASSUME Typed, NEW n \in 1..MaxGoals
    PROVE  Len(log[n]) \in Nat
BY DEF Typed

-----------------------------------------------------------------------------
(* The logs. *)

(* Nothing is told, the same goals are active and nobody is connected whom *)
(* a goal was sent by.                                                     *)
LEMMA LoggedSame ==
    ASSUME Logged, Owned, UNCHANGED <<log, asker>>,
           Numbers(goals)' = Numbers(goals), outputs' \cap seen \subseteq outputs
    PROVE  Logged'
BY DEF Logged, LogEnds, LogOpen, LogUnused, LogGiven, Owned, sent

(* Something other than a result is told about active goals. *)
LEMMA LoggedTell ==
    ASSUME Typed, Owned, Logged, UNCHANGED <<asker, outputs>>,
           Numbers(goals)' = Numbers(goals),
           NEW N \in SUBSET Numbers(goals), NEW what \in {"feedback", "error"},
           log' = Tell(N, what)
    PROVE  Logged'
<1>0. sent' = sent /\ sent \in Nat /\ sent <= MaxGoals /\ MaxGoals \in Nat
  BY BoundsAssumption DEF Typed, sent
<1>1. N \subseteq 1..sent /\ Numbers(goals) \subseteq 1..MaxGoals
  BY ActiveNumbers
<1>2. /\ log' \in [1..MaxGoals -> Seq({"feedback", "error", "result"})]
      /\ \A n \in 1..MaxGoals :
                 /\ n \notin N => log'[n] = log[n]
                 /\ n \in N => /\ Len(log'[n]) = Len(log[n]) + 1
                               /\ \A i \in 1..Len(log[n]) : log'[n][i] = log[n][i]
                               /\ log'[n][Len(log[n]) + 1] = what
  BY TellFacts
<1>3. ASSUME NEW n \in 1..MaxGoals, n \in N
      PROVE  \A i \in 1..Len(log'[n]) : log'[n][i] # "result"
  <2>1. \A i \in 1..Len(log[n]) : log[n][i] # "result"
    BY <1>3 DEF Logged, LogOpen, Contains
  <2> QED
    BY <1>2, <1>3, <2>1, LogLengths
<1>4. LogEnds'
  BY <1>2, <1>3 DEF Logged, LogEnds, Ended
<1>5. LogOpen'
  BY <1>1, <1>2, <1>3 DEF Logged, LogOpen, Contains
<1>6. LogUnused'
  <2> SUFFICES ASSUME NEW n \in 1..MaxGoals, n > sent PROVE log'[n] = << >>
    BY <1>0 DEF LogUnused
  <2>1. n \notin N
    BY <1>0, <1>1
  <2>2. log'[n] = log[n]
    BY <1>2, <2>1
  <2> QED
    BY <2>2 DEF Logged, LogUnused
<1>7. LogGiven'
  BY <1>0, <1>2 DEF Logged, LogGiven
<1> QED
  BY <1>4, <1>5, <1>6, <1>7 DEF Logged

(* Goals end: those of connected clients with a result. *)
LEMMA LoggedFinish ==
    ASSUME Typed, Owned, Logged, UNCHANGED asker, outputs' \subseteq outputs,
           NEW G \in SUBSET goals, Finish(G)
    PROVE  Logged'
<1> DEFINE N == Numbers({g \in G : g.owner \in outputs'})
<1>0. sent' = sent /\ sent \in Nat /\ sent <= MaxGoals /\ MaxGoals \in Nat
  BY BoundsAssumption DEF Typed, sent
<1>1. N \subseteq 1..sent /\ Numbers(goals) \subseteq 1..MaxGoals
  BY ActiveNumbers DEF Numbers
<1>2. /\ log' \in [1..MaxGoals -> Seq({"feedback", "error", "result"})]
      /\ \A n \in 1..MaxGoals :
                 /\ n \notin N => log'[n] = log[n]
                 /\ n \in N => /\ Len(log'[n]) = Len(log[n]) + 1
                               /\ \A i \in 1..Len(log[n]) : log'[n][i] = log[n][i]
                               /\ log'[n][Len(log[n]) + 1] = "result"
  BY TellFacts DEF Finish
<1>3. N \subseteq Numbers(goals)
  BY DEF Numbers
<1>4. \A n \in Numbers(goals)' : n \in Numbers(goals) /\ n \notin N
  BY DEF Numbers, Finish, Owned
<1>5. \A n \in Numbers(goals) : n \notin Numbers(goals)' =>
           \E g \in G : g.n = n
  BY DEF Numbers, Finish
<1>6. ASSUME NEW n \in 1..MaxGoals, n \in N
      PROVE  Ended(log'[n]) /\ Contains(log'[n], "result")
  <2>1. \A i \in 1..Len(log[n]) : log[n][i] # "result"
    BY <1>3, <1>6 DEF Logged, LogOpen, Contains
  <2>2. Len(log[n]) \in Nat
    BY LogLengths
  <2> QED
    BY <1>2, <1>6, <2>1, <2>2 DEF Contains, Ended
<1>7. LogEnds'
  BY <1>2, <1>6 DEF Logged, LogEnds
<1>8. LogOpen'
  BY <1>1, <1>2, <1>4 DEF Logged, LogOpen
<1>9. LogUnused'
  <2> SUFFICES ASSUME NEW n \in 1..MaxGoals, n > sent PROVE log'[n] = << >>
    BY <1>0 DEF LogUnused
  <2>1. n \notin N
    BY <1>0, <1>1
  <2>2. log'[n] = log[n]
    BY <1>2, <2>1
  <2> QED
    BY <2>2 DEF Logged, LogUnused
<1>10. ASSUME NEW n \in 1..sent, asker[n] \in outputs', n \notin Numbers(goals)'
       PROVE  Contains(log'[n], "result")
  <2>0. n \in 1..MaxGoals
    BY <1>0
  <2>1. CASE n \in Numbers(goals)
    <3>1. PICK g \in G : g.n = n
      BY <1>5, <1>10, <2>1
    <3>2. n \in N
      BY <1>10, <3>1 DEF Owned, Numbers
    <3> QED
      BY <1>6, <2>0, <3>2
  <2>2. CASE n \notin Numbers(goals)
    BY <1>2, <1>3, <1>10, <2>0, <2>2 DEF Logged, LogGiven
  <2> QED
    BY <2>1, <2>2
<1>11. LogGiven'
  BY <1>0, <1>10 DEF LogGiven
<1> QED
  BY <1>7, <1>8, <1>9, <1>11 DEF Logged

-----------------------------------------------------------------------------
(* The bound on the logs. *)

LEMMA DueRange == \A n \in 1..MaxGoals : Due[n] \in Nat
BY DEF Due

LEMMA LeftNat ==
    ASSUME Typed, NEW left, Counts(left)
    PROVE  left[1] \in Nat
<1>1. Len(events) \in Nat
  BY DEF Typed
<1>2. left \in [1..Len(events) + 1 -> Nat]
  BY DEF Counts
<1> QED
  BY <1>1, <1>2

(* No event comes or goes, and no goal is told more than the new cancel    *)
(* requests allow.                                                         *)
LEMMA BoundedQuiet ==
    ASSUME Typed, Typed', Bounded, UNCHANGED events, heard' = heard,
           cancels <= cancels',
           \A n \in 1..MaxGoals : Len(log'[n]) + Due'[n] + cancels
                                     <= Len(log[n]) + Due[n] + cancels'
    PROVE  Bounded'
<1>1. PICK left : /\ Counts(left)
                  /\ \A n \in 1..MaxGoals :
                        Len(log[n]) + left[1] + Due[n] <= heard + cancels + 1
  BY DEF Bounded
<1>2. Counts(left)'
  BY <1>1 DEF Counts
<1>3. left[1] \in Nat
  BY <1>1, LeftNat
<1>4. ASSUME NEW n \in 1..MaxGoals
      PROVE  Len(log'[n]) + left[1] + Due'[n] <= heard' + cancels' + 1
  <2>1. Len(log[n]) \in Nat /\ Len(log'[n]) \in Nat
    BY DEF Typed
  <2>2. Due[n] \in Nat /\ Due'[n] \in Nat
    BY DEF Due
  <2>3. heard \in Nat /\ cancels \in Nat /\ cancels' \in Nat
    BY DEF Typed
  <2>4. Len(log[n]) + left[1] + Due[n] <= heard + cancels + 1
    BY <1>1
  <2>5. Len(log'[n]) + Due'[n] + cancels <= Len(log[n]) + Due[n] + cancels'
    OBVIOUS
  <2>6. PICK l \in Nat, m \in Nat, d \in Nat, e \in Nat, k \in Nat,
             h \in Nat, b \in Nat, c \in Nat :
            /\ l = Len(log[n]) /\ m = Len(log'[n])
            /\ d = Due[n] /\ e = Due'[n] /\ k = left[1]
            /\ h = heard /\ c = cancels /\ b = cancels'
    BY <1>3, <2>1, <2>2, <2>3
  <2>7. l + k + d <= h + c + 1
    BY <2>4, <2>6, Zenon
  <2>8. m + e + c <= l + d + b
    BY <2>5, <2>6, Zenon
  <2>9. m + k + e <= h + b + 1
    BY <2>7, <2>8
  <2> QED
    BY <2>6, <2>9, Zenon
<1> QED
  BY <1>2, <1>4 DEF Bounded

(* The first event is handled: only feedback adds to a log. *)
LEMMA BoundedHandled ==
    ASSUME Typed, Typed', Bounded, events # << >>, events' = Tail(events),
           heard' = heard, cancels' = cancels,
           \A n \in 1..MaxGoals :
              Len(log'[n]) + Due'[n] <=
                 Len(log[n]) + Due[n] +
                 (IF Head(events).kind = "feedback" THEN 1 ELSE 0)
    PROVE  Bounded'
<1>1. PICK left : /\ Counts(left)
                  /\ \A n \in 1..MaxGoals :
                        Len(log[n]) + left[1] + Due[n] <= heard + cancels + 1
  BY DEF Bounded
<1>0. PICK rest : rest = [i \in 1..Len(events) |-> left[i + 1]]
  OBVIOUS
<1>2. /\ Len(events) \in Nat /\ Len(events) > 0
      /\ Len(events') = Len(events) - 1
      /\ \A i \in 1..Len(events') : events'[i] = events[i + 1]
      /\ Head(events) = events[1]
  BY DEF Typed
<1>3. Counts(rest)'
  <2>1. rest \in [1..Len(events') + 1 -> Nat]
    BY <1>0, <1>1, <1>2 DEF Counts
  <2>2. \A i \in 1..Len(events') :
           /\ rest[i + 1] <= rest[i]
           /\ events'[i].kind = "feedback" => rest[i + 1] < rest[i]
    <3> TAKE i \in 1..Len(events')
    <3>1. /\ i + 1 \in 1..Len(events) /\ i \in 1..Len(events)
          /\ rest[i] = left[i + 1] /\ rest[i + 1] = left[i + 2]
      BY <1>0, <1>2
    <3> QED
      BY <1>1, <1>2, <3>1 DEF Counts
  <2> QED
    BY <2>1, <2>2, Zenon DEF Counts
<1>4. /\ rest[1] = left[2] /\ left[1] \in Nat /\ left[2] \in Nat
      /\ left[2] <= left[1]
      /\ Head(events).kind = "feedback" => left[2] < left[1]
  <2>1. 1 \in 1..Len(events) /\ 1 \in 1..Len(events) + 1 /\ 2 \in 1..Len(events) + 1
    BY <1>2
  <2>2. rest[1] = left[1 + 1]
    BY <1>0, <2>1
  <2> QED
    BY <1>1, <1>2, <2>1, <2>2 DEF Counts
<1>5. ASSUME NEW n \in 1..MaxGoals
      PROVE  Len(log'[n]) + rest[1] + Due'[n] <= heard' + cancels' + 1
  <2>1. Len(log[n]) \in Nat /\ Len(log'[n]) \in Nat
    BY DEF Typed
  <2>2. Due[n] \in Nat /\ Due'[n] \in Nat
    BY DEF Due
  <2>3. heard \in Nat /\ cancels \in Nat
    BY DEF Typed
  <2>4. Len(log[n]) + left[1] + Due[n] <= heard + cancels + 1
    BY <1>1
  <2>5. Len(log'[n]) + Due'[n] <= Len(log[n]) + Due[n] +
                 (IF Head(events).kind = "feedback" THEN 1 ELSE 0)
    OBVIOUS
  <2>6. PICK l \in Nat, m \in Nat, d \in Nat, e \in Nat, k \in Nat, j \in Nat :
            /\ l = Len(log[n]) /\ m = Len(log'[n])
            /\ d = Due[n] /\ e = Due'[n] /\ k = left[1] /\ j = rest[1]
    BY <1>4, <2>1, <2>2
  <2>7. l + k + d <= heard + cancels + 1
    BY <2>4, <2>6, Zenon
  <2>8. CASE Head(events).kind = "feedback"
    <3>1. m + e <= l + d + 1
      BY <2>5, <2>6, <2>8
    <3>2. j < k
      BY <1>4, <2>6, <2>8
    <3>3. m + j + e <= heard' + cancels' + 1
      BY <2>3, <2>7, <3>1, <3>2
    <3> QED
      BY <2>6, <3>3, Zenon
  <2>9. CASE Head(events).kind # "feedback"
    <3>1. m + e <= l + d + 0
      BY <2>5, <2>6, <2>9
    <3>2. j <= k
      BY <1>4, <2>6
    <3>3. m + j + e <= heard' + cancels' + 1
      BY <2>3, <2>7, <3>1, <3>2
    <3> QED
      BY <2>6, <3>3, Zenon
  <2> QED
    BY <2>8, <2>9
<1> QED
  <2> QED
    BY <1>3, <1>5, Zenon DEF Bounded

(* poll takes one more event, counted if it is feedback. *)
LEMMA BoundedTaken ==
    ASSUME Typed, Typed', Bounded, NEW e, events' = Append(events, e),
           UNCHANGED <<log, cancels, action_calls, asker, goals>>,
           heard' = heard + (IF e.kind = "feedback" THEN 1 ELSE 0)
    PROVE  Bounded'
<1>1. PICK left : /\ Counts(left)
                  /\ \A n \in 1..MaxGoals :
                        Len(log[n]) + left[1] + Due[n] <= heard + cancels + 1
  BY DEF Bounded
<1> DEFINE k == IF e.kind = "feedback" THEN 1 ELSE 0
<1>0. PICK more : more = [i \in 1..Len(events) + 2 |->
                             IF i <= Len(events) + 1 THEN left[i] + k ELSE 0]
  OBVIOUS
<1>2. /\ Len(events) \in Nat /\ k \in Nat
      /\ Len(events') = Len(events) + 1
      /\ \A i \in 1..Len(events) : events'[i] = events[i]
      /\ events'[Len(events) + 1] = e
  BY DEF Typed
<1>3. \A i \in 1..Len(events) + 1 : left[i] \in Nat
  BY <1>1 DEF Counts
<1>4. Counts(more)'
  <2>1. more \in [1..Len(events') + 1 -> Nat]
    BY <1>0, <1>2, <1>3
  <2>2. ASSUME NEW i \in 1..Len(events)
        PROVE  /\ more[i + 1] <= more[i]
               /\ events'[i].kind = "feedback" => more[i + 1] < more[i]
    BY <1>0, <1>1, <1>2, <1>3 DEF Counts
  <2>3. /\ more[Len(events) + 2] <= more[Len(events) + 1]
        /\ e.kind = "feedback" => more[Len(events) + 2] < more[Len(events) + 1]
    BY <1>0, <1>2, <1>3
  <2>4. \A i \in 1..Len(events') :
           /\ more[i + 1] <= more[i]
           /\ events'[i].kind = "feedback" => more[i + 1] < more[i]
    BY <1>2, <2>2, <2>3
  <2> QED
    BY <2>1, <2>4, Zenon DEF Counts
<1>5. more[1] = left[1] + k /\ left[1] \in Nat
  BY <1>0, <1>2, <1>3
<1>6. ASSUME NEW n \in 1..MaxGoals
      PROVE  Len(log'[n]) + more[1] + Due'[n] <= heard' + cancels' + 1
  <2>1. Len(log[n]) \in Nat
    BY DEF Typed
  <2>2. Due[n] \in Nat /\ Due'[n] = Due[n]
    BY DEF Due, Open, sent, Numbers
  <2>3. heard \in Nat /\ cancels \in Nat
    BY DEF Typed
  <2>4. heard' = heard + k
    OBVIOUS
  <2>5. Len(log[n]) + left[1] + Due[n] <= heard + cancels + 1
    BY <1>1
  <2>6. PICK l \in Nat, d \in Nat, f \in Nat, h \in Nat, c \in Nat, j \in Nat :
            /\ l = Len(log[n]) /\ d = Due[n] /\ f = left[1]
            /\ h = heard /\ c = cancels /\ j = k
    BY <1>2, <1>5, <2>1, <2>2, <2>3
  <2> HIDE DEF k
  <2>7. l + f + d <= h + c + 1
    BY <2>5, <2>6, Zenon
  <2>8. l + (f + j) + d <= (h + j) + c + 1
    BY <2>7
  <2> QED
    BY <1>5, <2>2, <2>4, <2>6, <2>8, Zenon
<1> QED
  <2> QED
    BY <1>4, <1>6, Zenon DEF Bounded

-----------------------------------------------------------------------------
(* Goals end. *)

LEMMA FinishNumbers ==
    ASSUME Owned, NEW G \in SUBSET goals, Finish(G)
    PROVE  Numbers(goals)' = Numbers(goals) \ Numbers(G)
BY DEF Owned, Finish, Numbers

LEMMA FinishOwned ==
    ASSUME Owned, NEW G \in SUBSET goals, Finish(G), seen' = seen,
           UNCHANGED asker, \A g \in goals \ G : g.owner \in outputs'
    PROVE  Owned'
BY DEF Owned, Finish, sent

LEMMA FinishCalls ==
    ASSUME Owned, Calls, NEW G \in SUBSET goals, Finish(G), UNCHANGED unanswerable
    PROVE  Calls'
<1>1. \A g \in goals' : g \in goals /\ g.n \notin Numbers(G)
  BY DEF Owned, Finish, Numbers
<1>2. action_calls' = {x \in action_calls : x[2] \notin Numbers(G)}
  BY DEF Finish
<1>3. ASSUME NEW g \in goals', NEW k
      PROVE  <<k, g.n>> \in action_calls' <=> <<k, g.n>> \in action_calls
  BY <1>1, <1>2
<1>4. \A g \in goals' :
          /\ <<"send", g.n>> \in action_calls' <=> ~g.accepted
          /\ <<"result", g.n>> \in action_calls'
                <=> (g.accepted /\ g.n \notin unanswerable')
          /\ <<"cancel", g.n>> \in action_calls' => g.accepted /\ g.cancelling
  BY <1>1, <1>3, Zenon DEF Calls, CallsTracked
<1>5. \A x \in action_calls' : Goal(x[2])' # {}
  <2> TAKE x \in action_calls'
  <2>1. x \in action_calls /\ x[2] \notin Numbers(G)
    BY <1>2
  <2>2. PICK g \in goals : g.n = x[2]
    BY <2>1 DEF Calls, CallsTracked, Goal
  <2>3. g \in goals'
    BY <2>1, <2>2 DEF Finish, Numbers
  <2> QED
    BY <2>2, <2>3 DEF Goal
<1>6. \A g \in goals' : g.n \in unanswerable' => g.accepted
  BY <1>1 DEF Calls
<1> QED
  BY <1>4, <1>5, <1>6, Zenon DEF Calls, CallsTracked

LEMMA FinishHeld ==
    ASSUME Owned, Held, NEW G \in SUBSET goals, Finish(G)
    PROVE  Held'
<1>1. Numbers(goals)' = Numbers(goals) \ Numbers(G)
  BY FinishNumbers
<1>2. handles' = {x \in handles : x[2] \notin Numbers(G)}
  BY DEF Finish
<1>3. handles' = Kinds \X (Numbers(goals) \ Numbers(G))
  BY <1>2 DEF Held
<1> QED
  BY <1>1, <1>3 DEF Held

LEMMA FinishTyped ==
    ASSUME Typed, NEW G \in SUBSET goals, Finish(G), UNCHANGED asker
    PROVE  /\ goals' \subseteq GoalRec
           /\ action_calls' \subseteq Clients \X (1..sent')
           /\ log' \in [1..MaxGoals -> Seq({"feedback", "error", "result"})]
<1>1. log' \in [1..MaxGoals -> Seq({"feedback", "error", "result"})]
  BY TellFacts DEF Finish
<1> QED
  BY <1>1 DEF Typed, Finish, sent

(* A result takes the place that was kept for it. *)
LEMMA FinishDue ==
    ASSUME Typed, Owned, NEW G \in SUBSET goals, Finish(G), UNCHANGED asker,
           NEW n \in 1..MaxGoals
    PROVE  Len(log'[n]) + Due'[n] <= Len(log[n]) + Due[n]
<1> DEFINE N == Numbers({g \in G : g.owner \in outputs'})
<1>0. sent' = sent /\ sent \in Nat
  BY DEF Typed, sent
<1>1. Len(log[n]) \in Nat
  BY DEF Typed
<1>2. Len(log'[n]) = IF n \in N THEN Len(log[n]) + 1 ELSE Len(log[n])
  <2>1. log' = Tell(N, "result")
    BY DEF Finish
  <2> HIDE DEF N
  <2> QED
    BY <2>1, TellFacts
<1>3. <<"cancel", n>> \in action_calls' => <<"cancel", n>> \in action_calls
  BY DEF Finish
<1>4. N \subseteq Numbers(G) /\ Numbers(G) \subseteq Numbers(goals)
      /\ Numbers(goals) \subseteq 1..sent
  BY ActiveNumbers DEF Numbers
<1>5. Numbers(goals)' = Numbers(goals) \ Numbers(G)
  BY FinishNumbers
<1>6. /\ Open(n)' => Open(n)
      /\ n \in N => Open(n) /\ ~Open(n)'
  BY <1>0, <1>4, <1>5 DEF Open
<1>7. /\ Due[n] = (IF <<"cancel", n>> \in action_calls THEN 1 ELSE 0)
                     + (IF Open(n) THEN 1 ELSE 0)
      /\ Due'[n] = (IF <<"cancel", n>> \in action_calls' THEN 1 ELSE 0)
                      + (IF Open(n)' THEN 1 ELSE 0)
  BY DEF Due
<1>8. n \in N => Due'[n] + 1 <= Due[n]
  BY <1>3, <1>6, <1>7
<1>9. Due'[n] <= Due[n] /\ Due[n] \in Nat /\ Due'[n] \in Nat
  BY <1>3, <1>6, <1>7
<1> HIDE DEF N
<1>10. CASE n \in N
  BY <1>1, <1>2, <1>8, <1>9, <1>10
<1>11. CASE n \notin N
  BY <1>1, <1>2, <1>9, <1>11
<1> QED
  BY <1>10, <1>11

(* What every action that ends goals shares. *)
LEMMA FinishInv ==
    ASSUME GoalInv, ClientsTypeOK', NEW G \in SUBSET goals, Finish(G),
           seen' = seen, outputs' \subseteq outputs,
           \A g \in goals \ G : g.owner \in outputs',
           UNCHANGED <<asker, heard, cancels, unanswerable>>,
           abandoned' \cup stranded' \subseteq 1..sent,
           \/ UNCHANGED events
           \/ events # << >> /\ events' = Tail(events)
    PROVE  GoalInv'
<1>1. Owned' /\ Calls' /\ Held' /\ Logged'
  BY FinishOwned, FinishCalls, FinishHeld, LoggedFinish DEF GoalInv
<1>2. Typed'
  <2>1. /\ goals' \subseteq GoalRec
        /\ action_calls' \subseteq Clients \X (1..sent')
        /\ log' \in [1..MaxGoals -> Seq({"feedback", "error", "result"})]
    BY FinishTyped DEF GoalInv
  <2>2. events \in Seq(EventRec) => events' \in Seq(EventRec)
    OBVIOUS
  <2> QED
    BY <2>1, <2>2 DEF GoalInv, Typed, sent
<1>3. \A n \in 1..MaxGoals : Len(log'[n]) + Due'[n] <= Len(log[n]) + Due[n]
  BY FinishDue DEF GoalInv
<1>4. \A n \in 1..MaxGoals : /\ Len(log[n]) \in Nat /\ Len(log'[n]) \in Nat
                             /\ Due[n] \in Nat /\ Due'[n] \in Nat
  BY <1>2 DEF GoalInv, Typed, Due
<1>5. CASE UNCHANGED events
  <2>1. cancels \in Nat
    BY DEF GoalInv, Typed
  <2>2. \A n \in 1..MaxGoals : Len(log'[n]) + Due'[n] + cancels
                                  <= Len(log[n]) + Due[n] + cancels'
    BY <1>3, <1>4, <2>1
  <2> QED
    BY <1>1, <1>2, <1>5, <2>1, <2>2, BoundedQuiet DEF GoalInv
<1>6. CASE events # << >> /\ events' = Tail(events)
  <2>1. \A n \in 1..MaxGoals :
           Len(log'[n]) + Due'[n] <= Len(log[n]) + Due[n] +
              (IF Head(events).kind = "feedback" THEN 1 ELSE 0)
    BY <1>3, <1>4
  <2> QED
    BY <1>1, <1>2, <1>6, <2>1, BoundedHandled DEF GoalInv
<1> QED
  BY <1>5, <1>6

-----------------------------------------------------------------------------
(* The marks of some goals change. *)

Marked(g, h) == h \in GoalRec /\ h.n = g.n /\ h.owner = g.owner /\ h.tag = g.tag

LEMMA MarkedGoals ==
    ASSUME Typed, Owned, NEW G \in SUBSET goals, NEW F,
           goals' = (goals \ G) \cup {F[g] : g \in G},
           \A g \in G : Marked(g, F[g])
    PROVE  /\ goals' \subseteq GoalRec
           /\ Numbers(goals)' = Numbers(goals)
<1>1. goals' \subseteq GoalRec
  BY DEF Typed, Marked
<1>2. \A h \in goals' : \E g \in goals : h.n = g.n
  BY DEF Marked
<1>3. \A g \in goals : \E h \in goals' : h.n = g.n
  BY DEF Marked
<1> QED
  BY <1>1, <1>2, <1>3 DEF Numbers

LEMMA MarkedOwned ==
    ASSUME Typed, Owned, NEW G \in SUBSET goals, NEW F,
           goals' = (goals \ G) \cup {F[g] : g \in G},
           \A g \in G : Marked(g, F[g]),
           outputs' = outputs, seen' = seen, UNCHANGED asker
    PROVE  Owned'
<1>1. \A h \in goals' : \E g \in goals :
         /\ h.n = g.n /\ h.owner = g.owner /\ h.tag = g.tag
         /\ h = IF g \in G THEN F[g] ELSE g
  BY DEF Marked
<1>2. \A h \in goals' : /\ h.n \in 1..sent
                        /\ h.owner \in outputs
                        /\ h.owner = asker[h.n]
  BY <1>1 DEF Owned
<1>3. \A g, h \in goals' : g.n = h.n => g = h
  BY <1>1 DEF Owned
<1>4. \A g, h \in goals' : g.owner = h.owner /\ g.tag = h.tag => g = h
  BY <1>1 DEF Owned
<1> QED
  BY <1>2, <1>3, <1>4 DEF Owned, sent

LEMMA Accepting ==
    ASSUME NEW g \in GoalRec
    PROVE  Marked(g, [g EXCEPT !.accepted = TRUE])
BY DEF GoalRec, Marked

LEMMA Cancelling ==
    ASSUME NEW g \in GoalRec, NEW b \in BOOLEAN
    PROVE  Marked(g, [g EXCEPT !.cancelling = b])
BY DEF GoalRec, Marked

-----------------------------------------------------------------------------
(* One lemma per action. *)

LEMMA InitGoals == Init => GoalInv
<1> SUFFICES ASSUME Init PROVE GoalInv
  OBVIOUS
<1>0. /\ goals = {} /\ action_calls = {} /\ handles = {} /\ events = << >>
      /\ heard = 0 /\ cancels = 0 /\ asker = << >>
      /\ abandoned = {} /\ stranded = {} /\ unanswerable = {} /\ log = [n \in 1..MaxGoals |-> << >>]
      /\ sent = 0 /\ Numbers(goals) = {}
  BY DEF Init, sent, Numbers
<1>1. ClientsTypeOK
  BY DEF Init, ClientsInit, ClientsTypeOK, Phases
<1>2. Typed
  BY <1>0, BoundsAssumption DEF Typed
<1>3. Owned /\ Calls /\ Held
  BY <1>0 DEF Owned, Calls, CallsTracked, Held
<1>4. Logged
  BY <1>0 DEF Logged, LogEnds, LogOpen, LogUnused, LogGiven, Ended
<1>5. Bounded
  <2>1. PICK left : left = [i \in 1..1 |-> 0]
    OBVIOUS
  <2>2. Counts(left)
    BY <1>0, <2>1 DEF Counts
  <2>3. \A n \in 1..MaxGoals : Len(log[n]) = 0 /\ Due[n] \in 0..1
    BY <1>0 DEF Due
  <2>4. \A n \in 1..MaxGoals :
           Len(log[n]) + left[1] + Due[n] <= heard + cancels + 1
    BY <1>0, <2>1, <2>3
  <2> QED
    BY <2>2, <2>4 DEF Bounded
<1> QED
  BY <1>1, <1>2, <1>3, <1>4, <1>5 DEF GoalInv

(* Only the clients change: nobody known before is connected or gone. *)
LEMMA GoalsUntouched ==
    ASSUME GoalInv, ClientsTypeOK', UNCHANGED goalVars, seen \subseteq seen',
           outputs \subseteq outputs', outputs' \cap seen \subseteq outputs
    PROVE  GoalInv'
<1>1. Typed' /\ Held' /\ Bounded' /\ Calls'
  <2>1. /\ sent' = sent /\ Numbers(goals)' = Numbers(goals) /\ Due' = Due
        /\ \A n : Goal(n)' = Goal(n)
    BY DEF goalVars, sent, Numbers, Due, Open, Goal
  <2>2. Typed' /\ Held'
    BY <2>1 DEF GoalInv, goalVars, Typed, Held
  <2>3. Bounded'
    BY <2>1 DEF GoalInv, goalVars, Bounded, Counts
  <2>4. Calls'
    BY <2>1, Zenon DEF GoalInv, goalVars, Calls, CallsTracked
  <2> QED
    BY <2>2, <2>3, <2>4
<1>2. Owned'
  BY DEF GoalInv, goalVars, Owned, sent
<1>3. Logged'
  BY LoggedSame DEF GoalInv, goalVars, Numbers
<1> QED
  BY <1>1, <1>2, <1>3 DEF GoalInv

LEMMA SendClients ==
    ASSUME ClientsTypeOK, NEW S, Send(S), UNCHANGED <<outputs, seen, phase>>
    PROVE  ClientsTypeOK'
BY DEF Send, ClientsTypeOK

(* Room that was kept is kept, or taken by a new entry of a log. *)
LEMMA DueShrinks ==
    ASSUME UNCHANGED asker, Numbers(goals)' = Numbers(goals),
           NEW n \in 1..MaxGoals,
           <<"cancel", n>> \in action_calls' => <<"cancel", n>> \in action_calls
    PROVE  /\ Due[n] \in Nat /\ Due'[n] \in Nat /\ Due'[n] <= Due[n]
           /\ <<"cancel", n>> \in action_calls \ action_calls'
                 => Due'[n] + 1 <= Due[n]
<1>1. Open(n)' <=> Open(n)
  BY DEF Open, sent
<1>2. /\ Due[n] = (IF <<"cancel", n>> \in action_calls THEN 1 ELSE 0)
                     + (IF Open(n) THEN 1 ELSE 0)
      /\ Due'[n] = (IF <<"cancel", n>> \in action_calls' THEN 1 ELSE 0)
                      + (IF Open(n)' THEN 1 ELSE 0)
  BY DEF Due
<1> QED
  BY <1>1, <1>2

(* Only the events change. *)
LEMMA EventsOnly ==
    ASSUME GoalInv,
           UNCHANGED <<outputs, seen, goals, action_calls, handles, asker, log,
                       unanswerable>>
    PROVE  Owned' /\ Calls' /\ Logged' /\ Held' /\ Due' = Due /\ sent' = sent
<1>1. /\ sent' = sent /\ Numbers(goals)' = Numbers(goals) /\ Due' = Due
      /\ \A n : Goal(n)' = Goal(n)
  BY DEF sent, Numbers, Due, Open, Goal
<1>2. Owned' /\ Held'
  BY <1>1 DEF GoalInv, Owned, Held
<1>3. Calls'
  BY <1>1, Zenon DEF GoalInv, Calls, CallsTracked
<1>4. Logged'
  BY <1>1, LoggedSame DEF GoalInv
<1> QED
  BY <1>1, <1>2, <1>3, <1>4

LEMMA TakeResponseInv ==
    ASSUME GoalInv, NEW x \in action_calls, NEW ok \in BOOLEAN,
           TakeResponse(x, ok)
    PROVE  GoalInv'
<1>0. PICK e : e = [kind |-> x[1], n |-> x[2], ok |-> ok]
  OBVIOUS
<1>1. /\ events' = Append(events, e)
      /\ UNCHANGED <<outputs, failed, closed, seen, phase>>
      /\ UNCHANGED <<goals, action_calls, handles, heard, cancels, asker, log,
                     abandoned, stranded, unanswerable>>
  BY <1>0 DEF TakeResponse, clientVars
<1>2. x[1] \in Clients /\ x[2] \in Nat
  BY DEF GoalInv, Typed
<1>3. e \in EventRec
  BY <1>0, <1>2 DEF EventRec, Kinds
<1>4. e.kind # "feedback"
  BY <1>0, <1>2 DEF Clients
<1>5. Owned' /\ Calls' /\ Logged' /\ Held' /\ sent' = sent
  BY <1>1, EventsOnly
<1>6. events' \in Seq(EventRec)
  BY <1>1, <1>3 DEF GoalInv, Typed
<1>7. Typed'
  BY <1>1, <1>5, <1>6 DEF GoalInv, Typed
<1>8. heard' = heard + (IF e.kind = "feedback" THEN 1 ELSE 0)
  BY <1>1, <1>4 DEF GoalInv, Typed
<1>9. Bounded'
  BY <1>1, <1>7, <1>8, BoundedTaken DEF GoalInv
<1>10. ClientsTypeOK'
  BY <1>1 DEF GoalInv, ClientsTypeOK
<1> QED
  BY <1>5, <1>7, <1>9, <1>10 DEF GoalInv

LEMMA TakeFeedbackInv ==
    ASSUME GoalInv, NEW n \in 1..sent, NEW ok \in BOOLEAN, TakeFeedback(n, ok)
    PROVE  GoalInv'
<1>0. PICK e : e = [kind |-> "feedback", n |-> n, ok |-> ok]
  OBVIOUS
<1>1. /\ events' = Append(events, e)
      /\ heard' = heard + 1 /\ heard < MaxFeedback
      /\ UNCHANGED <<outputs, failed, closed, seen, phase>>
      /\ UNCHANGED <<goals, action_calls, handles, cancels, asker, log, abandoned,
                     stranded, unanswerable>>
  BY <1>0 DEF TakeFeedback, clientVars
<1>2. n \in Nat /\ heard \in Nat /\ MaxFeedback \in Nat
  BY BoundsAssumption DEF GoalInv, Typed
<1>3. e \in EventRec
  BY <1>0, <1>2 DEF EventRec, Kinds
<1>4. e.kind = "feedback"
  BY <1>0
<1>5. Owned' /\ Calls' /\ Logged' /\ Held' /\ sent' = sent
  BY <1>1, EventsOnly
<1>6. events' \in Seq(EventRec) /\ heard' \in 0..MaxFeedback
  BY <1>1, <1>2, <1>3 DEF GoalInv, Typed
<1>7. Typed'
  BY <1>1, <1>5, <1>6 DEF GoalInv, Typed
<1>8. heard' = heard + (IF e.kind = "feedback" THEN 1 ELSE 0)
  BY <1>1, <1>4
<1>9. Bounded'
  BY <1>1, <1>7, <1>8, BoundedTaken DEF GoalInv
<1>10. ClientsTypeOK'
  BY <1>1 DEF GoalInv, ClientsTypeOK
<1> QED
  BY <1>5, <1>7, <1>9, <1>10 DEF GoalInv

LEMMA HandleStaleInv ==
    ASSUME GoalInv, HandleStale
    PROVE  GoalInv'
<1>1. /\ events # << >> /\ events' = Tail(events)
      /\ UNCHANGED <<outputs, failed, closed, seen, phase>>
      /\ UNCHANGED <<goals, action_calls, handles, heard, cancels, asker, log,
                     abandoned, stranded, unanswerable>>
  BY DEF HandleStale, clientVars
<1>2. Owned' /\ Calls' /\ Logged' /\ Held' /\ Due' = Due /\ sent' = sent
  BY <1>1, EventsOnly
<1>3. events' \in Seq(EventRec)
  BY <1>1 DEF GoalInv, Typed
<1>4. Typed'
  BY <1>1, <1>2, <1>3 DEF GoalInv, Typed
<1>5. \A n \in 1..MaxGoals :
         Len(log'[n]) + Due'[n] <= Len(log[n]) + Due[n] +
            (IF Head(events).kind = "feedback" THEN 1 ELSE 0)
  <2> TAKE n \in 1..MaxGoals
  <2>1. Len(log[n]) \in Nat /\ Due[n] \in Nat
    BY DEF GoalInv, Typed, Due
  <2> QED
    BY <1>1, <1>2, <2>1
<1>6. Bounded'
  BY <1>1, <1>4, <1>5, BoundedHandled DEF GoalInv
<1>7. ClientsTypeOK'
  BY <1>1 DEF GoalInv, ClientsTypeOK
<1> QED
  BY <1>2, <1>4, <1>6, <1>7 DEF GoalInv

LEMMA HandleFeedbackInv ==
    ASSUME GoalInv, HandleFeedback
    PROVE  GoalInv'
<1> DEFINE G == {g \in Goal(Head(events).n) : Head(events).ok}
<1>1. /\ events # << >> /\ events' = Tail(events)
      /\ Head(events).kind = "feedback"
      /\ log' = Tell(Numbers(G), "feedback")
      /\ Send({g.owner : g \in G})
      /\ UNCHANGED <<outputs, seen, phase>>
      /\ UNCHANGED <<goals, action_calls, handles, heard, cancels, asker, abandoned,
                     stranded, unanswerable>>
  BY DEF HandleFeedback, Event
<1>2. ClientsTypeOK'
  BY <1>1, SendClients DEF GoalInv
<1>3. Numbers(G) \subseteq Numbers(goals)
  BY DEF Numbers, Goal
<1>4. /\ sent' = sent /\ Numbers(goals)' = Numbers(goals)
      /\ \A n : Goal(n)' = Goal(n)
  BY <1>1 DEF sent, Numbers, Goal
<1> HIDE DEF G
<1>5. Owned' /\ Held'
  BY <1>1, <1>4 DEF GoalInv, Owned, Held
<1>6. Calls'
  BY <1>1, <1>4, Zenon DEF GoalInv, Calls, CallsTracked
<1>7. Logged'
  BY <1>1, <1>3, <1>4, LoggedTell DEF GoalInv
<1>8. /\ log' \in [1..MaxGoals -> Seq({"feedback", "error", "result"})]
      /\ \A n \in 1..MaxGoals : Len(log'[n]) <= Len(log[n]) + 1
  <2>1. \A n \in 1..MaxGoals : Len(log[n]) \in Nat
    BY DEF GoalInv, Typed
  <2> QED
    BY <1>1, <2>1, TellFacts DEF GoalInv
<1>9. Typed'
  <2>1. events' \in Seq(EventRec)
    BY <1>1 DEF GoalInv, Typed
  <2> QED
    BY <1>1, <1>4, <1>8, <2>1 DEF GoalInv, Typed
<1>10. \A n \in 1..MaxGoals :
         Len(log'[n]) + Due'[n] <= Len(log[n]) + Due[n] +
            (IF Head(events).kind = "feedback" THEN 1 ELSE 0)
  <2> TAKE n \in 1..MaxGoals
  <2>1. Due[n] \in Nat /\ Due'[n] \in Nat /\ Due'[n] <= Due[n]
    BY <1>1, <1>4, DueShrinks
  <2>2. Len(log[n]) \in Nat /\ Len(log'[n]) \in Nat
    BY <1>9 DEF GoalInv, Typed
  <2> QED
    BY <1>1, <1>8, <2>1, <2>2
<1>11. Bounded'
  BY <1>1, <1>9, <1>10, BoundedHandled DEF GoalInv
<1> QED
  BY <1>2, <1>5, <1>6, <1>7, <1>9, <1>11 DEF GoalInv

LEMMA HandleFinalInv ==
    ASSUME GoalInv, HandleFinal
    PROVE  GoalInv'
<1> DEFINE G == Goal(Head(events).n)
<1>1. /\ events # << >> /\ events' = Tail(events)
      /\ UNCHANGED <<outputs, seen, phase>>
      /\ UNCHANGED <<heard, cancels, asker, abandoned, stranded, unanswerable>>
      /\ Finish(G) /\ Send({g.owner : g \in G})
  BY DEF HandleFinal, Event
<1>2. ClientsTypeOK' /\ G \subseteq goals
  BY <1>1, SendClients DEF GoalInv, Goal
<1>3. \A g \in goals \ G : g.owner \in outputs'
  BY <1>1 DEF GoalInv, Owned
<1>4. abandoned' \cup stranded' \subseteq 1..sent
  BY <1>1 DEF GoalInv, Typed
<1> HIDE DEF G
<1> QED
  BY <1>1, <1>2, <1>3, <1>4, FinishInv

LEMMA ExpireGoalInv ==
    ASSUME GoalInv, NEW g \in goals, ExpireGoal(g)
    PROVE  GoalInv'
<1>1. /\ UNCHANGED <<outputs, seen, phase>>
      /\ UNCHANGED <<events, heard, cancels, asker, abandoned, stranded,
                     unanswerable>>
      /\ Finish({g}) /\ Send({g.owner})
  BY DEF ExpireGoal
<1>2. ClientsTypeOK'
  BY <1>1, SendClients DEF GoalInv
<1>3. \A h \in goals \ {g} : h.owner \in outputs'
  BY <1>1 DEF GoalInv, Owned
<1>4. abandoned' \cup stranded' \subseteq 1..sent
  BY <1>1 DEF GoalInv, Typed
<1> QED
  BY <1>1, <1>2, <1>3, <1>4, FinishInv

(* Whoever leaves has its accepted goals cancelled; some requests fail. *)
LEMMA ReleaseCancels ==
    ASSUME NEW D, Release(D)
    PROVE  LET G == {g \in goals : g.owner \in D}
           IN  /\ outputs' = outputs \ D
               /\ abandoned' \cup stranded' = abandoned \cup stranded \cup ToCancel(G)
               /\ Finish(G)
<1> DEFINE G == {g \in goals : g.owner \in D}
<1>1. /\ outputs' = outputs \ D /\ Finish(G)
      /\ \E F \in SUBSET ToCancel(G) :
            /\ abandoned' = abandoned \cup (ToCancel(G) \ F)
            /\ stranded' = stranded \cup F
  BY DEF Release
<1> HIDE DEF G
<1>2. abandoned' \cup stranded' = abandoned \cup stranded \cup ToCancel(G)
  BY <1>1
<1> QED
  BY <1>1, <1>2 DEF G

LEMMA ReleaseInv ==
    ASSUME GoalInv, ClientsTypeOK', NEW D, Release(D), seen' = seen,
           UNCHANGED <<events, heard, cancels, asker, unanswerable>>
    PROVE  GoalInv'
<1> DEFINE G == {g \in goals : g.owner \in D}
<1>1. /\ outputs' = outputs \ D
      /\ abandoned' \cup stranded' = abandoned \cup stranded \cup ToCancel(G)
      /\ Finish(G)
  BY ReleaseCancels
<1>2. \A g \in goals \ G : g.owner \in outputs'
  BY <1>1 DEF GoalInv, Owned
<1>3. ToCancel(G) \subseteq 1..sent
  BY DEF ToCancel, Numbers, GoalInv, Owned
<1>4. abandoned' \cup stranded' \subseteq 1..sent
  BY <1>1, <1>3 DEF GoalInv, Typed
<1>5. G \in SUBSET goals
  OBVIOUS
<1> HIDE DEF G
<1> QED
  BY <1>1, <1>2, <1>4, <1>5, FinishInv

(* A new number: the next one, which nothing was said about. *)
LEMMA NextNumber ==
    ASSUME GoalInv, NEW c \in Conn, sent < MaxGoals, asker' = Append(asker, c)
    PROVE  /\ sent \in Nat /\ MaxGoals \in Nat /\ sent' = sent + 1
           /\ sent + 1 \in 1..MaxGoals
           /\ asker' \in Seq(Conn) /\ asker'[sent + 1] = c
           /\ \A n \in 1..sent : asker'[n] = asker[n]
           /\ 1..sent' = (1..sent) \cup {sent + 1}
           /\ log[sent + 1] = << >>
           /\ Numbers(goals) \subseteq 1..sent
<1>1. /\ sent \in Nat /\ MaxGoals \in Nat /\ asker \in Seq(Conn)
      /\ sent = Len(asker)
  BY BoundsAssumption DEF GoalInv, Typed, sent
<1>2. /\ sent' = sent + 1 /\ asker' \in Seq(Conn) /\ asker'[sent + 1] = c
      /\ \A n \in 1..sent : asker'[n] = asker[n]
  BY <1>1 DEF sent
<1>3. sent + 1 \in 1..MaxGoals
  BY <1>1
<1>4. 1..sent' = (1..sent) \cup {sent + 1}
  BY <1>1, <1>2
<1>5. log[sent + 1] = << >>
  BY <1>1, <1>3 DEF GoalInv, Logged, LogUnused
<1>6. Numbers(goals) \subseteq 1..sent
  BY ActiveNumbers DEF GoalInv
<1> QED
  BY <1>1, <1>2, <1>3, <1>4, <1>5, <1>6

LEMMA SendGoalInv ==
    ASSUME GoalInv, NEW c \in Conn, NEW t \in Tag, SendGoal(c, t)
    PROVE  GoalInv'
<1>0. PICK new : new = [n |-> sent + 1, owner |-> c, tag |-> t,
                        accepted |-> FALSE, cancelling |-> FALSE]
  OBVIOUS
<1>1. /\ c \in outputs /\ sent < MaxGoals /\ asker' = Append(asker, c)
      /\ \A g \in goals : g.owner # c \/ g.tag # t
      /\ goals' = goals \cup {new}
      /\ handles' = handles \cup (Kinds \X {sent + 1})
      /\ action_calls' = action_calls \cup {<<"send", sent + 1>>}
      /\ UNCHANGED <<outputs, failed, closed, seen, phase>>
      /\ UNCHANGED <<events, heard, cancels, log, abandoned, stranded,
                     unanswerable>>
  BY <1>0 DEF SendGoal, Commands, clientVars
<1>2. /\ sent \in Nat /\ MaxGoals \in Nat /\ sent' = sent + 1
      /\ sent + 1 \in 1..MaxGoals
      /\ asker' \in Seq(Conn) /\ asker'[sent + 1] = c
      /\ \A n \in 1..sent : asker'[n] = asker[n]
      /\ 1..sent' = (1..sent) \cup {sent + 1}
      /\ log[sent + 1] = << >>
      /\ Numbers(goals) \subseteq 1..sent
  BY <1>1, NextNumber
<1>3. /\ new \in GoalRec /\ new.n = sent + 1 /\ new.owner = c /\ new.tag = t
      /\ new.accepted = FALSE
  BY <1>0, <1>2 DEF GoalRec
<1>4. Numbers(goals)' = Numbers(goals) \cup {sent + 1}
  BY <1>1, <1>3 DEF Numbers
<1>5. \A g \in goals : g.n \in 1..sent /\ g.n # sent + 1
  BY <1>2 DEF GoalInv, Owned
<1>6. ClientsTypeOK'
  BY <1>1 DEF GoalInv, ClientsTypeOK
<1>7. Typed'
  <2>1. goals' \subseteq GoalRec
    BY <1>1, <1>3 DEF GoalInv, Typed
  <2>2. action_calls' \subseteq Clients \X (1..sent')
    BY <1>1, <1>2 DEF GoalInv, Typed, Clients
  <2>3. sent' \in 0..MaxGoals /\ 1..sent \subseteq 1..sent'
    BY <1>1, <1>2
  <2>4. abandoned' \cup stranded' \subseteq 1..sent' /\ unanswerable' \subseteq 1..sent'
    BY <1>1, <2>3 DEF GoalInv, Typed
  <2> QED
    BY <1>1, <1>2, <2>1, <2>2, <2>3, <2>4 DEF GoalInv, Typed
<1>8. Owned'
  <2>1. \A g \in goals' : /\ g.n \in 1..sent'
                          /\ g.owner \in outputs'
                          /\ g.owner = asker'[g.n]
    BY <1>1, <1>2, <1>3 DEF GoalInv, Owned
  <2>2. \A g, h \in goals' : g.n = h.n => g = h
    BY <1>1, <1>3, <1>5 DEF GoalInv, Owned
  <2>3. \A g, h \in goals' : g.owner = h.owner /\ g.tag = h.tag => g = h
    BY <1>1, <1>3 DEF GoalInv, Owned
  <2>4. \A n \in 1..sent' : asker'[n] \in seen'
    BY <1>1, <1>2 DEF GoalInv, Owned, ClientsTypeOK
  <2> QED
    BY <2>1, <2>2, <2>3, <2>4 DEF Owned
<1>9. Calls'
  <2>1. \A x \in action_calls : x[2] \in 1..sent
    BY DEF GoalInv, Typed
  <2>2. ASSUME NEW k PROVE <<k, sent + 1>> \notin action_calls
    BY <1>2, <2>1
  <2>3. ASSUME NEW g \in goals, NEW k
        PROVE  <<k, g.n>> \in action_calls' <=> <<k, g.n>> \in action_calls
    BY <1>1, <1>5
  <2>4. \A g \in goals :
          /\ <<"send", g.n>> \in action_calls' <=> ~g.accepted
          /\ <<"result", g.n>> \in action_calls'
                <=> (g.accepted /\ g.n \notin unanswerable')
          /\ <<"cancel", g.n>> \in action_calls' => g.accepted /\ g.cancelling
          /\ g.n \in unanswerable' => g.accepted
    BY <1>1, <2>3, Zenon DEF GoalInv, Calls, CallsTracked
  <2>5. /\ <<"send", new.n>> \in action_calls'
        /\ <<"result", new.n>> \notin action_calls'
        /\ <<"cancel", new.n>> \notin action_calls'
        /\ new.n \notin unanswerable'
    BY <1>1, <1>2, <1>3, <2>2 DEF GoalInv, Typed
  <2>6. \A g \in goals' :
          /\ <<"send", g.n>> \in action_calls' <=> ~g.accepted
          /\ <<"result", g.n>> \in action_calls'
                <=> (g.accepted /\ g.n \notin unanswerable')
          /\ <<"cancel", g.n>> \in action_calls' => g.accepted /\ g.cancelling
          /\ g.n \in unanswerable' => g.accepted
    <3> TAKE g \in goals'
    <3>1. CASE g \in goals
      BY <2>4, <3>1, Zenon
    <3>2. CASE g = new
      BY <1>3, <2>5, <3>2, Zenon
    <3> QED
      BY <1>1, <3>1, <3>2, Zenon
  <2>7. \A x \in action_calls' : Goal(x[2])' # {}
    <3> TAKE x \in action_calls'
    <3>1. CASE x \in action_calls
      BY <1>1, <3>1 DEF GoalInv, Calls, CallsTracked, Goal
    <3>2. CASE x = <<"send", sent + 1>>
      BY <1>1, <1>3, <3>2 DEF Goal
    <3> QED
      BY <1>1, <3>1, <3>2
  <2> QED
    BY <2>6, <2>7, Zenon DEF Calls, CallsTracked
<1>10. Logged'
  <2>1. LogEnds'
    BY <1>1 DEF GoalInv, Logged, LogEnds
  <2>2. LogOpen'
    BY <1>1, <1>2, <1>4 DEF GoalInv, Logged, LogOpen, Contains
  <2>3. LogUnused'
    BY <1>1, <1>2 DEF GoalInv, Logged, LogUnused
  <2>4. LogGiven'
    BY <1>1, <1>2, <1>4 DEF GoalInv, Logged, LogGiven
  <2> QED
    BY <2>1, <2>2, <2>3, <2>4 DEF Logged
<1>11. Held'
  BY <1>1, <1>4 DEF GoalInv, Held
<1>12. Bounded'
  <2>1. \A n \in 1..MaxGoals : Due'[n] = Due[n]
    <3> TAKE n \in 1..MaxGoals
    <3>1. <<"cancel", n>> \in action_calls' <=> <<"cancel", n>> \in action_calls
      BY <1>1
    <3>2. Open(n)' <=> Open(n)
      BY <1>2, <1>4 DEF Open
    <3> QED
      BY <3>1, <3>2 DEF Due
  <2>2. \A n \in 1..MaxGoals : Len(log'[n]) + Due'[n] + cancels
                                  <= Len(log[n]) + Due[n] + cancels'
    <3> TAKE n \in 1..MaxGoals
    <3>1. Len(log[n]) \in Nat /\ Due[n] \in Nat /\ cancels \in Nat
      BY DEF GoalInv, Typed, Due
    <3> QED
      BY <1>1, <2>1, <3>1
  <2>3. cancels <= cancels'
    BY <1>1 DEF GoalInv, Typed
  <2> QED
    BY <1>1, <1>7, <2>2, <2>3, BoundedQuiet DEF GoalInv
<1> QED
  BY <1>6, <1>7, <1>8, <1>9, <1>10, <1>11, <1>12 DEF GoalInv

LEMMA SendGoalFailsInv ==
    ASSUME GoalInv, NEW c \in Conn, SendGoalFails(c)
    PROVE  GoalInv'
<1>1. /\ c \in outputs /\ sent < MaxGoals /\ asker' = Append(asker, c)
      /\ log' = Tell({sent + 1}, "result")
      /\ Send({c})
      /\ UNCHANGED <<outputs, seen, phase>>
      /\ UNCHANGED <<goals, action_calls, handles, events, heard, cancels,
                     abandoned, stranded, unanswerable>>
  BY DEF SendGoalFails, Commands
<1>2. /\ sent \in Nat /\ MaxGoals \in Nat /\ sent' = sent + 1
      /\ sent + 1 \in 1..MaxGoals
      /\ asker' \in Seq(Conn) /\ asker'[sent + 1] = c
      /\ \A n \in 1..sent : asker'[n] = asker[n]
      /\ 1..sent' = (1..sent) \cup {sent + 1}
      /\ log[sent + 1] = << >>
      /\ Numbers(goals) \subseteq 1..sent
  BY <1>1, NextNumber
<1>3. /\ Numbers(goals)' = Numbers(goals) /\ \A n : Goal(n)' = Goal(n)
  BY <1>1 DEF Numbers, Goal
<1>4. /\ log' \in [1..MaxGoals -> Seq({"feedback", "error", "result"})]
      /\ \A n \in 1..MaxGoals : n # sent + 1 => log'[n] = log[n]
      /\ Len(log'[sent + 1]) = Len(log[sent + 1]) + 1
      /\ log'[sent + 1][Len(log[sent + 1]) + 1] = "result"
  <2>1. PICK N : N = {sent + 1}
    OBVIOUS
  <2>2. Typed /\ log' = Tell(N, "result")
    BY <1>1, <2>1 DEF GoalInv
  <2>3. /\ log' \in [1..MaxGoals -> Seq({"feedback", "error", "result"})]
        /\ \A n \in 1..MaxGoals :
              /\ n \notin N => log'[n] = log[n]
              /\ n \in N => /\ Len(log'[n]) = Len(log[n]) + 1
                            /\ log'[n][Len(log[n]) + 1] = "result"
    BY <2>2, TellFacts
  <2> QED
    BY <1>2, <2>1, <2>3
<1>5. /\ Len(log'[sent + 1]) = 1 /\ log'[sent + 1][1] = "result"
  BY <1>2, <1>4
<1>6. ClientsTypeOK'
  BY <1>1, SendClients DEF GoalInv
<1>7. Typed'
  <2>1. action_calls' \subseteq Clients \X (1..sent')
    BY <1>1, <1>2 DEF GoalInv, Typed
  <2>2. sent' \in 0..MaxGoals /\ 1..sent \subseteq 1..sent'
    BY <1>1, <1>2
  <2>3. abandoned' \cup stranded' \subseteq 1..sent' /\ unanswerable' \subseteq 1..sent'
    BY <1>1, <2>2 DEF GoalInv, Typed
  <2> QED
    BY <1>1, <1>2, <1>4, <2>1, <2>2, <2>3 DEF GoalInv, Typed
<1>8. Owned'
  <2>1. \A g \in goals' : /\ g.n \in 1..sent'
                          /\ g.owner \in outputs'
                          /\ g.owner = asker'[g.n]
    BY <1>1, <1>2 DEF GoalInv, Owned
  <2>2. \A n \in 1..sent' : asker'[n] \in seen'
    BY <1>1, <1>2 DEF GoalInv, Owned, ClientsTypeOK
  <2> QED
    BY <1>1, <2>1, <2>2 DEF GoalInv, Owned
<1>9. Calls' /\ Held'
  <2>1. Calls'
    BY <1>1, <1>3, Zenon DEF GoalInv, Calls, CallsTracked
  <2> QED
    BY <1>1, <1>3, <2>1 DEF GoalInv, Held
<1>10. Logged'
  <2>1. LogEnds'
    BY <1>4, <1>5 DEF GoalInv, Logged, LogEnds, Ended
  <2>2. LogOpen'
    <3> SUFFICES ASSUME NEW n \in Numbers(goals)
                 PROVE  ~Contains(log'[n], "result")
      BY <1>3 DEF LogOpen
    <3>1. n # sent + 1 /\ n \in 1..MaxGoals
      BY <1>1, <1>2
    <3> QED
      BY <1>4, <3>1 DEF GoalInv, Logged, LogOpen
  <2>3. LogUnused'
    <3> SUFFICES ASSUME NEW n \in 1..MaxGoals, n > sent'
                 PROVE  log'[n] = << >>
      BY DEF LogUnused
    <3>1. n > sent /\ n # sent + 1
      BY <1>2
    <3> QED
      BY <1>4, <3>1 DEF GoalInv, Logged, LogUnused
  <2>4. LogGiven'
    <3> SUFFICES ASSUME NEW n \in 1..sent', asker'[n] \in outputs',
                        n \notin Numbers(goals)'
                 PROVE  Contains(log'[n], "result")
      BY DEF LogGiven
    <3>1. CASE n = sent + 1
      BY <1>5, <3>1 DEF Contains
    <3>2. CASE n \in 1..sent
      <4>1. n # sent + 1 /\ n \in 1..MaxGoals
        BY <1>1, <1>2, <3>2
      <4> QED
        BY <1>1, <1>2, <1>3, <1>4, <3>2, <4>1 DEF GoalInv, Logged, LogGiven
    <3> QED
      BY <1>2, <3>1, <3>2
  <2> QED
    BY <2>1, <2>2, <2>3, <2>4 DEF Logged
<1>11. Bounded'
  <2>1. \A n \in 1..MaxGoals :
           Len(log'[n]) + Due'[n] <= Len(log[n]) + Due[n]
    <3> TAKE n \in 1..MaxGoals
    <3>1. Len(log[n]) \in Nat /\ Due[n] \in Nat /\ Due'[n] \in Nat
      BY DEF GoalInv, Typed, Due
    <3>2. CASE n = sent + 1
      <4>1. Open(n) /\ ~Open(n)'
        BY <1>2, <1>3, <3>2 DEF Open
      <4>2. Due'[n] + 1 = Due[n]
        BY <1>1, <4>1 DEF Due
      <4> QED
        BY <1>4, <3>1, <3>2, <4>2
    <3>3. CASE n # sent + 1
      <4>1. Open(n)' => Open(n)
        BY <1>2, <1>3, <3>3 DEF Open
      <4>2. Due'[n] <= Due[n]
        BY <1>1, <4>1 DEF Due
      <4> QED
        BY <1>4, <3>1, <3>3, <4>2
    <3> QED
      BY <3>2, <3>3
  <2>2. \A n \in 1..MaxGoals : Len(log'[n]) + Due'[n] + cancels
                                  <= Len(log[n]) + Due[n] + cancels'
    <3>1. \A n \in 1..MaxGoals :
             /\ Len(log[n]) \in Nat /\ Len(log'[n]) \in Nat
             /\ Due[n] \in Nat /\ Due'[n] \in Nat
      BY <1>7 DEF GoalInv, Typed, Due
    <3>2. cancels \in Nat /\ cancels' = cancels
      BY <1>1 DEF GoalInv, Typed
    <3> TAKE n \in 1..MaxGoals
    <3>3. PICK l \in Nat, m \in Nat, d \in Nat, e \in Nat :
              /\ l = Len(log[n]) /\ m = Len(log'[n])
              /\ d = Due[n] /\ e = Due'[n]
      BY <3>1
    <3>4. m + e <= l + d
      BY <2>1, <3>3, Zenon
    <3>5. m + e + cancels <= l + d + cancels
      BY <3>2, <3>4
    <3> QED
      BY <3>2, <3>3, <3>5, Zenon
  <2>3. cancels <= cancels'
    BY <1>1 DEF GoalInv, Typed
  <2> QED
    BY <1>1, <1>7, <2>2, <2>3, BoundedQuiet DEF GoalInv
<1> QED
  BY <1>6, <1>7, <1>8, <1>9, <1>10, <1>11 DEF GoalInv

LEMMA CancelGoalInv ==
    ASSUME GoalInv, NEW c \in Conn, NEW g \in goals, CancelGoal(c, g)
    PROVE  GoalInv'
<1>0. PICK G, F : G = {g} /\ F = [x \in G |-> [x EXCEPT !.cancelling = TRUE]]
  OBVIOUS
<1>1. /\ g.accepted /\ cancels < MaxCancels /\ cancels' = cancels + 1
      /\ action_calls' = action_calls \cup {<<"cancel", g.n>>}
      /\ UNCHANGED <<outputs, failed, closed, seen, phase>>
      /\ UNCHANGED <<handles, events, heard, asker, log, abandoned, stranded,
                     unanswerable>>
  BY <1>0 DEF CancelGoal, clientVars
<1>2. G \subseteq goals /\ \A x \in G : Marked(x, F[x])
  BY <1>0, Cancelling DEF GoalInv, Typed
<1>3. F[g].accepted = g.accepted /\ F[g].cancelling = TRUE
  BY <1>0 DEF GoalInv, Typed, GoalRec
<1>4. goals' = (goals \ G) \cup {F[x] : x \in G}
  BY <1>0 DEF CancelGoal
<1>5. /\ goals' \subseteq GoalRec /\ Numbers(goals)' = Numbers(goals)
      /\ sent' = sent
  BY <1>1, <1>2, <1>4, MarkedGoals DEF GoalInv, sent
<1>6. Owned'
  BY <1>1, <1>2, <1>4, MarkedOwned DEF GoalInv
<1>7. ClientsTypeOK' /\ Held'
  BY <1>1, <1>5 DEF GoalInv, ClientsTypeOK, Held
<1>8. Logged'
  BY <1>1, <1>5, LoggedSame DEF GoalInv
<1>9. Typed'
  <2>1. g.n \in 1..sent
    BY DEF GoalInv, Owned
  <2>2. action_calls' \subseteq Clients \X (1..sent')
    BY <1>1, <1>5, <2>1 DEF GoalInv, Typed, Clients
  <2>3. cancels' \in 0..MaxCancels
    BY <1>1, BoundsAssumption DEF GoalInv, Typed
  <2> QED
    BY <1>1, <1>5, <2>2, <2>3 DEF GoalInv, Typed
<1>10. Calls'
  <2>1. \A h \in goals' : (h \in goals /\ h.n # g.n) \/ (h = F[g] /\ h.n = g.n)
    <3>1. goals' = (goals \ {g}) \cup {F[g]} /\ F[g].n = g.n
      BY <1>0, <1>2, <1>4 DEF Marked
    <3>2. \A h \in goals : h # g => h.n # g.n
      BY DEF GoalInv, Owned
    <3> TAKE h \in goals'
    <3>4. CASE h = F[g]
      BY <3>1, <3>4
    <3>5. CASE h \in goals /\ h # g
      BY <3>2, <3>5
    <3> QED
      BY <3>1, <3>4, <3>5
  <2>2. ASSUME NEW h \in goals'
        PROVE  /\ <<"send", h.n>> \in action_calls' <=> ~h.accepted
               /\ <<"result", h.n>> \in action_calls'
                     <=> (h.accepted /\ h.n \notin unanswerable')
               /\ <<"cancel", h.n>> \in action_calls' => h.accepted /\ h.cancelling
               /\ h.n \in unanswerable' => h.accepted
    <3>1. /\ <<"send", h.n>> \in action_calls' <=> <<"send", h.n>> \in action_calls
          /\ <<"result", h.n>> \in action_calls' <=> <<"result", h.n>> \in action_calls
          /\ h.n # g.n => (<<"cancel", h.n>> \in action_calls'
                              <=> <<"cancel", h.n>> \in action_calls)
      BY <1>1
    <3>2. CASE h \in goals /\ h.n # g.n
      BY <1>1, <3>1, <3>2, Zenon DEF GoalInv, Calls, CallsTracked
    <3>3. CASE h = F[g] /\ h.n = g.n
      <4>1. h.accepted /\ h.cancelling
        BY <1>1, <1>3, <3>3, Zenon
      <4> QED
        BY <1>1, <3>1, <3>3, <4>1, Zenon DEF GoalInv, Calls, CallsTracked
    <3> QED
      BY <2>1, <3>2, <3>3, Zenon
  <2>3. \A x \in action_calls' : x[2] \in Numbers(goals)
    BY <1>1, NoGoal DEF GoalInv, Calls, CallsTracked, Numbers
  <2>4. \A x \in action_calls' : Goal(x[2])' # {}
    BY <1>5, <2>3 DEF Numbers, Goal
  <2> QED
    BY <2>2, <2>4, Zenon DEF Calls, CallsTracked
<1>11. Bounded'
  <2>1. \A n \in 1..MaxGoals : Due'[n] <= Due[n] + 1
    <3> TAKE n \in 1..MaxGoals
    <3>1. Open(n)' <=> Open(n)
      BY <1>5 DEF Open
    <3>2. <<"cancel", n>> \in action_calls => <<"cancel", n>> \in action_calls'
      BY <1>1
    <3> QED
      BY <3>1, <3>2 DEF Due
  <2>2. \A n \in 1..MaxGoals : Len(log[n]) \in Nat /\ Due[n] \in Nat /\ Due'[n] \in Nat
    BY DEF GoalInv, Typed, Due
  <2>3. cancels \in Nat /\ cancels <= cancels' /\ cancels' = cancels + 1
    BY <1>1 DEF GoalInv, Typed
  <2>4. \A n \in 1..MaxGoals : Len(log'[n]) + Due'[n] + cancels
                                  <= Len(log[n]) + Due[n] + cancels'
    <3> TAKE n \in 1..MaxGoals
    <3>1. PICK l \in Nat, d \in Nat, e \in Nat, k \in Nat :
              l = Len(log[n]) /\ d = Due[n] /\ e = Due'[n] /\ k = cancels
      BY <2>2, <2>3
    <3>2. e <= d + 1
      BY <2>1, <3>1, Zenon
    <3>3. l + e + k <= l + d + (k + 1)
      BY <3>2
    <3> QED
      BY <1>1, <3>1, <3>3, Zenon
  <2> QED
    BY <1>1, <1>9, <2>3, <2>4, BoundedQuiet DEF GoalInv
<1> QED
  BY <1>6, <1>7, <1>8, <1>9, <1>10, <1>11 DEF GoalInv

LEMMA HandleAcceptedInv ==
    ASSUME GoalInv, HandleAccepted
    PROVE  GoalInv'
<1>0. PICK n : n = Head(events).n
  OBVIOUS
<1>1. PICK F : F = [x \in Goal(n) |-> [x EXCEPT !.accepted = TRUE]]
  OBVIOUS
<1>2. /\ events # << >> /\ events' = Tail(events)
      /\ Head(events).kind = "send"
      /\ <<"send", n>> \in action_calls
      /\ goals' = {g \in goals : g.n # n}
                     \cup {[g EXCEPT !.accepted = TRUE] : g \in Goal(n)}
      /\ \/ /\ action_calls' = (action_calls \ {<<"send", n>>})
                                 \cup {<<"result", x>> : x \in Numbers(Goal(n))}
            /\ UNCHANGED unanswerable
         \/ /\ action_calls' = action_calls \ {<<"send", n>>}
            /\ unanswerable' = unanswerable \cup Numbers(Goal(n))
      /\ UNCHANGED <<outputs, failed, closed, seen, phase>>
      /\ UNCHANGED <<handles, heard, cancels, asker, log, abandoned, stranded>>
  BY <1>0 DEF HandleAccepted, Event, Outstanding, clientVars
<1>3. PICK a \in goals : a.n = n /\ Goal(n) = {a} /\ a \in GoalRec
  <2>1. PICK a \in goals : a.n = n
    BY <1>2 DEF GoalInv, Calls, CallsTracked, Goal
  <2> QED
    BY <2>1, GoalAlone DEF GoalInv, Typed
<1>4. Numbers(Goal(n)) = {n} /\ n \in 1..sent
  BY <1>3 DEF Numbers, GoalInv, Owned
<1>5. PICK G : G = {a}
  OBVIOUS
<1>6. /\ G \subseteq goals /\ \A g \in G : Marked(g, F[g])
      /\ goals' = (goals \ G) \cup {F[g] : g \in G}
  <2>1. {g \in goals : g.n # n} = goals \ G
    BY <1>3, <1>5 DEF Goal
  <2>2. {[g EXCEPT !.accepted = TRUE] : g \in Goal(n)} = {F[g] : g \in G}
    BY <1>1, <1>3, <1>5
  <2>3. \A g \in G : Marked(g, F[g])
    BY <1>1, <1>3, <1>5, Accepting
  <2> QED
    BY <1>2, <1>5, <2>1, <2>2, <2>3
<1>7. /\ goals' \subseteq GoalRec /\ Numbers(goals)' = Numbers(goals)
      /\ sent' = sent
  BY <1>2, <1>6, MarkedGoals DEF GoalInv, sent
<1>8. Owned'
  BY <1>2, <1>6, MarkedOwned DEF GoalInv
<1>9. ClientsTypeOK' /\ Held'
  BY <1>2, <1>7 DEF GoalInv, ClientsTypeOK, Held
<1>10. Logged'
  BY <1>2, <1>7, LoggedSame DEF GoalInv
<1>11. Typed'
  <2>1. action_calls' \subseteq Clients \X (1..sent')
    BY <1>2, <1>4, <1>7 DEF GoalInv, Typed, Clients
  <2>2. unanswerable' \subseteq 1..sent'
    BY <1>2, <1>4, <1>7 DEF GoalInv, Typed
  <2>3. events' \in Seq(EventRec)
    BY <1>2 DEF GoalInv, Typed
  <2> QED
    BY <1>2, <1>7, <2>1, <2>2, <2>3 DEF GoalInv, Typed
<1>12. Calls'
  <2>1. \A h \in goals' : (h \in goals /\ h.n # n) \/ (h = F[a] /\ h.n = n)
    <3>1. goals' = (goals \ {a}) \cup {F[a]} /\ F[a].n = n
      BY <1>3, <1>5, <1>6 DEF Marked
    <3>2. \A h \in goals : h # a => h.n # n
      BY <1>3 DEF GoalInv, Owned
    <3> TAKE h \in goals'
    <3>4. CASE h = F[a]
      BY <3>1, <3>4
    <3>5. CASE h \in goals /\ h # a
      BY <3>2, <3>5
    <3> QED
      BY <3>1, <3>4, <3>5
  <2>2. ~a.accepted /\ n \notin unanswerable /\ <<"cancel", n>> \notin action_calls
    BY <1>2, <1>3, Zenon DEF GoalInv, Calls, CallsTracked
  <2>3. ASSUME NEW h \in goals'
        PROVE  /\ <<"send", h.n>> \in action_calls' <=> ~h.accepted
               /\ <<"result", h.n>> \in action_calls'
                     <=> (h.accepted /\ h.n \notin unanswerable')
               /\ <<"cancel", h.n>> \in action_calls' => h.accepted /\ h.cancelling
               /\ h.n \in unanswerable' => h.accepted
    <3>1. CASE h \in goals /\ h.n # n
      <4>1. /\ <<"send", h.n>> \in action_calls' <=> <<"send", h.n>> \in action_calls
            /\ <<"result", h.n>> \in action_calls' <=> <<"result", h.n>> \in action_calls
            /\ <<"cancel", h.n>> \in action_calls' <=> <<"cancel", h.n>> \in action_calls
            /\ h.n \in unanswerable' <=> h.n \in unanswerable
        BY <1>2, <1>4, <3>1
      <4> QED
        BY <3>1, <4>1, Zenon DEF GoalInv, Calls, CallsTracked
    <3>2. CASE h = F[a] /\ h.n = n
      <4>1. h.accepted
        <5>1. F[a].accepted = TRUE
          BY <1>1, <1>3 DEF GoalRec
        <5> QED
          BY <3>2, <5>1, Zenon
      <4>2. /\ <<"send", n>> \notin action_calls'
            /\ <<"cancel", n>> \notin action_calls'
        BY <1>2, <1>4, <2>2
      <4>3. <<"result", n>> \notin action_calls
        BY <1>3, <2>2, Zenon DEF GoalInv, Calls, CallsTracked
      <4>4. <<"result", n>> \in action_calls' <=> n \notin unanswerable'
        BY <1>2, <1>4, <2>2, <4>3
      <4> QED
        BY <3>2, <4>1, <4>2, <4>4, Zenon
    <3> QED
      BY <2>1, <3>1, <3>2, Zenon
  <2>4. \A x \in action_calls' : x[2] \in Numbers(goals)
    <3>1. \A x \in action_calls : x[2] \in Numbers(goals)
      BY NoGoal DEF GoalInv, Calls, CallsTracked
    <3>2. n \in Numbers(goals)
      BY <1>3 DEF Numbers
    <3> QED
      BY <1>2, <1>4, <3>1, <3>2
  <2>5. \A x \in action_calls' : Goal(x[2])' # {}
    BY <1>7, <2>4 DEF Numbers, Goal
  <2> QED
    BY <2>3, <2>5, Zenon DEF Calls, CallsTracked
<1>13. Bounded'
  <2>1. \A m \in 1..MaxGoals :
           /\ Due[m] \in Nat /\ Due'[m] \in Nat /\ Due'[m] <= Due[m]
           /\ Len(log[m]) \in Nat /\ log'[m] = log[m]
    <3> TAKE m \in 1..MaxGoals
    <3>1. <<"cancel", m>> \in action_calls' => <<"cancel", m>> \in action_calls
      BY <1>2, <1>4
    <3>2. Due[m] \in Nat /\ Due'[m] \in Nat /\ Due'[m] <= Due[m]
      BY <1>2, <1>7, <3>1, DueShrinks
    <3> QED
      BY <1>2, <3>2 DEF GoalInv, Typed
  <2>2. \A m \in 1..MaxGoals :
           Len(log'[m]) + Due'[m] <= Len(log[m]) + Due[m] +
              (IF Head(events).kind = "feedback" THEN 1 ELSE 0)
    BY <2>1
  <2> QED
    BY <1>2, <1>11, <2>2, BoundedHandled DEF GoalInv
<1> QED
  BY <1>8, <1>9, <1>10, <1>11, <1>12, <1>13 DEF GoalInv

LEMMA HandleCancelledInv ==
    ASSUME GoalInv, HandleCancelled
    PROVE  GoalInv'
<1>0. PICK n, G, F : /\ n = Head(events).n
                     /\ G = {g \in Goal(n) : ~Head(events).ok}
                     /\ F = [x \in G |-> [x EXCEPT !.cancelling = FALSE]]
  OBVIOUS
<1>1. /\ events # << >> /\ events' = Tail(events)
      /\ Head(events).kind = "cancel"
      /\ <<"cancel", n>> \in action_calls
      /\ action_calls' = action_calls \ {<<"cancel", n>>}
      /\ goals' = (goals \ G) \cup {[g EXCEPT !.cancelling = FALSE] : g \in G}
      /\ log' = Tell(Numbers(G), "error")
      /\ Send({g.owner : g \in G})
      /\ UNCHANGED <<outputs, seen, phase>>
      /\ UNCHANGED <<handles, heard, cancels, asker, abandoned, stranded,
                     unanswerable>>
  BY <1>0 DEF HandleCancelled, Event, Outstanding
<1>2. G \subseteq goals /\ \A g \in G : g.n = n /\ g \in GoalRec
  BY <1>0 DEF Goal, GoalInv, Typed
<1>3. \A g \in G : Marked(g, F[g]) /\ F[g].accepted = g.accepted
  BY <1>0, <1>2, Cancelling DEF GoalRec
<1>4. goals' = (goals \ G) \cup {F[g] : g \in G}
  BY <1>0, <1>1
<1>5. /\ goals' \subseteq GoalRec /\ Numbers(goals)' = Numbers(goals)
      /\ sent' = sent
  BY <1>1, <1>2, <1>3, <1>4, MarkedGoals DEF GoalInv, sent
<1>6. Owned'
  BY <1>1, <1>2, <1>3, <1>4, MarkedOwned DEF GoalInv
<1>7. ClientsTypeOK' /\ Held'
  BY <1>1, <1>5, SendClients DEF GoalInv, Held
<1>8. Numbers(G) \subseteq Numbers(goals) /\ \A m \in Numbers(G) : m = n
  BY <1>2 DEF Numbers
<1>9. Logged'
  BY <1>1, <1>5, <1>8, LoggedTell DEF GoalInv
<1>10. /\ log' \in [1..MaxGoals -> Seq({"feedback", "error", "result"})]
       /\ \A m \in 1..MaxGoals :
             /\ m \notin Numbers(G) => log'[m] = log[m]
             /\ m \in Numbers(G) => Len(log'[m]) = Len(log[m]) + 1
  BY <1>1, TellFacts DEF GoalInv
<1>11. Typed'
  <2>1. action_calls' \subseteq Clients \X (1..sent')
    BY <1>1, <1>5 DEF GoalInv, Typed
  <2>2. events' \in Seq(EventRec)
    BY <1>1 DEF GoalInv, Typed
  <2> QED
    BY <1>1, <1>5, <1>10, <2>1, <2>2 DEF GoalInv, Typed
<1>12. Calls'
  <2>1. \A h \in goals' : \/ h \in goals
                          \/ \E g \in G : h = F[g] /\ h.n = g.n
    BY <1>3, <1>4 DEF Marked
  <2>2. ASSUME NEW h \in goals'
        PROVE  /\ <<"send", h.n>> \in action_calls' <=> ~h.accepted
               /\ <<"result", h.n>> \in action_calls'
                     <=> (h.accepted /\ h.n \notin unanswerable')
               /\ <<"cancel", h.n>> \in action_calls' => h.accepted /\ h.cancelling
               /\ h.n \in unanswerable' => h.accepted
    <3>1. /\ <<"send", h.n>> \in action_calls' <=> <<"send", h.n>> \in action_calls
          /\ <<"result", h.n>> \in action_calls' <=> <<"result", h.n>> \in action_calls
          /\ <<"cancel", h.n>> \in action_calls' => <<"cancel", h.n>> \in action_calls
          /\ h.n = n => <<"cancel", h.n>> \notin action_calls'
      BY <1>1
    <3>2. CASE h \in goals
      BY <1>1, <3>1, <3>2, Zenon DEF GoalInv, Calls, CallsTracked
    <3>3. ASSUME NEW g \in G, h = F[g], h.n = g.n
          PROVE  /\ <<"send", h.n>> \in action_calls' <=> ~h.accepted
                 /\ <<"result", h.n>> \in action_calls'
                       <=> (h.accepted /\ h.n \notin unanswerable')
                 /\ <<"cancel", h.n>> \in action_calls' => h.accepted /\ h.cancelling
                 /\ h.n \in unanswerable' => h.accepted
      <4>1. g \in goals /\ h.accepted = g.accepted /\ h.n = n
        BY <1>2, <1>3, <3>3, Zenon
      <4> QED
        BY <1>1, <3>1, <3>3, <4>1, Zenon DEF GoalInv, Calls, CallsTracked
    <3> QED
      BY <2>1, <3>2, <3>3, Zenon
  <2>3. \A x \in action_calls' : x[2] \in Numbers(goals)
    BY <1>1, NoGoal DEF GoalInv, Calls, CallsTracked
  <2>4. \A x \in action_calls' : Goal(x[2])' # {}
    BY <1>5, <2>3 DEF Numbers, Goal
  <2> QED
    BY <2>2, <2>4, Zenon DEF Calls, CallsTracked
<1>13. Bounded'
  <2>1. \A m \in 1..MaxGoals :
           /\ Len(log[m]) \in Nat /\ Len(log'[m]) \in Nat
           /\ Due[m] \in Nat /\ Due'[m] \in Nat
    BY <1>11 DEF GoalInv, Typed, Due
  <2>2. \A m \in 1..MaxGoals : /\ Due'[m] <= Due[m]
                               /\ m = n => Due'[m] + 1 <= Due[m]
    <3> TAKE m \in 1..MaxGoals
    <3>1. /\ <<"cancel", m>> \in action_calls' => <<"cancel", m>> \in action_calls
          /\ m = n => <<"cancel", m>> \in action_calls \ action_calls'
      BY <1>1
    <3> QED
      BY <1>1, <1>5, <3>1, DueShrinks
  <2>3. \A m \in 1..MaxGoals : Len(log'[m]) + Due'[m] <= Len(log[m]) + Due[m]
    BY <1>8, <1>10, <2>1, <2>2
  <2>4. \A m \in 1..MaxGoals :
           Len(log'[m]) + Due'[m] <= Len(log[m]) + Due[m] +
              (IF Head(events).kind = "feedback" THEN 1 ELSE 0)
    BY <2>1, <2>3
  <2> QED
    BY <1>1, <1>11, <2>4, BoundedHandled DEF GoalInv
<1> QED
  BY <1>6, <1>7, <1>9, <1>11, <1>12, <1>13 DEF GoalInv

LEMMA WorkerFailsInv ==
    ASSUME GoalInv, WorkerFails
    PROVE  GoalInv'
<1>1. /\ phase' = "broken" /\ outputs' = {} /\ goals' = {} /\ action_calls' = {}
      /\ handles' = {} /\ events' = << >>
      /\ UNCHANGED <<failed, closed, seen, heard, cancels, asker, log, abandoned,
                     stranded, unanswerable>>
  BY DEF WorkerFails
<1>2. sent' = sent /\ Numbers(goals)' = {}
  BY <1>1 DEF sent, Numbers
<1>3. ClientsTypeOK'
  BY <1>1 DEF GoalInv, ClientsTypeOK, Phases
<1>4. Typed'
  BY <1>1, <1>2 DEF GoalInv, Typed
<1>5. Owned' /\ Calls' /\ Held'
  BY <1>1, <1>2 DEF GoalInv, Owned, Calls, CallsTracked, Held
<1>6. Logged'
  BY <1>1, <1>2 DEF GoalInv, Logged, LogEnds, LogOpen, LogUnused, LogGiven
<1>7. Bounded'
  <2>1. PICK left : /\ Counts(left)
                    /\ \A n \in 1..MaxGoals :
                          Len(log[n]) + left[1] + Due[n] <= heard + cancels + 1
    BY DEF GoalInv, Bounded
  <2>2. PICK none : none = [i \in 1..1 |-> 0]
    OBVIOUS
  <2>3. Counts(none)'
    BY <1>1, <2>2 DEF Counts
  <2>4. left[1] \in Nat
    BY <2>1, LeftNat DEF GoalInv
  <2>5. ASSUME NEW n \in 1..MaxGoals
        PROVE  Len(log'[n]) + none[1] + Due'[n] <= heard' + cancels' + 1
    <3>1. Due[n] \in Nat /\ Due'[n] \in Nat /\ Due'[n] <= Due[n]
      <4>1. Open(n)' => Open(n)
        BY <1>2 DEF Open
      <4> QED
        BY <1>1, <4>1 DEF Due
    <3>2. Len(log[n]) \in Nat /\ heard \in Nat /\ cancels \in Nat
      BY DEF GoalInv, Typed
    <3>3. PICK l \in Nat, d \in Nat, e \in Nat, k \in Nat, h \in Nat, c \in Nat :
              /\ l = Len(log[n]) /\ d = Due[n] /\ e = Due'[n] /\ k = left[1]
              /\ h = heard /\ c = cancels
      BY <2>4, <3>1, <3>2
    <3>4. l + k + d <= h + c + 1 /\ e <= d
      BY <2>1, <3>1, <3>3, Zenon
    <3>5. l + 0 + e <= h + c + 1
      BY <3>4
    <3>6. none[1] = 0
      BY <2>2
    <3> QED
      BY <1>1, <3>3, <3>5, <3>6, Zenon
  <2> QED
    BY <2>3, <2>5, Zenon DEF Bounded
<1> QED
  BY <1>3, <1>4, <1>5, <1>6, <1>7 DEF GoalInv

-----------------------------------------------------------------------------
LEMMA ReapedClients ==
    ASSUME ClientsTypeOK, outputs' \subseteq outputs, seen' = seen,
           failed' \subseteq failed, closed' = closed, phase' \in Phases
    PROVE  ClientsTypeOK'
BY DEF ClientsTypeOK

LEMMA TickInv ==
    ASSUME GoalInv, Tick
    PROVE  GoalInv'
<1>1. ASSUME NEW from, NEW to, to \in Phases, Advance(from, to),
             UNCHANGED <<outputs, failed, closed, seen, goalVars>>
      PROVE  GoalInv'
  <2>1. ClientsTypeOK'
    BY <1>1 DEF Advance, GoalInv, ClientsTypeOK
  <2> QED
    BY <1>1, <2>1, GoalsUntouched
<1>2. CASE StartTick
  BY <1>1, <1>2 DEF StartTick, Phases
<1>3. CASE EndPoll
  BY <1>1, <1>3 DEF EndPoll, Phases
<1>4. CASE EndEvents
  BY <1>1, <1>4 DEF EndEvents, Phases
<1>5. CASE EndTimers
  BY <1>1, <1>5 DEF EndTimers, Phases
<1>6. CASE Reap
  <2>1. ClientsTypeOK'
    BY <1>6, ReapedClients DEF Reap, Advance, Release, Phases, GoalInv
  <2> QED
    BY <1>6, <2>1, ReleaseInv DEF Reap
<1> QED
  BY <1>2, <1>3, <1>4, <1>5, <1>6, HandleFeedbackInv, HandleStaleInv,
     HandleAcceptedInv, HandleFinalInv, HandleCancelledInv
     DEF Tick

LEMMA NextGoals ==
    ASSUME GoalInv, [Next]_vars
    PROVE  GoalInv'
<1>1. ASSUME NEW c \in Conn, ClientConnect(c), UNCHANGED goalVars
      PROVE  GoalInv'
  <2>1. ClientsTypeOK'
    BY <1>1 DEF ClientConnect, GoalInv, ClientsTypeOK
  <2>2. /\ seen \subseteq seen' /\ outputs \subseteq outputs'
        /\ outputs' \cap seen \subseteq outputs
    BY <1>1 DEF ClientConnect
  <2> QED
    BY <1>1, <2>1, <2>2, GoalsUntouched
<1>2. ASSUME NEW c \in Conn, OutputCloses(c), UNCHANGED goalVars
      PROVE  GoalInv'
  <2>1. ClientsTypeOK'
    BY <1>2 DEF OutputCloses, GoalInv, ClientsTypeOK
  <2>2. outputs' = outputs /\ seen' = seen
    BY <1>2 DEF OutputCloses
  <2> QED
    BY <1>2, <2>1, <2>2, GoalsUntouched
<1>3. ASSUME NEW c \in Conn, CommandRefused(c)
      PROVE  GoalInv'
  <2>1. ClientsTypeOK'
    BY <1>3, SendClients DEF CommandRefused, GoalInv
  <2> QED
    BY <1>3, <2>1, GoalsUntouched DEF CommandRefused
<1>4. ASSUME NEW c \in Conn, Disconnect(c)
      PROVE  GoalInv'
  <2>1. /\ Release({c}) /\ outputs' \subseteq outputs
        /\ UNCHANGED <<failed, closed, seen, phase>>
        /\ UNCHANGED <<events, heard, cancels, asker, unanswerable>>
    BY <1>4 DEF Disconnect, Release
  <2>2. ClientsTypeOK'
    BY <2>1 DEF GoalInv, ClientsTypeOK
  <2> QED
    BY <2>1, <2>2, ReleaseInv
<1>5. CASE Shutdown
  <2>1. ClientsTypeOK'
    BY <1>5, ReapedClients DEF Shutdown, Advance, Release, Phases, GoalInv
  <2> QED
    BY <1>5, <2>1, ReleaseInv DEF Shutdown
<1>6. CASE UNCHANGED vars
  <2>1. ClientsTypeOK'
    BY <1>6 DEF vars, clientVars, GoalInv, ClientsTypeOK
  <2>2. outputs' = outputs /\ seen' = seen /\ UNCHANGED goalVars
    BY <1>6 DEF vars, clientVars
  <2> QED
    BY <2>1, <2>2, GoalsUntouched
<1> QED
  BY <1>1, <1>2, <1>3, <1>4, <1>5, <1>6, SendGoalInv, SendGoalFailsInv,
     CancelGoalInv, TakeResponseInv, TakeFeedbackInv, ExpireGoalInv, TickInv,
     WorkerFailsInv
     DEF Next

(* The inductive invariant holds, whatever the clients, ROS and the timers *)
(* do.                                                                     *)
THEOREM GoalInvariance == Spec => []GoalInv
BY InitGoals, NextGoals, PTL DEF Spec

-----------------------------------------------------------------------------
(* A client hears feedback and cancellation errors about a goal, then one  *)
(* action_result and nothing after it, and a connected client has either   *)
(* the result or an active goal, for any number of goals and clients.      *)
THEOREM ConversationEnds == Spec => []Conversation
<1>1. ASSUME GoalInv PROVE Conversation
  <2> SUFFICES ASSUME NEW n \in 1..sent
               PROVE  /\ \A i \in 1..Len(log[n]) :
                            log[n][i] = "result" => i = Len(log[n])
                      /\ asker[n] \in outputs =>
                            (Contains(log[n], "result") <=> Goal(n) = {})
    BY DEF Conversation
  <2>1. n \in 1..MaxGoals
    BY <1>1, BoundsAssumption DEF GoalInv, Typed
  <2>2. Goal(n) = {} <=> n \notin Numbers(goals)
    BY NoGoal
  <2> QED
    BY <1>1, <2>1, <2>2 DEF GoalInv, Logged, LogEnds, LogOpen, LogGiven, Ended
<1> QED
  BY <1>1, GoalInvariance, PTL

(* A goal's record, its five ROS entities and the answers it waits for     *)
(* come and go together, for any number of goals and clients.              *)
THEOREM GoalsAreTracked == Spec => []GoalsTracked
<1>1. ASSUME GoalInv PROVE GoalsTracked
  <2>1. handles \subseteq Kinds \X (1..sent)
    BY <1>1, ActiveNumbers DEF GoalInv, Held
  <2>2. ASSUME NEW n \in 1..MaxGoals
        PROVE  Len(log[n]) <= MaxFeedback + MaxCancels + 1
    <3>1. PICK left : /\ Counts(left)
                      /\ Len(log[n]) + left[1] + Due[n] <= heard + cancels + 1
      BY <1>1 DEF GoalInv, Bounded
    <3>2. left[1] \in Nat
      BY <1>1, <3>1, LeftNat DEF GoalInv
    <3>3. /\ Due[n] \in Nat /\ Len(log[n]) \in Nat
          /\ heard \in 0..MaxFeedback /\ cancels \in 0..MaxCancels
          /\ MaxFeedback \in Nat /\ MaxCancels \in Nat
      BY <1>1, BoundsAssumption DEF Due, GoalInv, Typed
    <3>4. PICK l \in Nat, d \in Nat, k \in Nat :
                  l = Len(log[n]) /\ d = Due[n] /\ k = left[1]
      BY <3>2, <3>3
    <3>5. l + k + d <= heard + cancels + 1
      BY <3>1, <3>4, Zenon
    <3>6. l <= MaxFeedback + MaxCancels + 1
      BY <3>3, <3>5
    <3> QED
      BY <3>4, <3>6, Zenon
  <2>3. TypeOK
    BY <1>1, <2>1, <2>2 DEF TypeOK, GoalInv, Typed, Owned
  <2>4. HandlesOwned /\ CallsTracked
    BY <1>1 DEF HandlesOwned, GoalInv, Held, Owned, Calls
  <2> QED
    BY <2>3, <2>4 DEF GoalsTracked
<1> QED
  BY <1>1, GoalInvariance, PTL

-----------------------------------------------------------------------------
(* Who loses a goal. *)

(* A goal that ends while its client is connected has its result. *)
LEMMA FinishTells ==
    ASSUME GoalInv, NEW G \in SUBSET goals, Finish(G), NEW g \in G,
           g.owner \in outputs'
    PROVE  Contains(log'[g.n], "result")
<1>1. g.n \in 1..MaxGoals
  BY ActiveNumbers DEF GoalInv, Numbers
<1>2. g.n \in Numbers({h \in G : h.owner \in outputs'})
  BY DEF Numbers
<1>3. /\ Len(log'[g.n]) = Len(log[g.n]) + 1
      /\ log'[g.n][Len(log[g.n]) + 1] = "result"
  <2> DEFINE N == Numbers({h \in G : h.owner \in outputs'})
  <2>1. Typed /\ log' = Tell(N, "result") /\ g.n \in N
    BY <1>2 DEF Finish, GoalInv
  <2> HIDE DEF N
  <2>2. \A n \in 1..MaxGoals :
           n \in N => /\ Len(log'[n]) = Len(log[n]) + 1
                      /\ log'[n][Len(log[n]) + 1] = "result"
    BY <2>1, TellFacts
  <2> QED
    BY <1>1, <2>1, <2>2
<1>4. Len(log[g.n]) \in Nat
  BY <1>1, LogLengths DEF GoalInv
<1> QED
  BY <1>3, <1>4 DEF Contains

(* Only goals that end lose their number. *)
LEMMA FinishEnds ==
    ASSUME NEW G \in SUBSET goals, Finish(G), NEW g \in goals, Goal(g.n)' = {}
    PROVE  g \in G
BY DEF Finish, Goal

Lost(g) == g \in goals /\ g.accepted /\ Goal(g.n)' = {}
Settled(g) == g.n \in abandoned' \cup stranded' \/ Contains(log'[g.n], "result")

LEMMA ReleaseSettles ==
    ASSUME GoalInv, NEW D, Release(D), NEW g, Lost(g)
    PROVE  Settled(g)
<1> DEFINE G == {h \in goals : h.owner \in D}
<1>1. /\ abandoned' \cup stranded' = abandoned \cup stranded \cup ToCancel(G)
      /\ Finish(G)
  BY ReleaseCancels
<1>2. g \in G
  BY <1>1, FinishEnds DEF Lost
<1>3. g.n \in ToCancel(G)
  BY <1>2, Zenon DEF ToCancel, Numbers, Lost
<1> QED
  BY <1>1, <1>3 DEF Settled

(* A step that keeps the numbers of the goals loses none. *)
LEMMA NothingLost ==
    ASSUME Numbers(goals) \subseteq Numbers(goals)', NEW g, Lost(g)
    PROVE  FALSE
BY DEF Numbers, Lost, Goal

LEMMA HandleAcceptedKeeps ==
    ASSUME GoalInv, HandleAccepted
    PROVE  Numbers(goals) \subseteq Numbers(goals)'
<1>1. goals' = {g \in goals : g.n # Head(events).n}
                 \cup {[g EXCEPT !.accepted = TRUE] : g \in Goal(Head(events).n)}
  BY DEF HandleAccepted
<1>2. ASSUME NEW g \in goals PROVE \E h \in goals' : h.n = g.n
  <2>1. CASE g.n = Head(events).n
    <3>1. [g EXCEPT !.accepted = TRUE] \in goals'
      BY <1>1, <2>1 DEF Goal
    <3>2. g \in GoalRec
      BY DEF GoalInv, Typed
    <3>3. [g EXCEPT !.accepted = TRUE].n = g.n
      BY <3>2, Accepting DEF Marked
    <3> QED
      BY <3>1, <3>3
  <2>2. CASE g.n # Head(events).n
    BY <1>1, <2>2
  <2> QED
    BY <2>1, <2>2
<1> QED
  BY <1>2 DEF Numbers

LEMMA HandleCancelledKeeps ==
    ASSUME GoalInv, HandleCancelled
    PROVE  Numbers(goals) \subseteq Numbers(goals)'
<1>0. PICK G : G = {g \in Goal(Head(events).n) : ~Head(events).ok}
  OBVIOUS
<1>1. goals' = (goals \ G) \cup {[g EXCEPT !.cancelling = FALSE] : g \in G}
  BY <1>0 DEF HandleCancelled
<1>2. ASSUME NEW g \in goals PROVE \E h \in goals' : h.n = g.n
  <2>1. CASE g \in G
    <3>1. [g EXCEPT !.cancelling = FALSE] \in goals'
      BY <1>1, <2>1
    <3>2. g \in GoalRec
      BY DEF GoalInv, Typed
    <3>3. [g EXCEPT !.cancelling = FALSE].n = g.n
      BY <3>2, Cancelling DEF Marked
    <3> QED
      BY <3>1, <3>3
  <2>2. CASE g \notin G
    BY <1>1, <2>2
  <2> QED
    BY <2>1, <2>2
<1> QED
  BY <1>2 DEF Numbers

LEMMA CancelGoalKeeps ==
    ASSUME GoalInv, NEW c, NEW a \in goals, CancelGoal(c, a)
    PROVE  Numbers(goals) \subseteq Numbers(goals)'
<1>1. goals' = (goals \ {a}) \cup {[a EXCEPT !.cancelling = TRUE]}
  BY DEF CancelGoal
<1>2. a \in GoalRec
  BY DEF GoalInv, Typed
<1>3. [a EXCEPT !.cancelling = TRUE].n = a.n
  BY <1>2, Cancelling DEF Marked
<1>4. ASSUME NEW g \in goals PROVE \E h \in goals' : h.n = g.n
  BY <1>1, <1>3
<1> QED
  BY <1>4 DEF Numbers

LEMMA TickSettles ==
    ASSUME GoalInv, Tick, NEW g, Lost(g)
    PROVE  Settled(g)
<1>1. CASE HandleAccepted
  BY <1>1, HandleAcceptedKeeps, NothingLost
<1>2. CASE HandleCancelled
  BY <1>2, HandleCancelledKeeps, NothingLost
<1>3. CASE HandleFinal
  <2> DEFINE G == Goal(Head(events).n)
  <2>1. Finish(G) /\ outputs' = outputs /\ G \subseteq goals
    BY <1>3 DEF HandleFinal, Goal
  <2>2. g \in G
    BY <2>1, FinishEnds DEF Lost
  <2>3. g.owner \in outputs'
    BY <2>1 DEF Lost, GoalInv, Owned
  <2> HIDE DEF G
  <2> QED
    BY <2>1, <2>2, <2>3, FinishTells DEF Settled
<1>4. CASE Reap
  BY <1>4, ReleaseSettles DEF Reap
<1>5. CASE UNCHANGED goals
  BY <1>5, NothingLost DEF Numbers
<1> QED
  BY <1>1, <1>2, <1>3, <1>4, <1>5
     DEF Tick, StartTick, EndPoll, EndEvents, EndTimers, HandleFeedback,
         HandleStale, goalVars

LEMMA NextSettles ==
    ASSUME GoalInv, Next, NEW g, Lost(g), phase' # "broken"
    PROVE  Settled(g)
<1>1. CASE UNCHANGED goals
  BY <1>1, NothingLost DEF Numbers
<1>2. ASSUME NEW c \in Conn, NEW t \in Tag, SendGoal(c, t) PROVE Settled(g)
  BY <1>2, NothingLost DEF SendGoal, Numbers
<1>3. ASSUME NEW c \in Conn, NEW a \in goals, CancelGoal(c, a) PROVE Settled(g)
  BY <1>3, CancelGoalKeeps, NothingLost
<1>4. ASSUME NEW a \in goals, ExpireGoal(a) PROVE Settled(g)
  <2>1. Finish({a}) /\ ~a.accepted
    BY <1>4 DEF ExpireGoal, MayBeOverdue
  <2>2. g = a
    BY <2>1, FinishEnds DEF Lost
  <2> QED
    BY <2>1, <2>2, Zenon DEF Lost
<1>5. ASSUME NEW c \in Conn, Disconnect(c) PROVE Settled(g)
  BY <1>5, ReleaseSettles DEF Disconnect
<1>6. CASE Shutdown
  BY <1>6, ReleaseSettles DEF Shutdown
<1>7. CASE Tick
  BY <1>7, TickSettles
<1>8. ASSUME NEW c \in Conn,
             \/ ClientConnect(c) /\ UNCHANGED goalVars
             \/ OutputCloses(c) /\ UNCHANGED goalVars
             \/ SendGoalFails(c)
             \/ CommandRefused(c)
      PROVE  Settled(g)
  BY <1>1, <1>8 DEF SendGoalFails, CommandRefused, goalVars
<1>9. ASSUME NEW x, NEW ok, TakeResponse(x, ok) \/ TakeFeedback(x, ok)
      PROVE  Settled(g)
  BY <1>1, <1>9 DEF TakeResponse, TakeFeedback
<1>10. CASE WorkerFails
  BY <1>10 DEF WorkerFails
<1> QED
  BY <1>2, <1>3, <1>4, <1>5, <1>6, <1>7, <1>8, <1>9, <1>10 DEF Next

(* The goals that were to be cancelled because their owner left. *)
Left == abandoned \cup stranded

OwnersGone == \A n \in Left' \ Left : asker[n] \notin outputs'

LEMMA ReleaseLeaves ==
    ASSUME GoalInv, NEW D, Release(D)
    PROVE  OwnersGone
<1> DEFINE G == {g \in goals : g.owner \in D}
<1>1. outputs' = outputs \ D /\ Left' = Left \cup ToCancel(G)
  BY ReleaseCancels DEF Left
<1>2. \A n \in ToCancel(G) : asker[n] \in D
  BY DEF ToCancel, Numbers, GoalInv, Owned
<1> QED
  BY <1>1, <1>2 DEF OwnersGone

LEMMA NextLeaves == ASSUME GoalInv, Next PROVE OwnersGone
<1>1. CASE UNCHANGED <<abandoned, stranded>>
  BY <1>1 DEF OwnersGone, Left
<1>2. ASSUME NEW c \in Conn, Disconnect(c) PROVE OwnersGone
  BY <1>2, ReleaseLeaves DEF Disconnect
<1>3. CASE Shutdown
  BY <1>3, ReleaseLeaves DEF Shutdown
<1>4. CASE Tick
  BY <1>1, <1>4, ReleaseLeaves
     DEF Tick, StartTick, EndPoll, EndEvents, EndTimers, Reap, HandleFeedback, HandleStale,
         HandleAccepted, HandleFinal, HandleCancelled, goalVars
<1>5. ASSUME NEW c \in Conn,
             \/ ClientConnect(c) /\ UNCHANGED goalVars
             \/ OutputCloses(c) /\ UNCHANGED goalVars
             \/ \E t \in Tag : SendGoal(c, t)
             \/ SendGoalFails(c)
             \/ \E g \in goals : CancelGoal(c, g)
             \/ CommandRefused(c)
      PROVE  OwnersGone
  BY <1>1, <1>5 DEF SendGoal, SendGoalFails, CancelGoal, CommandRefused, goalVars
<1>6. ASSUME NEW x, NEW ok, TakeResponse(x, ok) \/ TakeFeedback(x, ok) PROVE OwnersGone
  BY <1>1, <1>6 DEF TakeResponse, TakeFeedback
<1>7. ASSUME NEW g, ExpireGoal(g) PROVE OwnersGone
  BY <1>1, <1>7 DEF ExpireGoal
<1>8. CASE WorkerFails
  BY <1>1, <1>8 DEF WorkerFails
<1> QED
  BY <1>2, <1>3, <1>4, <1>5, <1>6, <1>7, <1>8 DEF Next

(* No accepted goal is dropped in silence: unless the worker itself fails, *)
(* a goal disappears only with a result sent to its client or a cancel     *)
(* request made to ROS, whose failure alone leaves it running; and such a  *)
(* request is made only for a client that is gone.  For any number of      *)
(* goals and clients.                                                      *)
THEOREM LeaversAreCancelled == Spec => LeaversCancel
<1> DEFINE A == /\ \A g \in goals :
                      /\ g.accepted
                      /\ Goal(g.n)' = {}
                      /\ phase' # "broken"
                      => g.n \in abandoned' \cup stranded' \/ Contains(log'[g.n], "result")
                /\ \A n \in (abandoned' \cup stranded') \ (abandoned \cup stranded) :
                      asker[n] \notin outputs'
<1>1. ASSUME GoalInv, Next PROVE A
  <2>1. \A g \in goals : Lost(g) /\ phase' # "broken" => Settled(g)
    BY <1>1, NextSettles
  <2>2. OwnersGone
    BY <1>1, NextLeaves
  <2> QED
    BY <2>1, <2>2, Zenon DEF Lost, Settled, OwnersGone, Left
<1>2. GoalInv /\ [Next]_vars => [A]_vars
  BY <1>1
<1> QED
  BY <1>2, GoalInvariance, PTL DEF Spec, LeaversCancel
=============================================================================

--------------------------- MODULE DispatcherProofs ---------------------------
(***************************************************************************)
(* Theorems of Dispatcher, for any feed, shards, hash, queue depth, batch  *)
(* limit, retry budget and number of lives.                                *)
(***************************************************************************)
EXTENDS Dispatcher, TLAPS

\* The three parts of TypeOK: the poller's position in the feed, ...
Numbers ==
    /\ life \in 1..MaxLives /\ cancelled \in BOOLEAN /\ pc \in Stages
    /\ offset \in Nat /\ offset <= Len(Feed) + 1
    /\ first \in Nat /\ 1 <= first /\ first <= Len(Feed) + 1
    /\ last \in Nat /\ last <= Len(Feed)
    /\ cursor \in Nat /\ 1 <= cursor /\ cursor <= Len(Feed) + 1
    /\ acked \in Nat /\ 1 <= acked /\ acked <= Len(Feed) + 1

\* ... the sets of updates, ...
Sets ==
    /\ deferred \subseteq Ids /\ pending \subseteq Ids /\ refused \subseteq Ids
    /\ answered \subseteq Ids /\ returned \subseteq Ids /\ served \subseteq Ids

\* ... and the queues and the workers.
Work ==
    /\ queue \in [Shards -> Seq(Ids)]
    /\ \A s \in Shards : Len(queue[s]) <= shardQueueDepth
    /\ serving \in [Shards -> Ids \cup {0}]
    /\ attempt \in [Shards -> {"none", "try", "sleep", "spent"}]
    /\ retries \in [Shards -> 0..transientAttempts - 1]
    /\ degraded \in BOOLEAN /\ spenders \subseteq Shards

\* Where Dispatch is in its batch, and that what it handed out of one shard
\* is what comes first there.
BatchInv ==
    /\ pc = "submit" => /\ cursor \in first..last
                        /\ pending \cup deferred = first..(cursor - 1)
    /\ pc = "block" => pending \cup deferred = first..last
    /\ pc \in {"submit", "block"} => pending \cap deferred = {} /\ refused = {}
    /\ pc = "collect" /\ ~cancelled => pending = first..last /\ refused = {}
    /\ pc \in {"poll", "backoff"} /\ ~cancelled => pending \subseteq answered
    /\ \A w \in pending, v \in Ids :
           first <= v /\ v < w /\ shardIndex(v) = shardIndex(w) => v \in pending

\* Update u is of shard s, and no worker has reported on it.
Owed(s, u) == u \in pending \ answered /\ shardIndex(u) = s

\* A worker is free exactly when its retry is, and reports what was handed out.
BusyInv ==
    /\ answered \subseteq pending
    /\ \A s \in Shards : serving[s] = 0 <=> attempt[s] = "none"

\* The queues and the workers hold what is owed, and nothing else, ...
OwedInv == \A s \in Shards :
    /\ serving[s] # 0 => Owed(s, serving[s])
    /\ \A i \in 1..Len(queue[s]) : Owed(s, queue[s][i])

\* ... in the order of the feed, ...
OrderInv == \A s \in Shards :
    /\ \A i \in 1..Len(queue[s]) : serving[s] < queue[s][i]
    /\ \A i, j \in 1..Len(queue[s]) : i < j => queue[s][i] < queue[s][j]

\* ... and lose none of it.
Held(s, u) == serving[s] = u \/ \E i \in 1..Len(queue[s]) : queue[s][i] = u
KeptInv == \A u \in pending \ answered : Held(shardIndex(u), u)

\* What the handler has done with the updates that are over.
LedgerInv ==
    /\ answered \subseteq returned /\ served \subseteq returned
    /\ ~cancelled => answered \subseteq served
    /\ \A u \in Ids : u < first \/ u < acked \/ (u < offset /\ ~cancelled) => u \in served

\* The retry budget, and what degraded mode leaves of it.
RetryInv ==
    /\ spenders # {} => degraded
    /\ \A s \in Shards :
           /\ attempt[s] = "none" => retries[s] = 0
           /\ attempt[s] = "sleep" => retries[s] + 1 < transientAttempts
           /\ s \in spenders => attempt[s] # "sleep" /\ retries[s] = 0

Inv == Numbers /\ Sets /\ Work /\ BatchInv /\ LedgerInv /\ RetryInv
       /\ BusyInv /\ OwedInv /\ OrderInv /\ KeptInv

-------------------------------------------------------------------------------
(* What the steps do to the queues and the workers *)

\* The bounds.
LEMMA Constants ==
  /\ Len(Feed) \in Nat
  /\ shardQueueDepth \in Nat /\ 0 < shardQueueDepth
  /\ transientAttempts \in Nat /\ 0 < transientAttempts
  /\ BatchLimit \in Nat /\ MaxLives \in Nat
  /\ 0 \in 0..transientAttempts - 1 /\ 1 \in 1..MaxLives
  BY DispatcherAssumption

\* The ids of the feed, each of a shard.
LEMMA IdsOfFeed ==
  /\ \A u : u \in Ids <=> u \in Nat /\ 1 <= u /\ u <= Len(Feed)
  /\ \A u \in Ids : u \in Nat /\ u # 0 /\ shardIndex(u) \in Shards
  BY Constants, DispatcherAssumption DEF Ids

\* The parts make up TypeOK.
LEMMA TypeParts == TypeOK <=> Numbers /\ Sets /\ Work
<1>1. /\ offset \in 0..Len(Feed) + 1 <=> offset \in Nat /\ offset <= Len(Feed) + 1
      /\ acked \in 1..Len(Feed) + 1 <=> acked \in Nat /\ 1 <= acked /\ acked <= Len(Feed) + 1
  BY Constants, IdsOfFeed
<1>2. \A n : n \in Ids \cup {Len(Feed) + 1} <=> n \in Nat /\ 1 <= n /\ n <= Len(Feed) + 1
  BY Constants, IdsOfFeed
<1>3. \A n : n \in Ids \cup {0} <=> n \in Nat /\ n <= Len(Feed)
  BY Constants, IdsOfFeed
<1>4. QED
  BY <1>1, <1>2, <1>3 DEF TypeOK, Numbers, Sets, Work

\* The first update Telegram answers is no earlier than it or the poller knows.
LEMMA FromIsLatest ==
  ASSUME Numbers
  PROVE  /\ Max2(acked, offset) \in Nat /\ 1 <= Max2(acked, offset)
         /\ Max2(acked, offset) <= Len(Feed) + 1
         /\ Max2(acked, offset) \in {acked, offset}
  BY Constants DEF Max2, Numbers

\* A hand-over puts the update at the end of its shard's queue.
LEMMA HandEffect ==
  ASSUME Work, NEW u \in Ids, HasRoom(shardIndex(u)), Hand(u)
  PROVE  /\ pending' = pending \cup {u} /\ queue' \in [Shards -> Seq(Ids)]
         /\ \A t \in Shards :
               /\ Len(queue'[t]) <= shardQueueDepth
               /\ \A i \in 1..Len(queue[t]) :
                     i \in 1..Len(queue'[t]) /\ queue'[t][i] = queue[t][i]
               /\ \A i \in 1..Len(queue'[t]) :
                     \/ i \in 1..Len(queue[t]) /\ queue'[t][i] = queue[t][i]
                     \/ /\ t = shardIndex(u) /\ queue'[t][i] = u
                        /\ i = Len(queue[t]) + 1
         /\ \E i \in 1..Len(queue'[shardIndex(u)]) : queue'[shardIndex(u)][i] = u
<1> DEFINE s == shardIndex(u)
           n == Len(queue[s])
<1>1. s \in Shards /\ queue[s] \in Seq(Ids) /\ queue \in [Shards -> Seq(Ids)]
  BY IdsOfFeed DEF Work
<1>2. queue' = [queue EXCEPT ![s] = Append(queue[s], u)] /\ pending' = pending \cup {u}
  BY DEF Hand
<1>3. n + 1 <= shardQueueDepth /\ n \in Nat
  BY <1>1, Constants DEF HasRoom
<1>4. /\ queue'[s] \in Seq(Ids) /\ Len(queue'[s]) = n + 1
      /\ \A i \in 1..n : queue'[s][i] = queue[s][i]
      /\ queue'[s][n + 1] = u
  BY <1>1, <1>2
<1>5. \A t \in Shards : t # s => queue'[t] = queue[t]
  BY <1>1, <1>2
<1>6. \A i \in 1..(n + 1) : i \in 1..n \/ i = n + 1
  BY <1>3
<1>7. queue' \in [Shards -> Seq(Ids)]
  BY <1>1, <1>2
<1> HIDE DEF s
<1>8. \A i \in 1..n : i \in 1..(n + 1)
  BY <1>3
<1>9. n + 1 \in 1..(n + 1)
  BY <1>3
<1>10. \A t \in Shards : Len(queue'[t]) <= shardQueueDepth
  BY <1>3, <1>4, <1>5 DEF Work
<1> HIDE DEF n
<1>11. ASSUME NEW t \in Shards
       PROVE  /\ \A i \in 1..Len(queue[t]) :
                    i \in 1..Len(queue'[t]) /\ queue'[t][i] = queue[t][i]
              /\ \A i \in 1..Len(queue'[t]) :
                    \/ i \in 1..Len(queue[t]) /\ queue'[t][i] = queue[t][i]
                    \/ t = s /\ queue'[t][i] = u /\ i = Len(queue[t]) + 1
  <2>1. CASE t = s
    BY <2>1, <1>4, <1>6, <1>8 DEF n
  <2>2. CASE t # s
    BY <2>2, <1>5
  <2>3. QED
    BY <2>1, <2>2
<1>12. QED
  BY <1>1, <1>2, <1>4, <1>7, <1>9, <1>10, <1>11 DEF s

\* A worker takes the first update of its queue.
LEMMA TakeEffect ==
  ASSUME Work, NEW s \in Shards, Take(s)
  PROVE  /\ 1 \in 1..Len(queue[s]) /\ queue[s][1] \in Ids
         /\ serving[s] = 0 /\ serving' = [serving EXCEPT ![s] = queue[s][1]]
         /\ queue' \in [Shards -> Seq(Ids)]
         /\ \A t \in Shards : t # s => queue'[t] = queue[t]
         /\ Len(queue'[s]) <= Len(queue[s])
         /\ \A i \in 1..Len(queue'[s]) :
               i + 1 \in 1..Len(queue[s]) /\ queue'[s][i] = queue[s][i + 1]
         /\ \A i \in 1..Len(queue[s]) : i # 1 =>
               i - 1 \in 1..Len(queue'[s]) /\ queue'[s][i - 1] = queue[s][i]
<1> DEFINE n == Len(queue[s])
<1>1. queue[s] \in Seq(Ids) /\ queue \in [Shards -> Seq(Ids)] /\ queue[s] # <<>>
  BY DEF Work, Take
<1>2. /\ queue' = [queue EXCEPT ![s] = Tail(queue[s])]
      /\ serving[s] = 0 /\ serving' = [serving EXCEPT ![s] = Head(queue[s])]
  BY DEF Take
<1>3. n \in Nat /\ n > 0 /\ Head(queue[s]) = queue[s][1]
      /\ queue[s][1] \in Ids /\ Tail(queue[s]) \in Seq(Ids)
      /\ Len(Tail(queue[s])) = n - 1
      /\ \A i \in 1..(n - 1) : Tail(queue[s])[i] = queue[s][i + 1]
  BY <1>1
<1>4. queue'[s] = Tail(queue[s]) /\ \A t \in Shards : t # s => queue'[t] = queue[t]
  BY <1>1, <1>2
<1>5. queue' \in [Shards -> Seq(Ids)]
  BY <1>1, <1>2, <1>3
<1> HIDE DEF n
<1>6. /\ \A i \in 1..(n - 1) : i + 1 \in 1..n
      /\ \A i \in 1..n : i # 1 => i - 1 \in 1..(n - 1) /\ (i - 1) + 1 = i
      /\ 1 \in 1..n /\ n - 1 <= n
  BY <1>3
<1>7. QED
  BY <1>2, <1>3, <1>4, <1>5, <1>6 DEF n

\* The ways a worker reports an update: after an attempt, or out of a wait.
Reports(s) ==
    AttemptSucceeds(s) \/ AttemptFails(s) \/ SleepCancelled(s) \/ EnterDegraded(s)

\* The worker reports the update it was on and is free again.
LEMMA ReportEffect ==
  ASSUME Work, BusyInv, OwedInv, NEW s \in Shards, Reports(s)
  PROVE  /\ serving[s] \in Ids /\ Owed(s, serving[s])
         /\ answered' = answered \cup {serving[s]} /\ returned' = returned \cup {serving[s]}
         /\ served' = served \cup {serving[s]} \/ (cancelled /\ served' = served)
         /\ serving' = [serving EXCEPT ![s] = 0] /\ attempt' = [attempt EXCEPT ![s] = "none"]
         /\ retries' = [retries EXCEPT ![s] = 0]
         /\ UNCHANGED <<life, cancelled, pc, offset, batchVars, queue, acked>>
<1>1. attempt[s] # "none" /\ Serve(s)
  BY DEF Reports, AttemptSucceeds, AttemptFails, SleepCancelled, EnterDegraded
<1>2. serving[s] # 0
  BY <1>1 DEF BusyInv
<1>3. serving[s] \in Ids /\ Owed(s, serving[s])
  BY <1>2 DEF OwedInv, Work
<1>4. QED
  BY <1>1, <1>3 DEF Serve

\* A new process starts with nothing in hand; Telegram's side stays.
LEMMA FreshEffect ==
  ASSUME Numbers, Crash \/ Restart
  PROVE  /\ UNCHANGED <<acked, returned, served>>
         /\ life' \in 1..MaxLives /\ pc' \in {"exited", "poll"} /\ cancelled' = FALSE
         /\ offset' = 0 /\ first' = 1 /\ last' = 0 /\ cursor' = 1
         /\ deferred' = {} /\ pending' = {} /\ refused' = {} /\ answered' = {}
         /\ queue' \in [Shards -> Seq(Ids)] /\ \A s \in Shards : Len(queue'[s]) = 0
         /\ serving' = [s \in Shards |-> 0] /\ attempt' = [s \in Shards |-> "none"]
         /\ retries' = [s \in Shards |-> 0] /\ degraded' = FALSE /\ spenders' = {}
<1>1. Fresh
  BY DEF Crash, Restart
<1>2. /\ UNCHANGED <<acked, returned, served>>
      /\ life' \in 1..MaxLives /\ pc' \in {"exited", "poll"}
  BY Constants DEF Numbers, Crash, Restart
<1>3. queue' = [s \in Shards |-> <<>>]
  BY <1>1 DEF Fresh
<1>4. queue' \in [Shards -> Seq(Ids)] /\ \A s \in Shards : Len(queue'[s]) = 0
  BY <1>3
<1>5. QED
  BY <1>1, <1>2, <1>4 DEF Fresh

-------------------------------------------------------------------------------
(* The invariant *)

\* The first process starts with nothing in hand.
LEMMA InvInit == Init => Inv
<1> SUFFICES ASSUME Init PROVE Inv
  OBVIOUS
<1>1. \A s \in Shards : queue[s] = <<>> /\ Len(queue[s]) = 0 /\ queue[s] \in Seq(Ids)
  BY DEF Init
<1>2. Numbers /\ Sets
  <2>1. Numbers
    <3>1. /\ life = 1 /\ cancelled = FALSE /\ pc = "poll" /\ offset = 0
          /\ first = 1 /\ last = 0 /\ cursor = 1 /\ acked = 1
      BY DEF Init
    <3>2. life \in 1..MaxLives /\ cancelled \in BOOLEAN /\ pc \in Stages
      BY <3>1, Constants DEF Stages
    <3>3. QED
      BY <3>1, <3>2, Constants DEF Numbers
  <2>2. Sets
    BY DEF Init, Sets
  <2>3. QED
    BY <2>1, <2>2
<1>3. Work
  <2>1. retries \in [Shards -> 0..transientAttempts - 1]
    BY Constants DEF Init
  <2>2. queue \in [Shards -> Seq(Ids)]
    BY DEF Init
  <2>3. \A s \in Shards : Len(queue[s]) <= shardQueueDepth
    BY <1>1, Constants
  <2>4. QED
    BY <1>1, <2>1, <2>2, <2>3 DEF Init, Work
<1>4. BatchInv /\ RetryInv
  BY DEF Init, BatchInv, RetryInv
<1>5. BusyInv /\ OwedInv /\ OrderInv /\ KeptInv
  BY <1>1 DEF Init, BusyInv, OwedInv, OrderInv, KeptInv
<1>6. LedgerInv
  BY IdsOfFeed DEF Init, LedgerInv
<1>7. QED
  BY <1>2, <1>3, <1>4, <1>5, <1>6 DEF Inv

\* The position in the feed stays within it.
LEMMA NumbersStep == Inv /\ [Next]_vars => Numbers'
<1> SUFFICES ASSUME Numbers, Sets, Work, BatchInv, BusyInv, OwedInv, [Next]_vars PROVE Numbers'
  BY DEF Inv
<1> USE Constants, IdsOfFeed DEF Numbers, Stages
<1>1. CASE UNCHANGED <<life, cancelled, pc, offset, first, last, cursor, acked>>
  BY <1>1
<1>2. ASSUME NEW n \in 0..BatchLimit, GetUpdates(n) PROVE Numbers'
  BY <1>2, FromIsLatest DEF GetUpdates, Acknowledge
<1>3. CASE GetUpdatesFails
  BY <1>3, FromIsLatest DEF GetUpdatesFails, Acknowledge, batchVars
<1>4. CASE SubmitNow \/ Defer
  <2>1. cursor <= last
    BY <1>4 DEF SubmitNow, Defer, BatchInv
  <2>2. QED
    BY <1>4, <2>1 DEF SubmitNow, Defer, Advance
<1>5. CASE AdvanceOffset
  <2>1. offset' \in Nat /\ offset' <= Len(Feed) + 1
    BY <1>5 DEF AdvanceOffset
  <2>2. QED
    BY <1>5, <2>1 DEF AdvanceOffset, batchVars
<1>6. CASE \/ AbortSubmit \/ (\E u \in Ids : SubmitDeferred(u)) \/ AbortDeferred \/ Submitted
           \/ Wait \/ RunReturns \/ Stop \/ Cancel
  BY <1>6 DEF AbortSubmit, SubmitDeferred, AbortDeferred, Submitted, Wait, RunReturns, Stop,
              Cancel, batchVars
<1>7. ASSUME NEW s \in Shards, Reports(s) PROVE Numbers'
  BY <1>1, <1>7, ReportEffect DEF batchVars
<1>8. CASE Crash \/ Restart
  <2>1. /\ life' \in 1..MaxLives /\ pc' \in {"exited", "poll"} /\ cancelled' = FALSE
        /\ offset' = 0 /\ first' = 1 /\ last' = 0 /\ cursor' = 1 /\ acked' = acked
    BY <1>8, FreshEffect
  <2>2. pc' \in Stages /\ cancelled' \in BOOLEAN
    BY <2>1
  <2>3. QED
    BY <2>1, <2>2
<1>9. QED
  BY <1>1, <1>2, <1>3, <1>4, <1>5, <1>6, <1>7, <1>8
  DEF Next, Poller, Worker, Reports, vars, batchVars, Take, AttemptFailsTransiently, SleepEnds,
      CooldownElapses

\* Only updates of the feed are handed out, refused or reported.
LEMMA SetsStep == Inv /\ [Next]_vars => Sets'
<1> SUFFICES ASSUME Numbers, Sets, Work, BatchInv, BusyInv, OwedInv, [Next]_vars PROVE Sets'
  BY DEF Inv
<1> USE DEF Sets
<1>1. CASE UNCHANGED <<deferred, pending, refused, answered, returned, served>>
  BY <1>1
<1>2. ASSUME NEW n \in 0..BatchLimit, GetUpdates(n) PROVE Sets'
  BY <1>2 DEF GetUpdates
<1>3. CASE SubmitNow \/ Defer
  <2>1. cursor \in Ids
    BY <1>3, Constants, IdsOfFeed DEF SubmitNow, Defer, BatchInv, Numbers
  <2>2. QED
    BY <1>3, <2>1 DEF SubmitNow, Defer, Hand, workVars
<1>4. CASE AbortSubmit
  <2>1. cursor..last \subseteq Ids
    BY Constants, IdsOfFeed DEF Numbers
  <2>2. QED
    BY <1>4, <2>1 DEF AbortSubmit, workVars
<1>5. ASSUME NEW u \in Ids, SubmitDeferred(u) PROVE Sets'
  BY <1>5 DEF SubmitDeferred, Hand
<1>6. CASE AbortDeferred
  BY <1>6 DEF AbortDeferred, workVars
<1>7. ASSUME NEW s \in Shards, Reports(s) PROVE Sets'
  BY <1>7, ReportEffect DEF batchVars
<1>8. CASE Crash \/ Restart
  BY <1>8, FreshEffect
<1>9. QED
  BY <1>1, <1>2, <1>3, <1>4, <1>5, <1>6, <1>7, <1>8
  DEF Next, Poller, Worker, Reports, vars, batchVars, workVars, GetUpdatesFails, Wait,
      RunReturns, Submitted, AdvanceOffset, Stop, Take, AttemptFailsTransiently, SleepEnds,
      CooldownElapses, Cancel

\* The queues keep within their depth, and the retries within their budget.
LEMMA WorkStep == Inv /\ [Next]_vars => Work'
<1> SUFFICES ASSUME Numbers, Sets, Work, BatchInv, RetryInv, BusyInv, OwedInv, [Next]_vars
             PROVE  Work'
  BY DEF Inv
<1>1. CASE UNCHANGED <<queue, serving, retryVars>>
  BY <1>1 DEF Work, retryVars
<1>2. ASSUME NEW u \in Ids, HasRoom(shardIndex(u)), Hand(u), UNCHANGED <<serving, retryVars>>
      PROVE  Work'
  BY <1>2, HandEffect DEF Work, retryVars
<1>3. CASE SubmitNow
  <2>1. cursor \in Ids
    BY <1>3, Constants, IdsOfFeed DEF SubmitNow, BatchInv, Numbers
  <2>2. QED
    BY <1>2, <1>3, <2>1 DEF SubmitNow
<1>4. ASSUME NEW s \in Shards, Take(s) PROVE Work'
  <2>1. \A t \in Shards : Len(queue'[t]) <= shardQueueDepth
    <3>1. /\ \A t \in Shards : Len(queue[t]) <= shardQueueDepth /\ Len(queue[t]) \in Nat
          /\ \A t \in Shards : Len(queue'[t]) \in Nat
      BY <1>4, TakeEffect DEF Work
    <3>2. \A t \in Shards : Len(queue'[t]) <= Len(queue[t])
      BY <1>4, <3>1, TakeEffect
    <3>3. QED
      BY <3>1, <3>2, Constants
  <2>2. queue' \in [Shards -> Seq(Ids)] /\ serving' \in [Shards -> Ids \cup {0}]
    BY <1>4, TakeEffect DEF Work
  <2>3. attempt' \in [Shards -> {"none", "try", "sleep", "spent"}]
    BY <1>4 DEF Take, Work
  <2>4. QED
    BY <1>4, <2>1, <2>2, <2>3 DEF Take, Work
<1>5. ASSUME NEW s \in Shards, Reports(s) PROVE Work'
  <2>1. degraded' \in BOOLEAN /\ spenders' \subseteq Shards
    BY <1>5 DEF Reports, AttemptSucceeds, AttemptFails, SleepCancelled, EnterDegraded, Work
  <2>2. /\ serving' \in [Shards -> Ids \cup {0}] /\ queue' = queue
        /\ attempt' \in [Shards -> {"none", "try", "sleep", "spent"}]
    BY <1>5, ReportEffect DEF Work
  <2>3. retries' \in [Shards -> 0..transientAttempts - 1]
    <3>1. retries' = [retries EXCEPT ![s] = 0]
      BY <1>5, ReportEffect
    <3>2. QED
      BY <3>1, Constants DEF Work
  <2>4. QED
    BY <2>1, <2>2, <2>3 DEF Work
<1>6. ASSUME NEW s \in Shards, AttemptFailsTransiently(s) PROVE Work'
  <2>1. attempt' \in [Shards -> {"none", "try", "sleep", "spent"}]
    BY <1>6 DEF AttemptFailsTransiently, Work
  <2>2. QED
    BY <1>6, <2>1 DEF AttemptFailsTransiently, Work
<1>7. ASSUME NEW s \in Shards, SleepEnds(s) PROVE Work'
  <2>1. retries[s] + 1 \in 0..transientAttempts - 1
    BY <1>7, Constants DEF SleepEnds, RetryInv, Work
  <2>2. /\ retries' \in [Shards -> 0..transientAttempts - 1]
        /\ attempt' \in [Shards -> {"none", "try", "sleep", "spent"}]
    BY <1>7, <2>1 DEF SleepEnds, Work
  <2>3. QED
    BY <1>7, <2>2 DEF SleepEnds, Work
<1>8. CASE CooldownElapses
  BY <1>8 DEF CooldownElapses, Work
<1>9. CASE Crash \/ Restart
  <2>1. \A s \in Shards : Len(queue'[s]) <= shardQueueDepth
    <3>1. \A s \in Shards : Len(queue'[s]) = 0
      BY <1>9, FreshEffect
    <3>2. QED
      BY <3>1, Constants
  <2>2. retries' \in [Shards -> 0..transientAttempts - 1]
    <3>1. retries' = [s \in Shards |-> 0]
      BY <1>9, FreshEffect
    <3>2. QED
      BY <3>1, Constants
  <2>3. QED
    BY <1>9, <2>1, <2>2, FreshEffect DEF Work
<1>10. QED
  BY <1>1, <1>2, <1>3, <1>4, <1>5, <1>6, <1>7, <1>8, <1>9
  DEF Next, Poller, Worker, Reports, vars, workVars, GetUpdates, GetUpdatesFails, Wait,
      RunReturns, Defer, AbortSubmit, SubmitDeferred, AbortDeferred, Submitted,
      AdvanceOffset, Stop, Cancel

\* What was handed out of a shard stays what comes first there.
LEMMA BatchStep == Inv /\ [Next]_vars => BatchInv'
<1> SUFFICES ASSUME Inv, [Next]_vars PROVE BatchInv'
  OBVIOUS
<1> USE Constants, IdsOfFeed DEF Inv, Numbers, Sets, BatchInv
<1>1. CASE UNCHANGED <<cancelled, pc, batchVars>> /\ answered \subseteq answered'
  BY <1>1 DEF batchVars
<1>2. ASSUME NEW n \in 0..BatchLimit, GetUpdates(n) PROVE BatchInv'
  BY <1>2, FromIsLatest DEF GetUpdates
<1>3. CASE SubmitNow
  <2>1. cursor \in Ids /\ cursor \notin pending \cup deferred
    BY <1>3 DEF SubmitNow
  <2>2. pending' = pending \cup {cursor} /\ deferred' = deferred
    BY <1>3 DEF SubmitNow, Hand
  <2>3. ASSUME NEW v \in Ids, first <= v, v < cursor, shardIndex(v) = shardIndex(cursor)
        PROVE  v \in pending
    BY <1>3, <2>3 DEF SubmitNow, DeferredShards
  <2>4. pending' \cup deferred' = first..cursor
    BY <1>3, <2>1, <2>2 DEF SubmitNow
  <2>5. \A w \in pending', v \in Ids :
           first <= v /\ v < w /\ shardIndex(v) = shardIndex(w) => v \in pending'
    BY <2>2, <2>3
  <2>6. QED
    BY <1>3, <2>1, <2>2, <2>4, <2>5 DEF SubmitNow, Advance
<1>4. CASE Defer
  BY <1>4 DEF Defer, Advance
<1>5. ASSUME NEW u \in Ids, SubmitDeferred(u) PROVE BatchInv'
  <2>1. pending' = pending \cup {u} /\ deferred' = deferred \ {u} /\ u \in deferred
    BY <1>5 DEF SubmitDeferred, Hand, NextDeferred
  <2>2. ASSUME NEW v \in Ids, first <= v, v < u PROVE v \in pending
    BY <1>5, <2>2 DEF SubmitDeferred, NextDeferred
  <2>3. QED
    BY <1>5, <2>1, <2>2 DEF SubmitDeferred
<1>6. CASE \/ GetUpdatesFails \/ Wait \/ RunReturns \/ AbortSubmit \/ AbortDeferred
           \/ Submitted \/ AdvanceOffset \/ Stop \/ Cancel
  BY <1>6 DEF GetUpdatesFails, Wait, RunReturns, AbortSubmit, AbortDeferred, Submitted,
              AdvanceOffset, Collected, Stop, Cancel, batchVars, workVars
<1>7. ASSUME NEW s \in Shards, Reports(s) PROVE BatchInv'
  BY <1>1, <1>7, ReportEffect
<1>8. CASE Crash \/ Restart
  BY <1>8, FreshEffect
<1>9. QED
  BY <1>1, <1>2, <1>3, <1>4, <1>5, <1>6, <1>7, <1>8
  DEF Next, Poller, Worker, Reports, vars, workVars, Take, AttemptFailsTransiently, SleepEnds,
      CooldownElapses

\* What is handed over was not handed before, and belongs to the batch.
LEMMA HandsSomethingNew ==
  ASSUME Numbers, Sets, BatchInv, BusyInv
  PROVE  /\ SubmitNow => /\ cursor \in Ids /\ HasRoom(shardIndex(cursor)) /\ Hand(cursor)
                         /\ cursor \notin pending /\ cursor \notin answered /\ first <= cursor
                         /\ UNCHANGED <<answered, serving, retryVars>>
         /\ \A u \in Ids : SubmitDeferred(u) =>
                         /\ HasRoom(shardIndex(u)) /\ Hand(u)
                         /\ u \notin pending /\ u \notin answered /\ first <= u
                         /\ UNCHANGED <<answered, serving, retryVars>>
<1>1. ASSUME SubmitNow
      PROVE  cursor \in Ids /\ cursor \notin pending /\ first <= cursor
  BY <1>1, Constants, IdsOfFeed DEF SubmitNow, BatchInv, Numbers
<1>2. ASSUME NEW u \in Ids, SubmitDeferred(u)
      PROVE  u \notin pending /\ first <= u
  BY <1>2, Constants, IdsOfFeed DEF SubmitDeferred, NextDeferred, BatchInv, Numbers
<1>3. QED
  BY <1>1, <1>2 DEF SubmitNow, SubmitDeferred, BusyInv

\* A batch is asked for only when no worker and no queue holds anything.
LEMMA PollsWhenIdle ==
  ASSUME Work, BatchInv, OwedInv, NEW n, GetUpdates(n)
  PROVE  /\ \A s \in Shards : serving[s] = 0 /\ 1..Len(queue[s]) = {}
         /\ pending' = {} /\ answered' = {} /\ UNCHANGED <<queue, serving, attempt>>
<1>1. pending \subseteq answered
  BY DEF GetUpdates, ContextLive, BatchInv
<1>2. \A s \in Shards : serving[s] = 0 /\ 1..Len(queue[s]) = {}
  BY <1>1 DEF OwedInv, Owed
<1>3. QED
  BY <1>2 DEF GetUpdates, retryVars

\* A worker has an update exactly while its retry is at one.
LEMMA BusyStep == Inv /\ [Next]_vars => BusyInv'
<1> SUFFICES ASSUME Numbers, Sets, Work, BatchInv, BusyInv, OwedInv, [Next]_vars
             PROVE  BusyInv'
  BY DEF Inv
<1> USE DEF BusyInv
<1>1. CASE UNCHANGED <<pending, answered, serving, attempt>>
  BY <1>1
<1>2. CASE SubmitNow \/ (\E u \in Ids : SubmitDeferred(u))
  BY <1>2, HandsSomethingNew DEF Hand, retryVars
<1>3. ASSUME NEW n \in 0..BatchLimit, GetUpdates(n) PROVE BusyInv'
  BY <1>3, PollsWhenIdle
<1>4. ASSUME NEW s \in Shards, Take(s) PROVE BusyInv'
  <2>1. /\ serving'[s] # 0 /\ attempt'[s] = "try"
        /\ \A t \in Shards : t # s => serving'[t] = serving[t] /\ attempt'[t] = attempt[t]
    BY <1>4, TakeEffect, IdsOfFeed DEF Take, Work
  <2>2. QED
    BY <1>4, <2>1 DEF Take, batchVars
<1>5. ASSUME NEW s \in Shards, Reports(s) PROVE BusyInv'
  <2>1. /\ serving'[s] = 0 /\ attempt'[s] = "none"
        /\ \A t \in Shards : t # s => serving'[t] = serving[t] /\ attempt'[t] = attempt[t]
    BY <1>5, ReportEffect DEF Work
  <2>2. answered' \subseteq pending'
    BY <1>5, ReportEffect DEF batchVars, Owed
  <2>3. QED
    BY <2>1, <2>2
<1>6. ASSUME NEW s \in Shards, AttemptFailsTransiently(s) \/ SleepEnds(s) PROVE BusyInv'
  <2>1. /\ attempt[s] # "none" /\ attempt'[s] # "none"
        /\ \A t \in Shards : t # s => attempt'[t] = attempt[t]
    BY <1>6 DEF AttemptFailsTransiently, SleepEnds, Work
  <2>2. QED
    BY <1>6, <2>1 DEF AttemptFailsTransiently, SleepEnds, batchVars
<1>7. CASE Crash \/ Restart
  BY <1>7, FreshEffect
<1>8. QED
  BY <1>1, <1>2, <1>3, <1>4, <1>5, <1>6, <1>7
  DEF Next, Poller, Worker, Reports, vars, batchVars, workVars, retryVars, GetUpdatesFails,
      Wait, RunReturns, Defer, AbortSubmit, AbortDeferred, Submitted, AdvanceOffset, Stop,
      CooldownElapses, Cancel

\* Update u is owed after the step.
StillOwed(s, u) == u \in pending' \ answered' /\ shardIndex(u) = s

\* Nothing but what is owed gets into a queue or to a worker.
LEMMA OwedStep == Inv /\ [Next]_vars => OwedInv'
<1> SUFFICES ASSUME Numbers, Sets, Work, BatchInv, BusyInv, OwedInv, OrderInv, [Next]_vars
             PROVE  OwedInv'
  BY DEF Inv
<1>1. CASE UNCHANGED <<pending, answered, queue, serving>>
  BY <1>1 DEF OwedInv, Owed
<1>2. ASSUME NEW u \in Ids, HasRoom(shardIndex(u)), Hand(u), u \notin answered,
             UNCHANGED <<answered, serving>>
      PROVE  OwedInv'
  <2>1. \A s \in Shards, v \in Ids : Owed(s, v) => StillOwed(s, v)
    BY <1>2, HandEffect DEF Owed, StillOwed
  <2>2. StillOwed(shardIndex(u), u)
    BY <1>2, HandEffect DEF Owed, StillOwed
  <2>3. ASSUME NEW s \in Shards, serving'[s] # 0 PROVE StillOwed(s, serving'[s])
    BY <1>2, <2>1, <2>3 DEF OwedInv, Work
  <2>4. ASSUME NEW s \in Shards, NEW i \in 1..Len(queue'[s]) PROVE StillOwed(s, queue'[s][i])
    <3>1. CASE i \in 1..Len(queue[s]) /\ queue'[s][i] = queue[s][i]
      BY <3>1, <2>1 DEF OwedInv, Work
    <3>2. CASE s = shardIndex(u) /\ queue'[s][i] = u
      BY <3>2, <2>2
    <3>3. QED
      BY <1>2, <3>1, <3>2, HandEffect
  <2>5. QED
    BY <2>3, <2>4 DEF OwedInv, Owed, StillOwed
<1>3. CASE SubmitNow \/ (\E u \in Ids : SubmitDeferred(u))
  BY <1>2, <1>3, HandsSomethingNew
<1>4. ASSUME NEW n \in 0..BatchLimit, GetUpdates(n) PROVE OwedInv'
  BY <1>4, PollsWhenIdle DEF OwedInv
<1>5. ASSUME NEW s \in Shards, Take(s) PROVE OwedInv'
  <2>1. \A t \in Shards : \A v : StillOwed(t, v) <=> Owed(t, v)
    BY <1>5 DEF Take, batchVars, Owed, StillOwed
  <2>2. ASSUME NEW t \in Shards, serving'[t] # 0 PROVE StillOwed(t, serving'[t])
    <3>1. CASE t = s
      <4>1. serving'[s] = queue[s][1] /\ 1 \in 1..Len(queue[s])
        BY <1>5, TakeEffect DEF Work
      <4>2. Owed(s, queue[s][1])
        BY <4>1 DEF OwedInv
      <4>3. QED
        BY <2>1, <3>1, <4>1, <4>2
    <3>2. CASE t # s
      BY <1>5, <2>1, <2>2, <3>2, TakeEffect DEF OwedInv, Work
    <3>3. QED
      BY <3>1, <3>2
  <2>3. ASSUME NEW t \in Shards, NEW i \in 1..Len(queue'[t]) PROVE StillOwed(t, queue'[t][i])
    BY <1>5, <2>1, TakeEffect DEF OwedInv
  <2>4. QED
    BY <2>2, <2>3 DEF OwedInv, Owed, StillOwed
<1>6. ASSUME NEW s \in Shards, Reports(s) PROVE OwedInv'
  <2>1. /\ Owed(s, serving[s]) /\ serving[s] \in Ids /\ answered' = answered \cup {serving[s]}
        /\ serving' = [serving EXCEPT ![s] = 0] /\ UNCHANGED <<pending, queue>>
    BY <1>6, ReportEffect DEF batchVars
  <2>2. \A t \in Shards : \A v : Owed(t, v) /\ v # serving[s] => StillOwed(t, v)
    BY <2>1 DEF Owed, StillOwed
  <2>3. ASSUME NEW t \in Shards, serving'[t] # 0 PROVE StillOwed(t, serving'[t])
    <3>1. t # s /\ serving'[t] = serving[t]
      BY <2>1, <2>3 DEF Work
    <3>2. Owed(t, serving[t]) /\ serving[t] # serving[s]
      BY <2>1, <2>3, <3>1 DEF OwedInv, Owed
    <3>3. QED
      BY <2>2, <3>1, <3>2
  <2>4. ASSUME NEW t \in Shards, NEW i \in 1..Len(queue'[t]) PROVE StillOwed(t, queue'[t][i])
    <3>1. queue'[t] = queue[t] /\ Owed(t, queue[t][i]) /\ queue[t][i] \in Ids
      BY <2>1, <2>4 DEF OwedInv, Work
    <3>2. CASE t = s
      <4>1. serving[s] < queue[t][i]
        BY <3>1, <3>2, <2>4 DEF OrderInv
      <4>2. queue[t][i] # serving[s]
        BY <2>1, <3>1, <4>1, IdsOfFeed
      <4>3. QED
        BY <2>2, <3>1, <4>2
    <3>3. CASE t # s
      BY <2>1, <2>2, <3>1, <3>3 DEF Owed, StillOwed
    <3>4. QED
      BY <3>2, <3>3
  <2>5. QED
    BY <2>3, <2>4 DEF OwedInv, Owed, StillOwed
<1>7. CASE Crash \/ Restart
  <2>1. \A s \in Shards : serving'[s] = 0 /\ Len(queue'[s]) = 0
    BY <1>7, FreshEffect
  <2>2. QED
    BY <2>1 DEF OwedInv
<1>8. QED
  BY <1>1, <1>3, <1>4, <1>5, <1>6, <1>7
  DEF Next, Poller, Worker, Reports, vars, batchVars, workVars, retryVars, GetUpdatesFails,
      Wait, RunReturns, Defer, AbortSubmit, AbortDeferred, Submitted, AdvanceOffset, Stop,
      AttemptFailsTransiently, SleepEnds, CooldownElapses, Cancel

\* A queue grows at the end by what comes later, and shrinks at the front.
LEMMA OrderStep == Inv /\ [Next]_vars => OrderInv'
<1> SUFFICES ASSUME Numbers, Sets, Work, BatchInv, BusyInv, OwedInv, OrderInv, [Next]_vars
             PROVE  OrderInv'
  BY DEF Inv
<1>1. CASE UNCHANGED <<queue, serving>>
  BY <1>1 DEF OrderInv
<1>2. ASSUME NEW u \in Ids, HasRoom(shardIndex(u)), Hand(u), u \notin pending, first <= u,
             UNCHANGED serving
      PROVE  OrderInv'
  <2> DEFINE s == shardIndex(u)
  <2>1. \A v \in Ids : Owed(s, v) => v < u
    BY <1>2, IdsOfFeed DEF Owed, BatchInv
  <2>2. /\ \A i \in 1..Len(queue[s]) : queue[s][i] < u
        /\ serving[s] < u
    <3>1. /\ s \in Shards /\ u \in Nat /\ 0 < u
          /\ queue[s] \in Seq(Ids) /\ serving[s] \in Ids \cup {0}
      BY IdsOfFeed DEF Work
    <3> HIDE DEF s
    <3>2. serving[s] < u
      <4>1. CASE serving[s] = 0
        BY <3>1, <4>1
      <4>2. CASE serving[s] # 0
        BY <2>1, <3>1, <4>2 DEF OwedInv
      <4>3. QED
        BY <4>1, <4>2
    <3>3. ASSUME NEW i \in 1..Len(queue[s]) PROVE queue[s][i] < u
      <4>1. Owed(s, queue[s][i]) /\ queue[s][i] \in Ids
        BY <3>1 DEF OwedInv
      <4>2. QED
        BY <2>1, <4>1
    <3>4. QED
      BY <3>2, <3>3
  <2>3. ASSUME NEW t \in Shards, NEW i \in 1..Len(queue'[t]) PROVE serving'[t] < queue'[t][i]
    BY <1>2, <2>2, HandEffect DEF OrderInv
  <2>4. ASSUME NEW t \in Shards, NEW i \in 1..Len(queue'[t]), NEW j \in 1..Len(queue'[t]),
               i < j
        PROVE  queue'[t][i] < queue'[t][j]
    <3>1. CASE j \in 1..Len(queue[t]) /\ queue'[t][j] = queue[t][j]
      <4>1. i \in 1..Len(queue[t]) /\ queue'[t][i] = queue[t][i]
        BY <1>2, <2>4, <3>1, HandEffect
      <4>2. QED
        BY <2>4, <3>1, <4>1 DEF OrderInv
    <3>2. CASE t = s /\ queue'[t][j] = u /\ j = Len(queue[t]) + 1
      <4>1. i \in 1..Len(queue[t]) /\ queue'[t][i] = queue[t][i]
        BY <1>2, <2>4, <3>2, HandEffect
      <4>2. QED
        BY <2>2, <3>2, <4>1
    <3>3. QED
      BY <1>2, <3>1, <3>2, HandEffect
  <2>5. QED
    BY <2>3, <2>4 DEF OrderInv
<1>3. CASE SubmitNow \/ (\E u \in Ids : SubmitDeferred(u))
  BY <1>2, <1>3, HandsSomethingNew
<1>4. ASSUME NEW s \in Shards, Take(s) PROVE OrderInv'
  <2>1. ASSUME NEW t \in Shards, t # s
        PROVE  serving'[t] = serving[t] /\ queue'[t] = queue[t]
    BY <1>4, <2>1, TakeEffect DEF Work
  <2>2. ASSUME NEW i \in 1..Len(queue'[s]) PROVE serving'[s] < queue'[s][i]
    <3>1. /\ serving'[s] = queue[s][1] /\ queue'[s][i] = queue[s][i + 1]
          /\ i + 1 \in 1..Len(queue[s]) /\ 1 \in 1..Len(queue[s]) /\ 1 < i + 1
      BY <1>4, <2>2, TakeEffect DEF Work
    <3>2. QED
      BY <3>1 DEF OrderInv
  <2>3. ASSUME NEW i \in 1..Len(queue'[s]), NEW j \in 1..Len(queue'[s]), i < j
        PROVE  queue'[s][i] < queue'[s][j]
    <3>1. /\ queue'[s][i] = queue[s][i + 1] /\ queue'[s][j] = queue[s][j + 1]
          /\ i + 1 \in 1..Len(queue[s]) /\ j + 1 \in 1..Len(queue[s]) /\ i + 1 < j + 1
      BY <1>4, <2>3, TakeEffect
    <3>2. QED
      BY <3>1 DEF OrderInv
  <2>4. QED
    BY <2>1, <2>2, <2>3 DEF OrderInv
<1>5. ASSUME NEW s \in Shards, Reports(s) PROVE OrderInv'
  <2>1. queue' = queue /\ serving'[s] = 0 /\ \A t \in Shards : t # s => serving'[t] = serving[t]
    BY <1>5, ReportEffect DEF Work
  <2>2. \A i \in 1..Len(queue[s]) : 0 < queue[s][i]
    BY IdsOfFeed DEF Work
  <2>3. QED
    BY <2>1, <2>2 DEF OrderInv
<1>6. CASE Crash \/ Restart
  <2>1. \A s \in Shards : Len(queue'[s]) = 0
    BY <1>6, FreshEffect
  <2>2. QED
    BY <2>1 DEF OrderInv
<1>7. QED
  BY <1>1, <1>3, <1>4, <1>5, <1>6
  DEF Next, Poller, Worker, Reports, vars, batchVars, workVars, retryVars, GetUpdates,
      GetUpdatesFails, Wait, RunReturns, Defer, AbortSubmit, AbortDeferred, Submitted,
      AdvanceOffset, Stop, AttemptFailsTransiently, SleepEnds, CooldownElapses, Cancel

\* What was handed over stays in its queue until its worker has it.
LEMMA KeptStep == Inv /\ [Next]_vars => KeptInv'
<1> SUFFICES ASSUME Numbers, Sets, Work, BatchInv, BusyInv, OwedInv, KeptInv, [Next]_vars
             PROVE  KeptInv'
  BY DEF Inv
<1>1. CASE UNCHANGED <<pending, answered, queue, serving>>
  BY <1>1 DEF KeptInv, Held
<1>2. ASSUME NEW u \in Ids, HasRoom(shardIndex(u)), Hand(u), UNCHANGED <<answered, serving>>
      PROVE  KeptInv'
  <2>1. ASSUME NEW v \in pending' \ answered' PROVE Held(shardIndex(v), v)'
    <3>1. CASE v = u
      BY <1>2, <3>1, HandEffect DEF Held
    <3>2. CASE v # u
      <4>1. v \in pending \ answered /\ shardIndex(v) \in Shards
        BY <1>2, <2>1, <3>2, HandEffect, IdsOfFeed DEF Sets
      <4>2. Held(shardIndex(v), v)
        BY <4>1 DEF KeptInv
      <4>3. QED
        BY <1>2, <4>1, <4>2, HandEffect DEF Held
    <3>3. QED
      BY <3>1, <3>2
  <2>2. QED
    BY <2>1 DEF KeptInv
<1>3. CASE SubmitNow \/ (\E u \in Ids : SubmitDeferred(u))
  BY <1>2, <1>3, HandsSomethingNew
<1>4. ASSUME NEW n \in 0..BatchLimit, GetUpdates(n) PROVE KeptInv'
  BY <1>4, PollsWhenIdle DEF KeptInv
<1>5. ASSUME NEW s \in Shards, Take(s) PROVE KeptInv'
  <2>1. ASSUME NEW v \in pending' \ answered' PROVE Held(shardIndex(v), v)'
    <3>1. v \in pending \ answered /\ shardIndex(v) \in Shards /\ v # 0
      BY <1>5, <2>1, IdsOfFeed DEF Take, batchVars, Sets
    <3>2. Held(shardIndex(v), v)
      BY <3>1 DEF KeptInv
    <3>3. CASE shardIndex(v) # s
      BY <1>5, <3>1, <3>2, <3>3, TakeEffect DEF Held, Work
    <3>4. CASE shardIndex(v) = s
      <4>1. PICK i \in 1..Len(queue[s]) : queue[s][i] = v
        BY <1>5, <3>1, <3>2, <3>4, TakeEffect DEF Held
      <4>2. CASE i = 1
        BY <1>5, <3>4, <4>1, <4>2, TakeEffect DEF Held, Work
      <4>3. CASE i # 1
        <5>1. i - 1 \in 1..Len(queue'[s]) /\ queue'[s][i - 1] = v
          BY <1>5, <4>1, <4>3, TakeEffect
        <5>2. QED
          BY <3>4, <5>1 DEF Held
      <4>4. QED
        BY <4>2, <4>3
    <3>5. QED
      BY <3>3, <3>4
  <2>2. QED
    BY <2>1 DEF KeptInv
<1>6. ASSUME NEW s \in Shards, Reports(s) PROVE KeptInv'
  <2>1. /\ answered' = answered \cup {serving[s]} /\ serving' = [serving EXCEPT ![s] = 0]
        /\ UNCHANGED <<pending, queue>>
    BY <1>6, ReportEffect DEF batchVars
  <2>2. ASSUME NEW v \in pending' \ answered' PROVE Held(shardIndex(v), v)'
    <3>1. v \in pending \ answered /\ v # serving[s] /\ shardIndex(v) \in Shards
      BY <2>1, <2>2, IdsOfFeed DEF Sets
    <3>2. Held(shardIndex(v), v)
      BY <3>1 DEF KeptInv
    <3>3. QED
      BY <2>1, <3>1, <3>2 DEF Held, Work
  <2>3. QED
    BY <2>2 DEF KeptInv
<1>7. CASE Crash \/ Restart
  BY <1>7, FreshEffect DEF KeptInv
<1>8. QED
  BY <1>1, <1>3, <1>4, <1>5, <1>6, <1>7
  DEF Next, Poller, Worker, Reports, vars, batchVars, workVars, retryVars, GetUpdatesFails,
      Wait, RunReturns, Defer, AbortSubmit, AbortDeferred, Submitted, AdvanceOffset, Stop,
      AttemptFailsTransiently, SleepEnds, CooldownElapses, Cancel

\* Telegram forgets, and a batch starts after, only what a handler served.
LEMMA LedgerStep == Inv /\ [Next]_vars => LedgerInv'
<1> SUFFICES ASSUME Numbers, Sets, Work, BatchInv, LedgerInv, BusyInv, OwedInv, [Next]_vars
             PROVE  LedgerInv'
  BY DEF Inv
<1> USE DEF LedgerInv
<1>n. \A u \in Ids : u \in Nat
  BY IdsOfFeed
<1>1. CASE UNCHANGED <<first, offset, acked, answered, returned, served>>
           /\ (cancelled => cancelled')
  BY <1>1
<1>2. ASSUME NEW n \in 0..BatchLimit, GetUpdates(n) PROVE LedgerInv'
  <2>1. Max2(acked, offset) \in {acked, offset} /\ ~cancelled
    BY <1>2, FromIsLatest DEF GetUpdates, ContextLive
  <2>2. /\ acked' = Max2(acked, offset) /\ first' = Max2(acked, offset) /\ answered' = {}
        /\ UNCHANGED <<cancelled, offset, returned, served>>
    BY <1>2 DEF GetUpdates, Acknowledge
  <2>3. QED
    BY <2>1, <2>2
<1>3. CASE GetUpdatesFails
  <2>1. Max2(acked, offset) \in {acked, offset} /\ ~cancelled
    BY <1>3, FromIsLatest DEF GetUpdatesFails, ContextLive
  <2>2. /\ acked' \in {Max2(acked, offset), acked}
        /\ UNCHANGED <<first, answered, cancelled, offset, returned, served>>
    BY <1>3 DEF GetUpdatesFails, Acknowledge, batchVars, workVars
  <2>3. QED
    BY <2>1, <2>2
<1>4. CASE AdvanceOffset
  <2>1. UNCHANGED <<first, acked, answered, cancelled, returned, served>>
    BY <1>4 DEF AdvanceOffset, batchVars, workVars
  <2>2. ASSUME NEW u \in Ids, u < offset', ~cancelled PROVE u \in served
    <3>1. /\ pending = first..last /\ refused = {} /\ pending \subseteq answered
          /\ offset' \in {offset, last + 1}
      BY <1>4, <2>2 DEF AdvanceOffset, Collected, BatchInv
    <3>2. CASE offset' = offset
      BY <2>2, <3>2
    <3>3. CASE offset' = last + 1
      <4>1. u < first \/ u \in first..last
        BY <2>2, <3>3, <1>n DEF Numbers
      <4>2. QED
        BY <4>1, <3>1, <2>2
    <3>4. QED
      BY <3>1, <3>2, <3>3
  <2>3. QED
    BY <2>1, <2>2
<1>5. ASSUME NEW s \in Shards, Reports(s) PROVE LedgerInv'
  <2>1. /\ answered' = answered \cup {serving[s]} /\ returned' = returned \cup {serving[s]}
        /\ served' = served \cup {serving[s]} \/ (cancelled /\ served' = served)
        /\ UNCHANGED <<first, acked, offset, cancelled>>
    BY <1>5, ReportEffect DEF batchVars
  <2>2. QED
    BY <2>1
<1>6. CASE Crash \/ Restart
  <2>1. /\ answered' = {} /\ first' = 1 /\ offset' = 0 /\ UNCHANGED <<acked, returned, served>>
    BY <1>6, FreshEffect
  <2>2. \A u \in Ids : ~(u < 1) /\ ~(u < 0)
    BY IdsOfFeed
  <2>3. QED
    BY <2>1, <2>2
<1>7. QED
  BY <1>1, <1>2, <1>3, <1>4, <1>5, <1>6
  DEF Next, Poller, Worker, Reports, vars, batchVars, workVars, Wait, RunReturns, SubmitNow,
      Defer, AbortSubmit, SubmitDeferred, AbortDeferred, Submitted, Stop, Take,
      AttemptFailsTransiently, SleepEnds, CooldownElapses, Cancel

\* A worker that used up its retries is at its first attempt until degraded
\* mode is left, and a budget is never overspent.
LEMMA RetryStep == Inv /\ [Next]_vars => RetryInv'
<1> SUFFICES ASSUME Work, RetryInv, BusyInv, OwedInv, [Next]_vars PROVE RetryInv'
  BY DEF Inv
<1>1. CASE UNCHANGED retryVars
  BY <1>1 DEF RetryInv, retryVars
<1>2. ASSUME NEW s \in Shards, Take(s) PROVE RetryInv'
  <2>1. attempt[s] = "none"
    BY <1>2 DEF Take, BusyInv
  <2>2. /\ attempt'[s] = "try" /\ \A t \in Shards : t # s => attempt'[t] = attempt[t]
        /\ UNCHANGED <<retries, degraded, spenders>>
    BY <1>2 DEF Take, Work
  <2>3. QED
    BY <2>2 DEF RetryInv
<1>3. ASSUME NEW s \in Shards, Reports(s) PROVE RetryInv'
  <2>1. /\ attempt'[s] = "none" /\ retries'[s] = 0
        /\ \A t \in Shards : t # s => attempt'[t] = attempt[t] /\ retries'[t] = retries[t]
    BY <1>3, ReportEffect DEF Work
  <2>2. \/ spenders' = {}
        \/ degraded' = TRUE /\ spenders' \subseteq spenders \cup {s}
        \/ UNCHANGED <<degraded, spenders>>
    BY <1>3 DEF Reports, AttemptSucceeds, AttemptFails, SleepCancelled, EnterDegraded
  <2>3. QED
    BY <2>1, <2>2 DEF RetryInv
<1>4. ASSUME NEW s \in Shards, AttemptFailsTransiently(s) PROVE RetryInv'
  <2>1. /\ attempt'[s] = IF retries[s] + 1 < Budget(s) THEN "sleep" ELSE "spent"
        /\ \A t \in Shards : t # s => attempt'[t] = attempt[t]
        /\ UNCHANGED <<retries, degraded, spenders>>
    BY <1>4 DEF AttemptFailsTransiently, Work
  <2>2. attempt'[s] = "sleep" => retries[s] + 1 < transientAttempts /\ s \notin spenders
    BY <2>1, Constants DEF Budget, RetryInv, Work
  <2>3. attempt'[s] # "none"
    BY <2>1
  <2>4. QED
    BY <2>1, <2>2, <2>3 DEF RetryInv
<1>5. ASSUME NEW s \in Shards, SleepEnds(s) PROVE RetryInv'
  <2>1. /\ attempt[s] = "sleep" /\ attempt'[s] = "try"
        /\ \A t \in Shards : t # s => attempt'[t] = attempt[t] /\ retries'[t] = retries[t]
        /\ UNCHANGED <<degraded, spenders>>
    BY <1>5 DEF SleepEnds, Work
  <2>2. QED
    BY <2>1 DEF RetryInv
<1>6. CASE CooldownElapses
  BY <1>6 DEF CooldownElapses, RetryInv
<1>7. CASE Crash \/ Restart
  <2>1. /\ spenders' = {} /\ \A s \in Shards : attempt'[s] = "none" /\ retries'[s] = 0
    BY <1>7 DEF Crash, Restart, Fresh
  <2>2. QED
    BY <2>1 DEF RetryInv
<1>8. QED
  BY <1>1, <1>2, <1>3, <1>4, <1>5, <1>6, <1>7
  DEF Next, Poller, Worker, Reports, vars, workVars, GetUpdates, GetUpdatesFails, Wait,
      RunReturns, SubmitNow, Defer, AbortSubmit, SubmitDeferred, AbortDeferred, Submitted,
      AdvanceOffset, Stop, Cancel

\* The invariant as a whole.
LEMMA InvStep == Inv /\ [Next]_vars => Inv'
  BY NumbersStep, SetsStep, WorkStep, BatchStep, LedgerStep, RetryStep, BusyStep, OwedStep,
     OrderStep, KeptStep DEF Inv

-------------------------------------------------------------------------------
(* Theorems *)

\* The types: the queues within shardQueueDepth, the retries within their
\* budget, and the offset within what Telegram has sent.
THEOREM DispatcherTypes == Spec => []TypeOK
<1>1. Inv => TypeOK
  BY TypeParts DEF Inv
<1>2. QED
  BY <1>1, InvInit, InvStep, PTL DEF Spec

\* Telegram forgets an update only after a handler ran on it to the end, in
\* this life or an earlier one (AcknowledgedIsServed).
THEOREM DispatcherAcknowledged == Spec => []AcknowledgedIsServed
<1>1. Inv => AcknowledgedIsServed
  BY DEF Inv, LedgerInv, AcknowledgedIsServed
<1>2. QED
  BY <1>1, InvInit, InvStep, PTL DEF Spec

\* An update of a chat is served only after the handler returned from every
\* earlier one (Dispatch in two passes, work).
THEOREM DispatcherNeverOvertakes == Spec => []NeverOvertakes
<1>1. Inv => NeverOvertakes
  <2>1. SUFFICES ASSUME Inv, NEW s \in Shards, NEW v \in Ids, serving[s] # 0,
                        v < serving[s], SamePartition(v, serving[s])
                 PROVE  v \in returned
    BY DEF NeverOvertakes
  <2>2. Owed(s, serving[s]) /\ serving[s] \in Ids
    BY <2>1 DEF Inv, OwedInv, Work
  <2>3. shardIndex(v) = s
    BY <2>1, <2>2 DEF SamePartition, shardIndex, Owed
  <2>4. CASE v < first
    BY <2>1, <2>4 DEF Inv, LedgerInv
  <2>5. CASE first <= v
    <3>1. v \in pending
      BY <2>1, <2>2, <2>3, <2>5 DEF Inv, BatchInv, Owed
    <3>2. CASE v \in answered
      BY <2>1, <3>2 DEF Inv, LedgerInv
    <3>3. CASE v \notin answered
      <4>1. Held(s, v)
        BY <2>1, <2>3, <3>1, <3>3 DEF Inv, KeptInv
      <4>2. v \in Nat /\ serving[s] \in Nat
        BY <2>2, IdsOfFeed
      <4>3. PICK i \in 1..Len(queue[s]) : queue[s][i] = v
        BY <2>1, <4>1, <4>2 DEF Held
      <4>4. serving[s] < v
        BY <2>1, <4>3 DEF Inv, OrderInv
      <4>5. QED
        BY <2>1, <4>2, <4>4
    <3>4. QED
      BY <3>2, <3>3
  <2>6. QED
    BY <2>1, <2>4, <2>5, IdsOfFeed DEF Inv, Numbers
<1>2. QED
  BY <1>1, InvInit, InvStep, PTL DEF Spec

\* A worker that spent its budget retries nothing until the cooldown elapses
\* or an attempt succeeds somewhere (run, degradedUntil).
THEOREM DispatcherOneBudget == Spec => OneBudgetPerOutage
<1>1. Inv /\ [Next]_vars =>
          [\A s \in Shards : s \in spenders /\ s \in spenders' => attempt'[s] # "sleep"]_vars
  BY RetryStep DEF RetryInv
<1>2. QED
  BY <1>1, InvInit, InvStep, PTL DEF Spec, OneBudgetPerOutage
===============================================================================

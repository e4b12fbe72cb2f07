------------------------------ MODULE Dispatcher ------------------------------
(***************************************************************************)
(* The update pipeline: telegram.Poller.Run (bot/internal/telegram/        *)
(* poller.go), the only owner of the getUpdates offset, and                *)
(* telegram.Dispatcher (shard.go), which spreads a batch over the bounded  *)
(* FIFO queues of a fixed set of workers and waits for all of it.          *)
(*                                                                         *)
(* Telegram is external: it keeps the updates, numbered in order, and      *)
(* forgets those below the offset of a getUpdates it received.             *)
(*                                                                         *)
(* The handler is wrapped by the retry of app/transient.go: an attempt     *)
(* that fails on a transient error is tried again on the worker, up to a   *)
(* budget, or once while the process is in degraded mode, which all        *)
(* workers share.                                                          *)
(*                                                                         *)
(* A process life ends by a shutdown (the context is cancelled, Run        *)
(* returns, Stop drains the queues) or by a crash, which loses everything  *)
(* but Telegram's side.                                                    *)
(***************************************************************************)
EXTENDS Integers, Sequences, FiniteSets

CONSTANTS
    Feed,           \* the updates Telegram will deliver; update_id = index
    Shards,         \* numShards workers
    shardHash,      \* key -> shard: the FNV hash, fixed over restarts
    shardQueueDepth,
    BatchLimit,     \* the most updates one getUpdates answers (100)
    transientAttempts, \* attempts of an update, the first included (3)
    MaxLives        \* bound: process lives

Kinds == {"connection", "message", "edited", "deleted", "other"}
Ids == 1..Len(Feed)

(***************************************************************************)
(* ShardKey: a connection update carries no chat and shards on the         *)
(* connection alone; an update of no known type on its own id.             *)
(***************************************************************************)
ShardKey(u) ==
    CASE Feed[u].kind = "connection" -> <<"conn", Feed[u].conn>>
      [] Feed[u].kind \in {"message", "edited", "deleted"} ->
             <<"chat", Feed[u].conn, Feed[u].chat>>
      [] OTHER -> <<"update", u>>

shardIndex(u) == shardHash[ShardKey(u)]

ASSUME DispatcherAssumption ==
    /\ Feed \in Seq([kind : Kinds, conn : STRING, chat : STRING])
    /\ \A u \in Ids : shardIndex(u) \in Shards
    /\ shardQueueDepth \in Nat \ {0}
    /\ BatchLimit \in Nat \ {0}
    /\ transientAttempts \in Nat \ {0}
    /\ MaxLives \in Nat \ {0}

VARIABLES
    life,           \* the current process life
    cancelled,      \* the run context is done
    pc,             \* where Run is
    offset,         \* Poller.offset
    first, last,    \* the batch is first..last; empty when last < first
    cursor,         \* pass 1: the update it is at
    deferred,       \* updates pass 1 put off, not submitted yet
    pending,        \* updates of the batch handed to a queue
    refused,        \* slots that hold ErrUpdateNotSubmitted
    answered,       \* done channels a worker has reported on
    queue,          \* the shard channels
    serving,        \* the update each worker runs the handler on, 0 if none
    attempt,        \* what its retry does: "try", "sleep" or "spent" (the
                    \* budget is used up); "none" without an update
    retries,        \* how often it slept
    degraded,       \* degradedUntil lies in the future
    spenders,       \* history: workers that used up their retries since
                    \* degraded mode was last left
    acked,          \* Telegram: the first update it still keeps
    returned,       \* history: updates whose handler returned, in any life
    served          \* history: of those, not because of a cancelled context

batchVars == <<first, last, cursor, deferred, pending, refused>>
retryVars == <<attempt, retries, degraded, spenders>>
workVars == <<answered, queue, serving, retryVars, returned, served>>
vars == <<life, cancelled, pc, offset, batchVars, workVars, acked>>

(***************************************************************************)
(* poll     at the top of the loop;     backoff  sleeping after an error;  *)
(* submit   Dispatch, pass 1;           block    Dispatch, pass 2;         *)
(* collect  waiting for the batch;      stop     Run returned, in Stop;    *)
(* exited   the process is gone.                                           *)
(***************************************************************************)
Stages == {"poll", "backoff", "submit", "block", "collect", "stop", "exited"}

TypeOK ==
    /\ life \in 1..MaxLives
    /\ cancelled \in BOOLEAN
    /\ pc \in Stages
    /\ offset \in 0..Len(Feed) + 1
    /\ first \in Ids \cup {Len(Feed) + 1} /\ last \in Ids \cup {0}
    /\ cursor \in Ids \cup {Len(Feed) + 1}
    /\ deferred \subseteq Ids /\ pending \subseteq Ids /\ refused \subseteq Ids
    /\ answered \subseteq Ids /\ returned \subseteq Ids /\ served \subseteq Ids
    /\ queue \in [Shards -> Seq(Ids)]
    /\ \A s \in Shards : Len(queue[s]) <= shardQueueDepth
    /\ serving \in [Shards -> Ids \cup {0}]
    /\ attempt \in [Shards -> {"none", "try", "sleep", "spent"}]
    /\ retries \in [Shards -> 0..transientAttempts - 1]
    /\ degraded \in BOOLEAN /\ spenders \subseteq Shards
    /\ acked \in 1..Len(Feed) + 1

Max2(a, b) == IF a >= b THEN a ELSE b

\* A new process: an empty Poller and idle workers.
Fresh ==
    /\ cancelled' = FALSE
    /\ offset' = 0
    /\ first' = 1 /\ last' = 0 /\ cursor' = 1
    /\ deferred' = {} /\ pending' = {} /\ refused' = {}
    /\ answered' = {}
    /\ queue' = [s \in Shards |-> <<>>]
    /\ serving' = [s \in Shards |-> 0]
    /\ attempt' = [s \in Shards |-> "none"]
    /\ retries' = [s \in Shards |-> 0]
    /\ degraded' = FALSE /\ spenders' = {}

Init ==
    /\ life = 1 /\ cancelled = FALSE /\ pc = "poll"
    /\ offset = 0
    /\ first = 1 /\ last = 0 /\ cursor = 1
    /\ deferred = {} /\ pending = {} /\ refused = {}
    /\ answered = {}
    /\ queue = [s \in Shards |-> <<>>]
    /\ serving = [s \in Shards |-> 0]
    /\ attempt = [s \in Shards |-> "none"]
    /\ retries = [s \in Shards |-> 0]
    /\ degraded = FALSE /\ spenders = {}
    /\ acked = 1
    /\ returned = {} /\ served = {}

(***************************************************************************)
(* Telegram receives getUpdates(offset): it forgets what is below.         *)
(***************************************************************************)
Acknowledge == acked' = Max2(acked, offset)

\* Mutant: the loop polls again without looking at its context.
ContextIgnored == TRUE

\* The check at the top of the loop.
ContextLive == ~cancelled

(***************************************************************************)
(* getUpdates answers n updates; none of them when the long poll expires.  *)
(* Dispatch starts on the batch, or returns at once on an empty one.       *)
(***************************************************************************)
GetUpdates(n) ==
    LET from == Max2(acked, offset) IN
    /\ pc = "poll" /\ ContextLive
    /\ from + n - 1 <= Len(Feed)
    /\ Acknowledge
    /\ first' = from /\ last' = from + n - 1 /\ cursor' = from
    /\ deferred' = {} /\ pending' = {} /\ refused' = {} /\ answered' = {}
    /\ pc' = IF n = 0 THEN "poll" ELSE "submit"
    /\ UNCHANGED <<life, cancelled, offset, queue, serving, retryVars, returned, served>>

\* getUpdates fails, before or after Telegram received the request.
GetUpdatesFails ==
    /\ pc = "poll" /\ ContextLive
    /\ pc' = "backoff"
    /\ Acknowledge \/ UNCHANGED acked
    /\ UNCHANGED <<life, cancelled, offset, batchVars, workVars>>

Wait ==
    /\ pc = "backoff"
    /\ pc' = "poll"
    /\ UNCHANGED <<life, cancelled, offset, batchVars, workVars, acked>>

\* The context is seen done at the top of the loop, after a failed
\* getUpdates or while sleeping: Run returns and its deferred Stop begins.
RunReturns ==
    /\ pc \in {"poll", "backoff"} /\ cancelled
    /\ pc' = "stop"
    /\ UNCHANGED <<life, cancelled, offset, batchVars, workVars, acked>>

-------------------------------------------------------------------------------

\* Mutant: pass 1 does not remember the partitions it deferred.
DeferredShardsForgotten == {}

\* deferredShard: the partitions this batch already deferred an update of.
DeferredShards == {shardIndex(u) : u \in deferred}

\* Mutant: the queue grows instead of applying backpressure.
HasRoomAlways(s) == TRUE

HasRoom(s) == Len(queue[s]) < shardQueueDepth

Hand(u) ==
    /\ queue' = [queue EXCEPT ![shardIndex(u)] = Append(@, u)]
    /\ pending' = pending \cup {u}

\* Pass 1 is over when the cursor has passed the batch.
Advance ==
    /\ cursor' = cursor + 1
    /\ pc' = IF cursor = last THEN "block" ELSE "submit"

\* Pass 1: the shard has room and the update is handed to it.
SubmitNow ==
    /\ pc = "submit"
    /\ shardIndex(cursor) \notin DeferredShards
    /\ HasRoom(shardIndex(cursor))
    /\ Hand(cursor)
    /\ Advance
    /\ UNCHANGED <<life, cancelled, offset, first, last, deferred, refused,
                   answered, serving, retryVars, returned, served, acked>>

\* Pass 1: the shard is full, or already has a deferred update.
Defer ==
    /\ pc = "submit"
    /\ \/ shardIndex(cursor) \in DeferredShards
       \/ ~HasRoom(shardIndex(cursor)) /\ ~cancelled
    /\ deferred' = deferred \cup {cursor}
    /\ Advance
    /\ UNCHANGED <<life, cancelled, offset, first, last, pending, refused, workVars, acked>>

(***************************************************************************)
(* Pass 1: the select takes ctx.Done().  The slots from the cursor on are  *)
(* marked ErrUpdateNotSubmitted; the ones deferred before it are not.      *)
(***************************************************************************)
AbortSubmit ==
    /\ pc = "submit" /\ cancelled
    /\ shardIndex(cursor) \notin DeferredShards
    /\ refused' = cursor..last
    /\ pc' = "collect"
    /\ UNCHANGED <<life, cancelled, offset, first, last, cursor, deferred, pending, workVars, acked>>

NextDeferred(u) == u \in deferred /\ \A v \in deferred : u <= v

\* Pass 2: the deferred updates in batch order, blocking on a full shard.
SubmitDeferred(u) ==
    /\ pc = "block"
    /\ NextDeferred(u)
    /\ HasRoom(shardIndex(u))
    /\ Hand(u)
    /\ deferred' = deferred \ {u}
    /\ UNCHANGED <<life, cancelled, pc, offset, first, last, cursor, refused,
                   answered, serving, retryVars, returned, served, acked>>

\* Pass 2: the select takes ctx.Done().
AbortDeferred ==
    /\ pc = "block" /\ cancelled /\ deferred # {}
    /\ refused' = deferred
    /\ pc' = "collect"
    /\ UNCHANGED <<life, cancelled, offset, first, last, cursor, deferred, pending, workVars, acked>>

Submitted ==
    /\ pc = "block" /\ deferred = {}
    /\ pc' = "collect"
    /\ UNCHANGED <<life, cancelled, offset, batchVars, workVars, acked>>

\* collect: every submitted update reported, or the context is done (each
\* slot then takes the report that is there, or ctx.Err()).
Collected == cancelled \/ pending \subseteq answered

(***************************************************************************)
(* Dispatch returns and the offset moves over the batch, failed updates    *)
(* included, up to the first slot that holds ErrUpdateNotSubmitted.        *)
(***************************************************************************)
AdvanceOffset ==
    /\ pc = "collect" /\ Collected
    /\ \E n \in first..last + 1 :
           /\ n \in refused \cup {last + 1}
           /\ \A v \in refused : n <= v
           /\ offset' = IF n = first THEN offset ELSE n
    /\ pc' = "poll"
    /\ UNCHANGED <<life, cancelled, batchVars, workVars, acked>>

-------------------------------------------------------------------------------

\* work: the worker receives the head of its queue.
Take(s) ==
    /\ serving[s] = 0 /\ queue[s] # <<>>
    /\ serving' = [serving EXCEPT ![s] = Head(queue[s])]
    /\ queue' = [queue EXCEPT ![s] = Tail(@)]
    /\ attempt' = [attempt EXCEPT ![s] = "try"]
    /\ UNCHANGED <<life, cancelled, pc, offset, batchVars, answered,
                   retries, degraded, spenders, returned, served, acked>>

\* Mutant: a panic is not recovered and nobody reports the update.
ServePanics(s) ==
    /\ returned' = returned \cup {serving[s]}
    /\ serving' = [serving EXCEPT ![s] = 0]
    /\ attempt' = [attempt EXCEPT ![s] = "none"]
    /\ retries' = [retries EXCEPT ![s] = 0]
    /\ UNCHANGED <<life, cancelled, pc, offset, batchVars, queue, answered, served, acked>>

\* Mutant: the done channel has no buffer.
ServeUnbuffered(s) ==
    LET u == serving[s] IN
    /\ pc = "collect"
    /\ answered' = answered \cup {u}
    /\ returned' = returned \cup {u}
    /\ served' = served \cup {u}
    /\ serving' = [serving EXCEPT ![s] = 0]
    /\ attempt' = [attempt EXCEPT ![s] = "none"]
    /\ retries' = [retries EXCEPT ![s] = 0]
    /\ UNCHANGED <<life, cancelled, pc, offset, batchVars, queue, acked>>

(***************************************************************************)
(* serve: the handler returned, failed or panicked, and the worker reports *)
(* it.  Under a cancelled context it may have given up half way.           *)
(***************************************************************************)
Serve(s) ==
    LET u == serving[s] IN
    /\ answered' = answered \cup {u}
    /\ returned' = returned \cup {u}
    /\ \/ served' = served \cup {u}
       \/ cancelled /\ UNCHANGED served
    /\ serving' = [serving EXCEPT ![s] = 0]
    /\ attempt' = [attempt EXCEPT ![s] = "none"]
    /\ retries' = [retries EXCEPT ![s] = 0]
    /\ UNCHANGED <<life, cancelled, pc, offset, batchVars, queue, acked>>

\* The attempt succeeds: healthy, and run returns nil.
AttemptSucceeds(s) ==
    /\ attempt[s] = "try"
    /\ degraded' = FALSE /\ spenders' = {}
    /\ Serve(s)

\* The attempt fails for good, or panics.
AttemptFails(s) ==
    /\ attempt[s] = "try"
    /\ Serve(s)
    /\ UNCHANGED <<degraded, spenders>>

\* Mutant: degraded mode is not asked about.
BudgetFull(s) == transientAttempts

\* The budget is decided when the first attempt has failed.
Budget(s) == IF retries[s] = 0 /\ degraded THEN 1 ELSE transientAttempts

\* The attempt fails on a transient error: another one, or none is left.
AttemptFailsTransiently(s) ==
    /\ attempt[s] = "try"
    /\ attempt' = [attempt EXCEPT ![s] = IF retries[s] + 1 < Budget(s) THEN "sleep" ELSE "spent"]
    /\ UNCHANGED <<life, cancelled, pc, offset, batchVars, answered, queue, serving,
                   retries, degraded, spenders, returned, served, acked>>

\* The wait is over.
SleepEnds(s) ==
    /\ attempt[s] = "sleep"
    /\ attempt' = [attempt EXCEPT ![s] = "try"]
    /\ retries' = [retries EXCEPT ![s] = @ + 1]
    /\ UNCHANGED <<life, cancelled, pc, offset, batchVars, answered, queue, serving,
                   degraded, spenders, returned, served, acked>>

\* The context ends during the wait: run returns the error it has.
SleepCancelled(s) ==
    /\ attempt[s] = "sleep" /\ cancelled
    /\ Serve(s)
    /\ UNCHANGED <<degraded, spenders>>

\* degradedUntil is stored, and the update let go.
EnterDegraded(s) ==
    /\ attempt[s] = "spent"
    /\ degraded' = TRUE
    /\ spenders' = IF retries[s] > 0 THEN spenders \cup {s} ELSE spenders
    /\ Serve(s)

\* transientCooldown has passed.
CooldownElapses ==
    /\ degraded
    /\ degraded' = FALSE /\ spenders' = {}
    /\ UNCHANGED <<life, cancelled, pc, offset, batchVars, answered, queue, serving,
                   attempt, retries, returned, served, acked>>

Running == pc # "exited"
Idle == \A s \in Shards : serving[s] = 0 /\ queue[s] = <<>>

\* SIGTERM cancels the context the poller runs under.  A process of the last
\* life is left alone.
Cancel ==
    /\ Running /\ ~cancelled
    /\ life < MaxLives
    /\ cancelled' = TRUE
    /\ UNCHANGED <<life, pc, offset, batchVars, workVars, acked>>

\* Stop: the queues are closed, the workers drain them and leave.
Stop ==
    /\ pc = "stop" /\ Idle
    /\ pc' = "exited"
    /\ UNCHANGED <<life, cancelled, offset, batchVars, workVars, acked>>

\* The process dies: the queues and the offset are gone.
Crash ==
    /\ Running
    /\ life < MaxLives
    /\ Fresh
    /\ pc' = "exited"
    /\ UNCHANGED <<life, acked, returned, served>>

Restart ==
    /\ pc = "exited" /\ life < MaxLives
    /\ life' = life + 1
    /\ Fresh
    /\ pc' = "poll"
    /\ UNCHANGED <<acked, returned, served>>

-------------------------------------------------------------------------------

Poller ==
    \/ \E n \in 0..BatchLimit : GetUpdates(n)
    \/ GetUpdatesFails
    \/ Wait
    \/ RunReturns
    \/ SubmitNow
    \/ Defer
    \/ AbortSubmit
    \/ \E u \in Ids : SubmitDeferred(u)
    \/ AbortDeferred
    \/ Submitted
    \/ AdvanceOffset
    \/ Stop

Worker(s) ==
    \/ Take(s)
    \/ AttemptSucceeds(s) \/ AttemptFails(s)
    \/ AttemptFailsTransiently(s) \/ EnterDegraded(s)
    \/ SleepEnds(s) \/ SleepCancelled(s)

Next ==
    \/ Poller
    \/ \E s \in Shards : Worker(s)
    \/ CooldownElapses
    \/ Cancel
    \/ Crash
    \/ Restart

Spec == Init /\ [][Next]_vars

(***************************************************************************)
(* Handlers return (every call they make has a ceiling), the goroutines    *)
(* are scheduled, a stopped process is restarted by its supervisor, and    *)
(* Telegram is not down for ever: while updates are waiting, getUpdates    *)
(* answers some of them in the end.                                        *)
(***************************************************************************)
Fairness ==
    /\ WF_vars(Poller)
    /\ SF_vars(\E n \in 1..BatchLimit : GetUpdates(n))
    /\ SF_vars(GetUpdates(0))
    /\ \A s \in Shards : WF_vars(Worker(s))
    /\ WF_vars(Restart)

FairSpec == Spec /\ Fairness

-------------------------------------------------------------------------------

SamePartition(u, v) == ShardKey(u) = ShardKey(v)

(***************************************************************************)
(* An update reaches the handler only after the handler returned from      *)
(* every earlier update of its chat, in this process or a former one: a    *)
(* deletion never overtakes the save or the edit it refers to, although    *)
(* Dispatch submits a batch in two passes.                                 *)
(***************************************************************************)
NeverOvertakes ==
    \A s \in Shards : \A v \in Ids :
        (serving[s] # 0 /\ v < serving[s] /\ SamePartition(v, serving[s]))
            => v \in returned

(***************************************************************************)
(* Telegram forgets an update only after a handler ran on it to the end    *)
(* under a live context: no shutdown, crash, lost answer or aborted batch  *)
(* loses one.                                                              *)
(***************************************************************************)
AcknowledgedIsServed == \A u \in Ids : u < acked => u \in served

(***************************************************************************)
(* Every update is acknowledged in the end, whatever the handlers return   *)
(* and however often the process was stopped before: a poisoned update     *)
(* freezes neither its shard nor the offset.                               *)
(***************************************************************************)
EveryUpdateAcknowledged == <>(acked = Len(Feed) + 1)

(***************************************************************************)
(* A cancelled context ends the process: neither a full queue, nor a       *)
(* worker reporting to a Dispatch that left, nor Stop waiting for the      *)
(* workers blocks the shutdown.                                            *)
(***************************************************************************)
ShutdownCompletes == cancelled ~> (pc = "exited")

(***************************************************************************)
(* An outage costs a worker one retry budget, and not one per update: from *)
(* the moment its retries were of no use until the cooldown elapses or an  *)
(* attempt succeeds somewhere, it retries nothing.  Degraded mode is       *)
(* shared, so each of the others may still spend the budget it has begun.  *)
(***************************************************************************)
OneBudgetPerOutage ==
    [][\A s \in Shards : s \in spenders /\ s \in spenders' => attempt'[s] # "sleep"]_vars
===============================================================================

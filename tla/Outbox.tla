-------------------------------- MODULE Outbox --------------------------------
(***************************************************************************)
(* notification_outbox (bot/internal/outbox): the alerts a deletion        *)
(* enqueues, and the workers that claim one row at a time under a lease,   *)
(* send it and record the outcome.                                         *)
(*                                                                         *)
(* A worker is the outbox loop of one process.  Two of them overlap while  *)
(* a process is being replaced.  The lease token is random and known to    *)
(* one claim only, so a row's token is the worker whose current claim      *)
(* wrote it.                                                               *)
(*                                                                         *)
(* Time is left out.  A deadline (locked_until, the retention of           *)
(* created_at) may pass at any moment after it was set; next_attempt_at    *)
(* has passed whenever a claim looks at the row, however soon that is.     *)
(***************************************************************************)
EXTENDS Integers, FiniteSets

CONSTANTS
    Workers,
    Messages,
    Chunks,                 \* rows of an alert: chunk_index in 0..Chunks-1
    MediaRows,              \* the rows of payload_kind 'media'
    Refusals,               \* the sets of rows Telegram may refuse for ever
    maxDeliveryAttempts,    \* fast-lane budget
    MaxFaults,              \* bound: faults and requeues an alert meets
    NoOne                   \* lease_token is NULL

Rows == Messages \X (0..Chunks - 1)
NoRow == <<>>

ASSUME OutboxAssumption ==
    /\ Chunks \in Nat \ {0}
    /\ maxDeliveryAttempts \in Nat \ {0}
    /\ MaxFaults \in Nat
    /\ MediaRows \subseteq Rows /\ Refusals \subseteq SUBSET Rows
    /\ IsFiniteSet(Workers) /\ NoOne \notin Workers

VARIABLES
    unreachable,    \* rows Telegram never accepts: the owner blocked the bot
    stored,         \* messages: the rows a deletion finds
    expired,        \* messages whose alert is older than retention_days
    status,         \* per row; "absent" when there is none
    attempts,
    locked,         \* locked_until > clock_timestamp()
    token,          \* lease_token
    stage,          \* per worker: how far ProcessOne is
    job,            \* the row it claimed
    tries,          \* Job.Attempts, read by the claim
    erasing,        \* workers whose process is between the halves of an erasure
    begun,          \* history: times Telegram accepted the row or its first files
    delivered,      \* history: rows Telegram accepted all of
    faults,         \* history: crashes, lost answers, broken albums, expired leases
    everFailed,     \* history: text rows that were parked in the slow lane
    erased,         \* history: messages whose alert was erased and not queued since
    requeued        \* history: times an erased alert was queued again

rowVars == <<status, attempts, locked, token>>
jobVars == <<stage, job, tries>>
histVars == <<begun, delivered, faults, everFailed>>
erasureVars == <<erasing, erased, requeued>>
vars == <<unreachable, stored, expired, rowVars, jobVars, histVars, erasureVars>>

Statuses == {"absent", "pending", "processing", "sent", "failed"}

(***************************************************************************)
(* idle      between two ProcessOne;    sending  in deliver;               *)
(* rest      the first call of an album went through, another follows;     *)
(* fallback  the files cannot go, the text is sent instead;                *)
(* accepted, retryable, refused         what deliver returned.             *)
(***************************************************************************)
Stages == {"idle", "sending", "rest", "fallback", "accepted", "retryable", "refused"}

\* The attempts of a row never pass the fast-lane budget, however often it
\* was swept back from the slow lane.
TypeOK ==
    /\ unreachable \in Refusals
    /\ stored \subseteq Messages /\ expired \subseteq Messages
    /\ status \in [Rows -> Statuses]
    /\ attempts \in [Rows -> 0..maxDeliveryAttempts]
    /\ locked \in [Rows -> BOOLEAN]
    /\ token \in [Rows -> Workers \cup {NoOne}]
    /\ stage \in [Workers -> Stages]
    /\ job \in [Workers -> Rows \cup {NoRow}]
    /\ tries \in [Workers -> 0..maxDeliveryAttempts]
    /\ begun \in [Rows -> Nat] /\ delivered \subseteq Rows
    /\ faults \in [Rows -> 0..MaxFaults]
    /\ everFailed \subseteq Rows \ MediaRows
    /\ erasing \subseteq Workers /\ erased \subseteq Messages
    /\ requeued \in [Messages -> 0..MaxFaults]

Init ==
    /\ unreachable \in Refusals
    /\ stored = Messages /\ expired = {}
    /\ status = [r \in Rows |-> "absent"]
    /\ attempts = [r \in Rows |-> 0]
    /\ locked = [r \in Rows |-> FALSE]
    /\ token = [r \in Rows |-> NoOne]
    /\ stage = [w \in Workers |-> "idle"]
    /\ job = [w \in Workers |-> NoRow]
    /\ tries = [w \in Workers |-> 0]
    /\ begun = [r \in Rows |-> 0]
    /\ delivered = {}
    /\ faults = [r \in Rows |-> 0]
    /\ everFailed = {}
    /\ erasing = {} /\ erased = {}
    /\ requeued = [m \in Messages |-> 0]

\* The bound leaves the alert of message m another fault.
Spare(m) == \A r \in Rows : r[1] = m => faults[r] + requeued[m] < MaxFaults

\* A fault that hits the delivery of a row.
Fault(r) ==
    /\ Spare(r[1])
    /\ faults' = [faults EXCEPT ![r] = @ + 1]

-------------------------------------------------------------------------------

\* Counts an alert that is queued again after its rows were erased.
Requeue(m) ==
    /\ m \in erased => Spare(m)
    /\ erased' = erased \ {m}
    /\ requeued' = [requeued EXCEPT ![m] = IF m \in erased THEN @ + 1 ELSE @]

(***************************************************************************)
(* MarkDeleted: the deletion and the rows of its alert commit together.    *)
(* Telegram may deliver the update again: ON CONFLICT DO NOTHING.  It      *)
(* keeps an update for a day at most, and retention is a day at least.     *)
(* A file still being downloaded has no row yet: the rows of the alert are *)
(* the text and any of the media.                                          *)
(*                                                                         *)
(* handleDeleted takes the shared side of its process's guard and asks     *)
(* nothing of the connection, and the UPDATE returns a message that is     *)
(* marked already: once an erasure has deleted the rows, and until it      *)
(* deletes the messages, an update that comes again queues them again.     *)
(***************************************************************************)
MarkDeleted(w, m) ==
    \E media \in SUBSET MediaRows :
        LET new == {r \in Rows : /\ r[1] = m /\ status[r] = "absent"
                                 /\ r \in MediaRows => r \in media}
        IN
        /\ w \notin erasing
        /\ m \in stored /\ m \notin expired
        /\ new # {}
        /\ status' = [r \in Rows |-> IF r \in new THEN "pending" ELSE status[r]]
        /\ Requeue(m)
        /\ UNCHANGED <<unreachable, stored, expired, attempts, locked, token, jobVars, histVars,
                       erasing>>

\* Mutant: a failed prior chunk keeps the later ones waiting.
NoPriorUnsettled(r) ==
    \A q \in Rows : (q[1] = r[1] /\ q[2] < r[2]) => status[q] \in {"absent", "sent"}

\* Mutant: the chunks of a message are claimed in any order.
NoPriorConsidered(r) == TRUE

\* NOT EXISTS: no earlier chunk of the same alert is pending or processing.
NoPriorWaiting(r) ==
    \A q \in Rows : (q[1] = r[1] /\ q[2] < r[2]) => status[q] \in {"absent", "sent", "failed"}

\* Mutant: the claim does not look at the lease.
ClaimableLeased(r) ==
    /\ status[r] \in {"pending", "processing", "failed"}
    /\ NoPriorWaiting(r)

Claimable(r) ==
    /\ status[r] \in {"pending", "processing", "failed"}
    /\ ~locked[r]
    /\ NoPriorWaiting(r)

\* Mutant: a row swept from the slow lane keeps the attempts it had.
ClaimedAttemptsKept(r) == attempts[r]

\* A failed row comes back with a fresh budget.
ClaimedAttempts(r) == IF status[r] = "failed" THEN 0 ELSE attempts[r]

\* Claim: FOR UPDATE SKIP LOCKED gives a row to one worker.  ProcessOne holds
\* the shared side of the guard, which an erasure of its process excludes.
Claim(w, r) ==
    /\ stage[w] = "idle" /\ w \notin erasing
    /\ Claimable(r)
    /\ status' = [status EXCEPT ![r] = "processing"]
    /\ attempts' = [attempts EXCEPT ![r] = ClaimedAttempts(r)]
    /\ locked' = [locked EXCEPT ![r] = TRUE]
    /\ token' = [token EXCEPT ![r] = w]
    /\ stage' = [stage EXCEPT ![w] = "sending"]
    /\ job' = [job EXCEPT ![w] = r]
    /\ tries' = [tries EXCEPT ![w] = ClaimedAttempts(r)]
    /\ UNCHANGED <<unreachable, stored, expired, histVars, erasureVars>>

-------------------------------------------------------------------------------

Goes(w, to) == stage' = [stage EXCEPT ![w] = to]

\* SendMediaOnce: Telegram accepts the first calls of an album whose types
\* do not mix in one group.
BatchAccepted(w) ==
    /\ stage[w] = "sending" /\ job[w] \in MediaRows
    /\ job[w] \notin unreachable
    /\ Goes(w, "rest")
    /\ begun' = [begun EXCEPT ![job[w]] = @ + 1]
    /\ UNCHANGED <<unreachable, stored, expired, rowVars, job, tries, delivered, faults,
                   everFailed, erasureVars>>

\* Telegram has all of the row: the text, the files, or the text in their place.
Received(w) ==
    /\ stage[w] \in {"sending", "rest", "fallback"}
    /\ job[w] \notin unreachable
    /\ begun' = [begun EXCEPT ![job[w]] = IF stage[w] = "rest" THEN @ ELSE @ + 1]
    /\ delivered' = delivered \cup {job[w]}

Accept(w) ==
    /\ Received(w)
    /\ Goes(w, "accepted")
    /\ UNCHANGED <<unreachable, stored, expired, rowVars, job, tries, faults, everFailed,
                   erasureVars>>

\* Telegram accepts it and the answer is lost: a transport error.
AcceptLost(w) ==
    /\ Received(w)
    /\ Fault(job[w])
    /\ Goes(w, "retryable")
    /\ UNCHANGED <<unreachable, stored, expired, rowVars, job, tries, everFailed, erasureVars>>

\* A later call of the album fails: the whole row is replayed, or its text
\* is sent when a file of that call can never go out.
AlbumBreaks(w) ==
    /\ stage[w] = "rest"
    /\ Fault(job[w])
    /\ \E to \in {"retryable", "fallback"} : Goes(w, to)
    /\ UNCHANGED <<unreachable, stored, expired, rowVars, job, tries, begun, delivered, everFailed,
                   erasureVars>>

\* mediaIsHopeless: the files can never go out, the text goes instead.
MediaHopeless(w) ==
    /\ stage[w] = "sending" /\ job[w] \in MediaRows
    /\ Goes(w, "fallback")
    /\ UNCHANGED <<unreachable, stored, expired, rowVars, job, tries, histVars, erasureVars>>

\* 429, 5xx or a transport error that did not reach Telegram.
SendFails(w) ==
    /\ stage[w] \in {"sending", "fallback"}
    /\ Goes(w, "retryable")
    /\ UNCHANGED <<unreachable, stored, expired, rowVars, job, tries, histVars, erasureVars>>

\* A definitive 4xx; on the files it leads to the text first.
Refuse(w) ==
    /\ stage[w] = "fallback" \/ (stage[w] = "sending" /\ job[w] \notin MediaRows)
    /\ Goes(w, "refused")
    /\ UNCHANGED <<unreachable, stored, expired, rowVars, job, tries, histVars, erasureVars>>

-------------------------------------------------------------------------------

\* Mutant: an acknowledgement is not tied to the lease it was claimed under.
AnyLease(w) == status[job[w]] # "absent"

\* WHERE status = 'processing' AND lease_token = $2
HoldsLease(w) == status[job[w]] = "processing" /\ token[job[w]] = w

\* ProcessOne returns.
Leave(w) ==
    /\ stage' = [stage EXCEPT ![w] = "idle"]
    /\ job' = [job EXCEPT ![w] = NoRow]
    /\ tries' = [tries EXCEPT ![w] = 0]

\* The update of a Mark statement: the lease is released with it.
Settle(w, to, n) ==
    LET r == job[w] IN
    /\ HoldsLease(w)
    /\ status' = [status EXCEPT ![r] = to]
    /\ attempts' = [attempts EXCEPT ![r] = n]
    /\ locked' = [locked EXCEPT ![r] = FALSE]
    /\ token' = [token EXCEPT ![r] = NoOne]
    /\ Leave(w)

MarkSent(w) ==
    /\ stage[w] = "accepted"
    /\ Settle(w, "sent", attempts[job[w]])
    /\ UNCHANGED <<unreachable, stored, expired, histVars, erasureVars>>

\* Mutant: an alert whose budget is spent is closed instead of parked.
GivesUp(w) ==
    /\ stage[w] \in {"refused", "retryable"}
    /\ Settle(w, "sent", attempts[job[w]])
    /\ UNCHANGED <<unreachable, stored, expired, histVars, erasureVars>>

\* A definitive refusal, or the budget is spent: the slow lane.
MarkFailed(w) ==
    /\ \/ stage[w] = "refused"
       \/ stage[w] = "retryable" /\ tries[w] + 1 >= maxDeliveryAttempts
    /\ Settle(w, "failed", attempts[job[w]] + 1)
    /\ everFailed' = everFailed \cup ({job[w]} \ MediaRows)
    /\ UNCHANGED <<unreachable, stored, expired, begun, delivered, faults, erasureVars>>

MarkRetry(w) ==
    /\ stage[w] = "retryable" /\ tries[w] + 1 < maxDeliveryAttempts
    /\ Settle(w, "pending", attempts[job[w]] + 1)
    /\ UNCHANGED <<unreachable, stored, expired, histVars, erasureVars>>

\* ErrLeaseLost: the row went to another worker or is gone.
LeaseLost(w) ==
    /\ stage[w] \in {"accepted", "retryable", "refused"}
    /\ ~HoldsLease(w)
    /\ Leave(w)
    /\ UNCHANGED <<unreachable, stored, expired, rowVars, histVars, erasureVars>>

\* The Mark statement fails, the context is cancelled at any point of
\* ProcessOne, or the process dies: the row keeps its lease.
Interrupt(w) ==
    /\ stage[w] # "idle"
    /\ Fault(job[w])
    /\ Leave(w)
    /\ UNCHANGED <<unreachable, stored, expired, rowVars, begun, delivered, everFailed,
                   erasureVars>>

-------------------------------------------------------------------------------

\* locked_until passes; a fault when the worker is still on the row.
LeaseExpires(r) ==
    /\ locked[r]
    /\ locked' = [locked EXCEPT ![r] = FALSE]
    /\ IF \E w \in Workers : job[w] = r THEN Fault(r) ELSE UNCHANGED faults
    /\ UNCHANGED <<unreachable, stored, expired, status, attempts, token, jobVars,
                   begun, delivered, everFailed,
                   erasureVars>>

Expire(m) ==
    /\ m \notin expired
    /\ expired' = expired \cup {m}
    /\ UNCHANGED <<unreachable, stored, rowVars, jobVars, histVars, erasureVars>>

Delete(rows) ==
    /\ status' = [r \in Rows |-> IF r \in rows THEN "absent" ELSE status[r]]
    /\ attempts' = [r \in Rows |-> IF r \in rows THEN 0 ELSE attempts[r]]
    /\ locked' = [r \in Rows |-> r \notin rows /\ locked[r]]
    /\ token' = [r \in Rows |-> IF r \in rows THEN NoOne ELSE token[r]]

Purgeable(r) == status[r] \in {"sent", "failed"} /\ r[1] \in expired

\* PurgeExpired: rows waiting for a delivery are not deleted.
PurgeExpired ==
    /\ \E r \in Rows : Purgeable(r)
    /\ Delete({r \in Rows : Purgeable(r)})
    /\ UNCHANGED <<unreachable, stored, expired, jobVars, histVars, erasureVars>>

(***************************************************************************)
(* An erasure by the process of worker w: outbox.DeleteTenant deletes the  *)
(* rows, leased or not.  The exclusive side of the guard keeps the worker  *)
(* and the deletions of that process out, not those of an overlapping one. *)
(* An interrupted erasure starts here again.                               *)
(***************************************************************************)
DeleteAlerts(w) ==
    /\ stage[w] = "idle" /\ w \notin erasing
    /\ erasing' = erasing \cup {w}
    /\ Delete(Rows)
    /\ erased' = erased \cup {r[1] : r \in {q \in Rows : status[q] # "absent"}}
    /\ UNCHANGED <<unreachable, stored, expired, jobVars, histVars, requeued>>

\* The media erasure between the two fails, or the process dies: the guard is
\* released with the messages still there.
StopErasing(w) ==
    /\ w \in erasing
    /\ erasing' = erasing \ {w}
    /\ UNCHANGED <<unreachable, stored, expired, rowVars, jobVars, histVars, erased, requeued>>

\* messages.DeleteTenant, in a transaction of its own.
DeleteMessages(w) ==
    /\ w \in erasing
    /\ erasing' = erasing \ {w}
    /\ stored' = {}
    /\ UNCHANGED <<unreachable, expired, rowVars, jobVars, histVars, erased, requeued>>

-------------------------------------------------------------------------------

Deliver(w) ==
    \/ BatchAccepted(w)
    \/ Accept(w)
    \/ AcceptLost(w)
    \/ AlbumBreaks(w)
    \/ MediaHopeless(w)
    \/ SendFails(w)
    \/ Refuse(w)

Mark(w) ==
    \/ MarkSent(w)
    \/ MarkFailed(w)
    \/ MarkRetry(w)
    \/ LeaseLost(w)

Erase(w) ==
    \/ DeleteAlerts(w)
    \/ StopErasing(w)
    \/ DeleteMessages(w)

Next ==
    \/ \E w \in Workers, m \in Messages : MarkDeleted(w, m)
    \/ \E m \in Messages : Expire(m)
    \/ \E w \in Workers, r \in Rows : Claim(w, r)
    \/ \E w \in Workers : Deliver(w) \/ Mark(w) \/ Interrupt(w) \/ Erase(w)
    \/ \E r \in Rows : LeaseExpires(r)
    \/ PurgeExpired

Spec == Init /\ [][Next]_vars

(***************************************************************************)
(* The loops run, deadlines pass, ORDER BY next_attempt_at starves no due  *)
(* row, and a row Telegram can accept is accepted in the end when it is    *)
(* tried again and again.                                                  *)
(***************************************************************************)
Fairness ==
    /\ \A w \in Workers : WF_vars(Deliver(w) \/ Mark(w))
    /\ \A r \in Rows : WF_vars(LeaseExpires(r))
    /\ \A r \in Rows : SF_vars(\E w \in Workers : Claim(w, r))
    /\ \A r \in Rows : SF_vars(\E w \in Workers : job[w] = r /\ Accept(w))

FairSpec == Spec /\ Fairness

-------------------------------------------------------------------------------

(***************************************************************************)
(* A row is recorded as sent only if Telegram accepted it: leases lost to  *)
(* another worker, late outcomes and spent budgets never turn an alert     *)
(* nobody received into a sent one.                                        *)
(***************************************************************************)
SentWasDelivered == \A r \in Rows : status[r] = "sent" => r \in delivered

(***************************************************************************)
(* Every duplicate is paid for: Telegram accepts a row, or the first files *)
(* of an album, more than once only after a crash, a lost answer, an album *)
(* that broke between two calls, a failed acknowledgement, a lease that    *)
(* expired under its worker, or a deletion that Telegram delivered again   *)
(* after an erasure had deleted the alert and before it deleted the        *)
(* message; and no more often than that.                                   *)
(***************************************************************************)
DuplicatesArePaidFor == \A r \in Rows : begun[r] <= 1 + faults[r] + requeued[r[1]]

(***************************************************************************)
(* A chunk is delivered only when each chunk before it of the same alert   *)
(* was delivered, was parked in the slow lane, or did not exist yet; only  *)
(* a media row can come into being late.                                   *)
(***************************************************************************)
ChunksInOrder ==
    \A q, r \in Rows :
        (q[1] = r[1] /\ q[2] < r[2] /\ q \notin MediaRows /\ r \in delivered)
            => q \in delivered \/ q \in everFailed

\* The place of a row in the abstract queue.  A deletion does not find a
\* message that expired or was erased any more; one whose alert alone was
\* erased it does.
LedgerOf(r) ==
    CASE status[r] \in {"pending", "processing"} -> "owed"
      [] status[r] = "failed" -> "parked"
      [] status[r] = "sent" -> "settled"
      [] OTHER -> IF r[1] \in stored \ expired THEN "none" ELSE "gone"

Queue == INSTANCE AlertQueue WITH
    Alerts <- Rows, ledger <- [r \in Rows |-> LedgerOf(r)], received <- delivered

(***************************************************************************)
(* The outbox implements AlertQueue: no interleaving of claims, lost       *)
(* leases, late outcomes, redelivered deletions, retention and the two     *)
(* halves of an erasure loses an alert that is still owed, records one as  *)
(* sent that Telegram does not have, or queues again one that was sent or  *)
(* purged, unless an erasure has deleted it and not yet its message.       *)
(***************************************************************************)
ImplementsAlertQueue == Queue!Spec

(***************************************************************************)
(* A row Telegram can accept is sent in the end, unless retention or an    *)
(* erasure removes it first: neither an outage longer than the fast lane   *)
(* nor an earlier chunk that is refused for ever holds it back.            *)
(***************************************************************************)
EveryAlertSettles ==
    \A r \in Rows :
        (status[r] = "pending" /\ r \notin unreachable) ~> status[r] \in {"sent", "absent"}
===============================================================================

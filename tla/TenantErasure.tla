---------------------------- MODULE TenantErasure ----------------------------
(***************************************************************************)
(* /delete_my_data against everything that writes a tenant's data.  One    *)
(* tenant with one Business connection; the shard workers that handle its  *)
(* updates (bot/internal/app), the erasure they run (bot/internal/erasure),*)
(* the media fetcher and the outbox worker.  All of them share the         *)
(* business.Service of module Connections and the per-tenant exclusion,    *)
(* used here through its promise, module TenantExclusion.                  *)
(*                                                                         *)
(* A goroutine p is at pc[p]; between two labels any other goroutine may   *)
(* run, a step may fail, and the process may die.                          *)
(***************************************************************************)
EXTENDS Naturals, FiniteSets

CONSTANTS
    Handlers,       \* shard workers of the poller
    Fetchers,       \* media fetch loops
    Workers,        \* outbox workers
    Conn,           \* the tenant's Business connection
    Owner,          \* the tenant
    NoOwner,        \* see Connections
    Items,          \* messages of the tenant's chats
    Codes,          \* confirmation codes
    None            \* no message, no code

Procs == Handlers \cup Fetchers \cup Workers

ASSUME ErasureAssumption ==
    /\ NoOwner # Owner
    /\ Handlers \cap (Fetchers \cup Workers) = {}
    /\ None \notin Items \cup Codes

VARIABLES
    allowed, row, turnedOff, entry, stale, disabledOwners,  \* of Connections
    pc, after, conn, got,                                   \* of Connections
    in, alone,      \* of TenantExclusion
    messages,       \* messages (and chat labels): the items saved
    media,          \* media_files: [Items -> MediaStatus]
    blobs,          \* items with a file under the tenant's media directory
    outbox,         \* notification_outbox: items with an alert, of any status
    request,        \* data_erasure_requests: [Codes -> status]
    expired,        \* codes past their expires_at
    item,           \* [Procs -> Items or None]: the message the unit is about
    code,           \* [Procs -> Codes or None]: the code submitted
    erased          \* history: an erasure completed and no enabled report of
                    \* the connection has been applied since

bizVars == <<allowed, row, turnedOff, entry, stale, disabledOwners>>
callVars == <<pc, after, conn, got>>
guardVars == <<in, alone>>
dataVars == <<messages, media, blobs, outbox>>
codeVars == <<request, expired>>
unitVars == <<item, code>>
vars == <<bizVars, callVars, guardVars, dataVars, codeVars, unitVars, erased>>

\* A row whose file is not there: still to be fetched, or given up.
MediaStatus == {"none", "pending", "stored"}
RequestStatus == {"none", "pending", "consumed", "completed"}

\* Where a unit of work stands under the exclusive side of the exclusion ...
EraseLabels == {"claim", "disableRows", "disableCache", "deleteAlerts", "unlink",
                "deleteMedia", "sweep", "deleteMessages", "deleteOthers", "complete"}
\* ... under the shared side, a resolution included ...
UnitLabels == {"recheck", "attach", "marking", "issue", "download", "markStored",
               "deliver", "acknowledge"}
\* ... and outside it.
OuterLabels == {"control", "capture", "answer", "mark", "awaitSave", "awaitMark",
                "awaitRequest", "awaitConfirm"}
Labels == EraseLabels \cup UnitLabels \cup OuterLabels

B == INSTANCE Connections WITH
        Conns <- {Conn}, Owners <- {Owner}, Claims <- [c \in {Conn} |-> {Owner}],
        Allowlists <- {{}}, MaxEntries <- 1

G == INSTANCE TenantExclusion WITH Tenants <- {Owner}, Acquisitions <- Procs

TypeOK ==
    /\ B!TypeOK
    /\ in \in [{Owner} -> SUBSET Procs] /\ alone \in [{Owner} -> SUBSET Procs]
    /\ messages \subseteq Items
    /\ media \in [Items -> MediaStatus]
    /\ blobs \subseteq Items
    /\ outbox \subseteq Items
    /\ request \in [Codes -> RequestStatus]
    /\ expired \subseteq Codes
    /\ item \in [Procs -> Items \cup {None}]
    /\ code \in [Procs -> Codes \cup {None}]
    /\ erased \in BOOLEAN

\* The tenant has connected the bot: the row is there and enabled, the cache
\* of the process just started is empty.
Init ==
    /\ B!InitWith([c \in {Conn} |-> [owner |-> Owner, on |-> TRUE]])
    /\ G!Init
    /\ messages = {}
    /\ media = [m \in Items |-> "none"]
    /\ blobs = {}
    /\ outbox = {}
    /\ request = [k \in Codes |-> "none"]
    /\ expired = {}
    /\ item = [p \in Procs |-> None]
    /\ code = [p \in Procs |-> None]
    /\ erased = FALSE

------------------------------------------------------------------------------
(* Control flow of one goroutine. *)

\* On to another label; the connection in hand is not used any more.
Goto(p, from, to) ==
    /\ pc[p] = from
    /\ B!Leave(p, to)

\* The unit of work is over: the goroutine forgets it and is free again.
Return(p) ==
    /\ B!Leave(p, "idle")
    /\ item' = [item EXCEPT ![p] = None]
    /\ code' = [code EXCEPT ![p] = None]

Inside(p) == p \in in[Owner]

\* ... and its deferred release runs, if it holds the exclusion.
ReleaseAndReturn(p) ==
    /\ IF Inside(p) THEN G!Leave(Owner, p) ELSE UNCHANGED guardVars
    /\ Return(p)

------------------------------------------------------------------------------
(* app.Handler: updates of the connection. *)

\* An update starts with the resolution of its connection, and `next' is what
\* the resolved connection is for. What the message says is decided where the
\* code looks at it, except for a confirmation, which carries its code.
StartUpdate(p, m, k, next) ==
    /\ B!CallResolve(p, "idle", Conn, next)
    /\ item' = [item EXCEPT ![p] = m]
    /\ code' = [code EXCEPT ![p] = k]
    /\ UNCHANGED <<guardVars, dataVars, codeVars, erased>>

ReceiveMessage(p, m) == StartUpdate(p, m, None, "control")
ReceiveConfirmation(p, k) == StartUpdate(p, None, k, "control")
ReceiveEdit(p, m) == StartUpdate(p, m, None, "capture")
ReceiveDeletion(p, m) == StartUpdate(p, m, None, "mark")

\* A refused or failed resolution ends the update, in or out of a save unit;
\* so does an applied connection report.
Abandon(p) ==
    /\ pc[p] = "ended"
    /\ ReleaseAndReturn(p)
    /\ UNCHANGED <<bizVars, dataVars, codeVars, erased>>

\* handleControlCommand: a command of somebody who is not the owner, and an
\* edit into a confirmation, are consumed.
ControlConsumes(p) ==
    /\ pc[p] = "control"
    /\ Return(p)
    /\ UNCHANGED <<bizVars, guardVars, dataVars, codeVars, erased>>

\* The owner's confirmation is never saved: it goes to the eraser.
ControlConfirms(p) ==
    /\ code[p] # None
    /\ Goto(p, "control", "awaitConfirm")
    /\ UNCHANGED <<bizVars, guardVars, dataVars, codeVars, unitVars, erased>>

\* A bare request through a disabled connection gets a code, unsaved.
ControlRequests(p) ==
    /\ code[p] = None /\ ~got[p].on
    /\ Goto(p, "control", "awaitRequest")
    /\ UNCHANGED <<bizVars, guardVars, dataVars, codeVars, unitVars, erased>>

\* Mutant: a confirmation is captured like any other message.
ControlPassesAll(p) ==
    /\ B!CallResolve(p, "control", Conn, "capture")
    /\ UNCHANGED <<guardVars, dataVars, codeVars, unitVars, erased>>

\* Everything else is a message to capture: saveMessage resolves again.
ControlPasses(p) ==
    /\ code[p] = None
    /\ B!CallResolve(p, "control", Conn, "capture")
    /\ UNCHANGED <<guardVars, dataVars, codeVars, unitVars, erased>>

\* saveMessage drops it: the connection is disabled or the quota is exhausted.
CaptureSkips(p) ==
    /\ pc[p] = "capture"
    /\ Return(p)
    /\ UNCHANGED <<bizVars, guardVars, dataVars, codeVars, erased>>

CaptureAdmitted(p) ==
    /\ got[p].on
    /\ Goto(p, "capture", "awaitSave")
    /\ UNCHANGED <<bizVars, guardVars, dataVars, codeVars, unitVars, erased>>

\* handleDeleted has no enabled gate.
MarkAdmitted(p) ==
    /\ Goto(p, "mark", "awaitMark")
    /\ UNCHANGED <<bizVars, guardVars, dataVars, codeVars, unitVars, erased>>

\* A context cancelled while waiting for the exclusion.
GiveUp(p) ==
    /\ pc[p] \in {"awaitSave", "awaitMark", "awaitRequest", "awaitConfirm"}
    /\ Return(p)
    /\ UNCHANGED <<bizVars, guardVars, dataVars, codeVars, erased>>

\* enterSave: the connection is resolved again under the shared side.
EnterSave(p) ==
    /\ G!EnterShared(Owner, p)
    /\ \/ B!CallResolve(p, "awaitSave", Conn, "recheck")
       \/ B!CallResolve(p, "awaitMark", Conn, "marking")
    /\ UNCHANGED <<dataVars, codeVars, unitVars, erased>>

\* rechecked: the save is skipped if the connection is disabled by now.
RecheckSkips(p) ==
    /\ pc[p] = "recheck" /\ ~got[p].on
    /\ ReleaseAndReturn(p)
    /\ UNCHANGED <<bizVars, dataVars, codeVars, erased>>

\* Mutant: the connection resolved before the exclusion is trusted.
SaveUnchecked(p) ==
    /\ Goto(p, "recheck", "attach")
    /\ messages' = messages \cup {item[p]}
    /\ UNCHANGED <<bizVars, guardVars, media, blobs, outbox, codeVars, unitVars, erased>>

\* messages.Save
Save(p) ==
    /\ got[p].on
    /\ Goto(p, "recheck", "attach")
    /\ messages' = messages \cup {item[p]}
    /\ UNCHANGED <<bizVars, guardVars, media, blobs, outbox, codeVars, unitVars, erased>>

\* saveMedia, with an attachment or without (none, or past the quota): a row
\* already there keeps its status. Then the release.
SaveMedia(p, attached) ==
    /\ pc[p] = "attach"
    /\ media' = [media EXCEPT ![item[p]] = IF attached /\ @ = "none" THEN "pending" ELSE @]
    /\ G!Leave(Owner, p)
    /\ Goto(p, "attach", "answer")
    /\ UNCHANGED <<bizVars, messages, blobs, outbox, codeVars, unitVars, erased>>

\* answerCommand: nothing to answer, or an answer that changes no state here, ...
AnswerNothing(p) ==
    /\ pc[p] = "answer"
    /\ Return(p)
    /\ UNCHANGED <<bizVars, guardVars, dataVars, codeVars, erased>>

\* ... or the owner's bare /delete_my_data.
AnswerRequests(p) ==
    /\ Goto(p, "answer", "awaitRequest")
    /\ UNCHANGED <<bizVars, guardVars, dataVars, codeVars, unitVars, erased>>

\* messages.MarkDeleted: the alert of a message that is found, in the same
\* transaction; an alert already there stays as it is.
MarkDeleted(p) ==
    /\ pc[p] = "marking"
    /\ outbox' = outbox \cup ({item[p]} \cap messages)
    /\ ReleaseAndReturn(p)
    /\ UNCHANGED <<bizVars, messages, media, blobs, codeVars, erased>>

\* A database error inside a unit of work: it ends there.
UnitFails(p) ==
    /\ pc[p] \in (UnitLabels \cup EraseLabels) \ {"disableRows", "disableCache"}
    /\ ReleaseAndReturn(p)
    /\ UNCHANGED <<bizVars, dataVars, codeVars, erased>>

------------------------------------------------------------------------------
(* erasure.Service.Request: under the shared side. *)

\* Mutant: the code is issued without waiting for the exclusion.
EnterRequestUnguarded(p) ==
    /\ Goto(p, "awaitRequest", "issue")
    /\ UNCHANGED <<bizVars, guardVars, dataVars, codeVars, unitVars, erased>>

EnterRequest(p) ==
    /\ G!EnterShared(Owner, p)
    /\ Goto(p, "awaitRequest", "issue")
    /\ UNCHANGED <<bizVars, dataVars, codeVars, unitVars, erased>>

\* Challenges.Issue: the tenant's one pending row is replaced. A code that has
\* left the table may be drawn again, which real codes do not do.
Issue(p, k) ==
    /\ pc[p] = "issue" /\ request[k] = "none"
    /\ request' = [j \in Codes |-> IF j = k THEN "pending"
                                   ELSE IF request[j] = "pending" THEN "none"
                                   ELSE request[j]]
    /\ expired' = expired \ ({k} \cup {j \in Codes : request[j] = "pending"})
    /\ ReleaseAndReturn(p)
    /\ UNCHANGED <<bizVars, dataVars, erased>>

\* ChallengeTTL elapses.
ExpireCode(k) ==
    /\ request[k] = "pending" /\ k \notin expired
    /\ expired' = expired \cup {k}
    /\ UNCHANGED <<bizVars, callVars, guardVars, dataVars, request, unitVars, erased>>

------------------------------------------------------------------------------
(* erasure.Service.Confirm: under the exclusive side to its last step. *)

\* Mutant: the claim is not covered by the exclusion.
EnterConfirmUnguarded(p) ==
    /\ in' = [in EXCEPT ![Owner] = @ \cup {p}]
    /\ alone' = [alone EXCEPT ![Owner] = @ \cup {p}]
    /\ Goto(p, "awaitConfirm", "claim")
    /\ UNCHANGED <<bizVars, dataVars, codeVars, unitVars, erased>>

EnterConfirm(p) ==
    /\ G!EnterExclusive(Owner, p)
    /\ Goto(p, "awaitConfirm", "claim")
    /\ UNCHANGED <<bizVars, dataVars, codeVars, unitVars, erased>>

\* Mutant: a completed request is run again.
ResumesCompleted(k) == request[k] \in {"consumed", "completed"} \/ (request[k] = "pending" /\ k \notin expired)

\* Claim grants a pending code that has not expired and resumes a consumed one.
Spendable(k) == request[k] = "consumed" \/ (request[k] = "pending" /\ k \notin expired)

\* Claim, then the first step of erase: DisableOwner.
Claim(p) ==
    LET k == code[p] IN
    /\ pc[p] = "claim" /\ Spendable(k)
    /\ request' = [request EXCEPT ![k] = IF @ = "pending" THEN "consumed" ELSE @]
    /\ B!CallDisableOwner(p, "claim", Owner, "deleteAlerts")
    /\ UNCHANGED <<expired, guardVars, dataVars, unitVars, erased>>

\* An unknown, expired or completed code deletes nothing.
ClaimRefused(p) ==
    /\ pc[p] = "claim" /\ ~Spendable(code[p])
    /\ ReleaseAndReturn(p)
    /\ UNCHANGED <<bizVars, dataVars, codeVars, erased>>

\* outbox.DeleteTenant, every status included.
DeleteAlerts(p) ==
    /\ Goto(p, "deleteAlerts", "unlink")
    /\ outbox' = {}
    /\ UNCHANGED <<bizVars, guardVars, messages, media, blobs, codeVars, unitVars, erased>>

\* media.EraseTenant: the file of each row that has one, ...
UnlinkFile(p, m) ==
    /\ Goto(p, "unlink", "unlink")
    /\ media[m] = "stored" /\ m \in blobs
    /\ blobs' = blobs \ {m}
    /\ UNCHANGED <<bizVars, guardVars, messages, media, outbox, codeVars, unitVars, erased>>

AllUnlinked(p) ==
    /\ \A m \in blobs : media[m] # "stored"
    /\ Goto(p, "unlink", "deleteMedia")
    /\ UNCHANGED <<bizVars, guardVars, dataVars, codeVars, unitVars, erased>>

\* ... then the rows, batch after batch, ...
DeleteMediaBatch(p, batch) ==
    /\ batch # {} /\ \A m \in batch : media[m] # "none"
    /\ Goto(p, "deleteMedia", "deleteMedia")
    /\ media' = [m \in Items |-> IF m \in batch THEN "none" ELSE media[m]]
    /\ UNCHANGED <<bizVars, guardVars, messages, blobs, outbox, codeVars, unitVars, erased>>

AllMediaDeleted(p) ==
    /\ \A m \in Items : media[m] = "none"
    /\ Goto(p, "deleteMedia", "sweep")
    /\ UNCHANGED <<bizVars, guardVars, dataVars, codeVars, unitVars, erased>>

\* Mutant: no sweep of the tenant's directory.
SweepNothing(p) ==
    /\ Goto(p, "sweep", "deleteMessages")
    /\ UNCHANGED <<bizVars, guardVars, dataVars, codeVars, unitVars, erased>>

\* ... then whatever is left in the tenant's directory.
Sweep(p) ==
    /\ Goto(p, "sweep", "deleteMessages")
    /\ blobs' = {}
    /\ UNCHANGED <<bizVars, guardVars, messages, media, outbox, codeVars, unitVars, erased>>

\* messages.DeleteTenant
DeleteMessages(p) ==
    /\ Goto(p, "deleteMessages", "deleteOthers")
    /\ messages' = {}
    /\ UNCHANGED <<bizVars, guardVars, media, blobs, outbox, codeVars, unitVars, erased>>

\* Challenges.DeleteOthers
DeleteOthers(p) ==
    /\ Goto(p, "deleteOthers", "complete")
    /\ request' = [k \in Codes |-> IF k = code[p] THEN request[k] ELSE "none"]
    /\ expired' = expired \cap {code[p]}
    /\ UNCHANGED <<bizVars, guardVars, dataVars, unitVars, erased>>

\* Challenges.Complete; the owner is then told that everything is gone.
Complete(p) ==
    /\ pc[p] = "complete"
    /\ request' = [request EXCEPT ![code[p]] = IF @ = "consumed" THEN "completed" ELSE @]
    /\ erased' = (Owner \in turnedOff)
    /\ ReleaseAndReturn(p)
    /\ UNCHANGED <<bizVars, dataVars, expired>>

------------------------------------------------------------------------------
(* media/fetch.Fetcher.ProcessTenant: one file, under the shared side. *)

FetchStarts(p, m) ==
    /\ media[m] = "pending"
    /\ G!EnterShared(Owner, p)
    /\ Goto(p, "idle", "download")
    /\ item' = [item EXCEPT ![p] = m]
    /\ UNCHANGED <<bizVars, dataVars, codeVars, code, erased>>

\* The file is published under the tenant's directory.
Download(p) ==
    /\ Goto(p, "download", "markStored")
    /\ blobs' = blobs \cup {item[p]}
    /\ UNCHANGED <<bizVars, guardVars, messages, media, outbox, codeVars, unitVars, erased>>

\* MarkStored updates the row if it is still there.
MarkStored(p) ==
    /\ pc[p] = "markStored"
    /\ media' = [media EXCEPT ![item[p]] = IF @ = "none" THEN @ ELSE "stored"]
    /\ ReleaseAndReturn(p)
    /\ UNCHANGED <<bizVars, messages, blobs, outbox, codeVars, erased>>

------------------------------------------------------------------------------
(* outbox.Worker.ProcessOne: shared from the claim to the acknowledgement. *)

ClaimAlert(p, m) ==
    /\ m \in outbox
    /\ G!EnterShared(Owner, p)
    /\ Goto(p, "idle", "deliver")
    /\ item' = [item EXCEPT ![p] = m]
    /\ UNCHANGED <<bizVars, dataVars, codeVars, code, erased>>

\* The alert is on its way to Telegram.
Deliver(p) ==
    /\ Goto(p, "deliver", "acknowledge")
    /\ UNCHANGED <<bizVars, guardVars, dataVars, codeVars, unitVars, erased>>

\* MarkSent: the row stays, and a redelivery remains possible.
MarkSent(p) ==
    /\ pc[p] = "acknowledge"
    /\ ReleaseAndReturn(p)
    /\ UNCHANGED <<bizVars, dataVars, codeVars, erased>>

------------------------------------------------------------------------------
(* business.Service, and the process itself. *)

\* An enabled report makes the data of a new capture possible.
StillErased == erased' = (erased /\ Owner \in turnedOff')

BusinessStep(p) ==
    /\ \/ B!ResolveStep(p)
       \/ B!ReportStep(p)
       \/ B!DisableStep(p)
       \/ B!CallFails(p)
       \/ \E on \in BOOLEAN : B!ReceiveReport(p, Conn, [owner |-> Owner, on |-> on])
    /\ StillErased
    /\ UNCHANGED <<guardVars, dataVars, codeVars, unitVars>>

CacheExpires ==
    /\ B!Expire(Conn)
    /\ UNCHANGED <<guardVars, dataVars, codeVars, unitVars, erased>>

\* The process dies anywhere and starts again.
Crash ==
    /\ B!Restart({})
    /\ in' = [t \in {Owner} |-> {}] /\ alone' = [t \in {Owner} |-> {}]
    /\ item' = [p \in Procs |-> None]
    /\ code' = [p \in Procs |-> None]
    /\ UNCHANGED <<dataVars, codeVars, erased>>

HandlerStep(p) ==
    \/ \E m \in Items : ReceiveMessage(p, m)
    \/ \E k \in Codes : ReceiveConfirmation(p, k)
    \/ \E m \in Items : ReceiveEdit(p, m)
    \/ \E m \in Items : ReceiveDeletion(p, m)
    \/ Abandon(p)
    \/ ControlConsumes(p)
    \/ ControlConfirms(p)
    \/ ControlRequests(p)
    \/ ControlPasses(p)
    \/ CaptureSkips(p)
    \/ CaptureAdmitted(p)
    \/ MarkAdmitted(p)
    \/ GiveUp(p)
    \/ EnterSave(p)
    \/ RecheckSkips(p)
    \/ Save(p)
    \/ \E attached \in BOOLEAN : SaveMedia(p, attached)
    \/ AnswerNothing(p)
    \/ AnswerRequests(p)
    \/ MarkDeleted(p)

ErasureStep(p) ==
    \/ EnterRequest(p)
    \/ \E k \in Codes : Issue(p, k)
    \/ EnterConfirm(p)
    \/ Claim(p)
    \/ ClaimRefused(p)
    \/ DeleteAlerts(p)
    \/ \E m \in Items : UnlinkFile(p, m)
    \/ AllUnlinked(p)
    \/ \E batch \in SUBSET Items : DeleteMediaBatch(p, batch)
    \/ AllMediaDeleted(p)
    \/ Sweep(p)
    \/ DeleteMessages(p)
    \/ DeleteOthers(p)
    \/ Complete(p)

FetcherStep(p) ==
    \/ \E m \in Items : FetchStarts(p, m)
    \/ Download(p)
    \/ MarkStored(p)

WorkerStep(p) ==
    \/ \E m \in Items : ClaimAlert(p, m)
    \/ Deliver(p)
    \/ MarkSent(p)

Next ==
    \/ \E p \in Handlers : HandlerStep(p) \/ ErasureStep(p) \/ BusinessStep(p)
    \/ \E p \in Fetchers : FetcherStep(p)
    \/ \E p \in Workers : WorkerStep(p)
    \/ \E p \in Procs : UnitFails(p)
    \/ \E k \in Codes : ExpireCode(k)
    \/ CacheExpires
    \/ Crash

Spec == Init /\ [][Next]_vars

------------------------------------------------------------------------------
\* Nothing of what capture produced is left, and nothing is on its way out.
TenantIsEmpty ==
    /\ messages = {} /\ blobs = {} /\ outbox = {}
    /\ \A m \in Items : media[m] = "none"
    /\ \A p \in Procs : pc[p] \notin {"attach", "download", "markStored", "deliver", "acknowledge"}

(***************************************************************************)
(* What the confirmation message tells the owner (erasure.go, "The whole   *)
(* call runs under the tenant's exclusive exclusion"): from the completion *)
(* on, and until an enabled report of the connection is applied, nothing   *)
(* of the tenant is stored and nothing is being stored or delivered,       *)
(* however the handlers, the fetcher, the outbox worker, failures and      *)
(* crashes interleave with it.                                             *)
(***************************************************************************)
ErasedMeansGone == erased => TenantIsEmpty

(***************************************************************************)
(* "The second caller waits, then reads the state the first one left       *)
(* behind instead of starting a second erasure alongside the first": two   *)
(* confirmations of a tenant never delete at the same time, and no unit of *)
(* work runs beside one.                                                   *)
(***************************************************************************)
OneEraserAtATime ==
    \A p, q \in Procs :
        pc[p] \in EraseLabels /\ pc[q] \in EraseLabels \cup UnitLabels => p = q

(***************************************************************************)
(* erasure.go on Request: no pending row may land "between DeleteOthers    *)
(* and Complete -- a row the owner would then hold after being told        *)
(* everything was gone". When a request completes, it is the only one.     *)
(***************************************************************************)
CompletionLeavesOnlyTheReceipt ==
    [][\A k \in Codes :
           request[k] # "completed" /\ request'[k] = "completed"
               => \A j \in Codes \ {k} : request'[j] = "none"]_vars

(***************************************************************************)
(* "a replay deletes nothing": captured data only disappears while some    *)
(* confirmed request is unfinished, never on behalf of a completed one.    *)
(***************************************************************************)
OnlyAnUnfinishedErasureDeletes ==
    [][(~ messages \subseteq messages' \/ ~ blobs \subseteq blobs')
           => \E p \in Procs : pc[p] \in EraseLabels /\ request[code[p]] = "consumed"]_vars

==============================================================================

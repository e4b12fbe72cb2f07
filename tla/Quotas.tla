-------------------------------- MODULE Quotas --------------------------------
(***************************************************************************)
(* quotas.Tracker (bot/internal/quotas): the in-memory ledger of one       *)
(* tenant, the table it is reconciled with, and the goroutines that ask    *)
(* for admission, write, and read the table with the mutex released.       *)
(*                                                                         *)
(* Tenants share nothing but the bound on the map: another tenant may      *)
(* evict this one at any moment.  Bytes are counted in files of one unit.  *)
(* The clock is left out: whether a memoised refusal is still fresh, and   *)
(* when a capture leaves the sliding window, is left open.                 *)
(***************************************************************************)
EXTENDS Integers, FiniteSets

CONSTANTS
    Shards,             \* goroutines that capture: messages and media_files
    Fetcher,            \* the goroutine that downloads: media_bytes
    Quotas,             \* the volume quotas of the instance
    Limit,              \* [quota -> MaxMessages, MaxMediaFiles, MaxMediaBytes]
    CapturesPerMinute,
    WarnPercent,
    MaxOpen             \* bound: admissions granted without a seeded ledger

Workers == Shards \cup {Fetcher}

\* Limits.Validate: no quota is unlimited, and the alert precedes the limit.
Validate ==
    /\ Limit \in [Quotas -> Nat \ {0}]
    /\ CapturesPerMinute \in Nat \ {0}
    /\ WarnPercent \in 1..99

ASSUME QuotasAssumption ==
    /\ IsFiniteSet(Shards) /\ Fetcher \notin Shards
    /\ {"messages", "media_bytes"} \subseteq Quotas
    /\ Quotas \subseteq {"messages", "media_files", "media_bytes"}
    /\ Validate
    /\ MaxOpen \in Nat

VARIABLES
    rows,       \* the tables: [Quotas -> what the source would count]
    known,      \* the tenant is in the map
    seeded,
    used,       \* the ledger: [Quotas -> Nat]
    rate,       \* captures inside the sliding window
    warned,     \* quotas whose alert was given
    blocked,    \* quotas with a memoised refusal
    pc,         \* [Workers -> Labels]
    kind,       \* the quota the call is about
    resume,     \* where the caller of resync continues
    read,       \* the counts resync has read and not applied yet
    open        \* history: units granted while the ledger was not seeded

ledgerVars == <<known, seeded, used, rate, warned, blocked>>
callVars == <<pc, kind, resume, read>>
vars == <<rows, ledgerVars, callVars, open>>

(***************************************************************************)
(* idle;  volume    admitVolume, before its first lock;                    *)
(* count  resync, reading the source;  apply  resync, before its lock;     *)
(* decide, recheck  admitVolume, after a resync to seed, to verify;        *)
(* admitted  before the write;  stored, add  AddMediaBytes.                *)
(***************************************************************************)
Labels == {"idle", "volume", "count", "apply", "decide", "recheck", "admitted",
           "stored", "add"}

Zero == [k \in Quotas |-> 0]
SomeKind == CHOOSE k \in Quotas : TRUE

TypeOK ==
    /\ rows \in [Quotas -> Nat] /\ used \in [Quotas -> Nat]
    /\ known \in BOOLEAN /\ seeded \in BOOLEAN
    /\ ~known => ~seeded /\ used = Zero
    /\ rate \in 0..CapturesPerMinute
    /\ warned \subseteq Quotas /\ blocked \subseteq Quotas
    /\ pc \in [Workers -> Labels]
    /\ kind \in [Workers -> Quotas]
    /\ resume \in [Workers -> {"idle", "decide", "recheck", "add"}]
    /\ read \in [Workers -> [Quotas -> Nat]]
    /\ open \in 0..MaxOpen

Init ==
    /\ rows = Zero
    /\ known = FALSE /\ seeded = FALSE /\ used = Zero
    /\ rate = 0 /\ warned = {} /\ blocked = {}
    /\ pc = [w \in Workers |-> "idle"]
    /\ kind = [w \in Workers |-> SomeKind]
    /\ resume = [w \in Workers |-> "idle"]
    /\ read = [w \in Workers |-> Zero]
    /\ open = 0

-------------------------------------------------------------------------------
(* Steps of a call. *)

Goto(w, label) == pc' = [pc EXCEPT ![w] = label]

\* The call is over.
Return(w) ==
    /\ Goto(w, "idle")
    /\ kind' = [kind EXCEPT ![w] = SomeKind]
    /\ UNCHANGED <<resume, read>>

\* The call goes on with the same quota.
Continue(w, label) ==
    /\ Goto(w, label)
    /\ UNCHANGED <<kind, resume, read>>

\* The mutex is released and the source is read, to continue at `label'.
StartResync(w, label) ==
    /\ Goto(w, "count")
    /\ resume' = [resume EXCEPT ![w] = label]
    /\ UNCHANGED <<kind, read>>

warnThreshold(limit) ==
    (limit \div 100) * WarnPercent + ((limit % 100) * WarnPercent) \div 100

AtThreshold(k, n) == n >= warnThreshold(Limit[k])

\* Mutant: the admission is granted and not counted.
AllowUncounted(w, k) ==
    /\ warned' = IF AtThreshold(k, used[k]) THEN warned \cup {k} ELSE warned
    /\ Continue(w, "admitted")
    /\ UNCHANGED <<rows, seeded, used, rate, open>>

\* allowLocked: a unit is reserved (bytes are added after the download) and
\* the alert fires when the threshold is reached.
Allow(w, k) ==
    LET n == IF k = "media_bytes" THEN used[k] ELSE used[k] + 1 IN
    /\ used' = [used EXCEPT ![k] = n]
    /\ warned' = IF AtThreshold(k, n) THEN warned \cup {k} ELSE warned
    /\ seeded \/ open < MaxOpen
    /\ open' = IF seeded THEN open ELSE open + 1
    /\ Continue(w, "admitted")
    /\ UNCHANGED <<rows, seeded, rate>>

-------------------------------------------------------------------------------
(* Admission.  tenantLocked puts the tenant into the map at every lock.    *)

\* Mutant: the window is not asked.
AdmitCaptureUnmetered(w) ==
    /\ pc[w] = "idle" /\ w \in Shards
    /\ known' = TRUE
    /\ rate' = rate + 1
    /\ Goto(w, "volume")
    /\ kind' = [kind EXCEPT ![w] = "messages"]
    /\ UNCHANGED <<rows, seeded, used, warned, blocked, resume, read, open>>

\* AdmitCapture: the sliding window has room; the volume is checked under a
\* second lock.
AdmitCapture(w) ==
    /\ pc[w] = "idle" /\ w \in Shards
    /\ known' = TRUE
    /\ rate < CapturesPerMinute /\ rate' = rate + 1
    /\ Goto(w, "volume")
    /\ kind' = [kind EXCEPT ![w] = "messages"]
    /\ UNCHANGED <<rows, seeded, used, warned, blocked, resume, read, open>>

\* A capture leaves the window (pruneBefore).
Prune ==
    /\ rate > 0 /\ rate' = rate - 1
    /\ UNCHANGED <<rows, known, seeded, used, warned, blocked, callVars, open>>

\* AdmitMediaFile, and AdmitMediaBytes by the fetcher: no rate.
AdmitMedia(w, k) ==
    /\ pc[w] = "idle"
    /\ k \in Quotas \ {"messages"}
    /\ (k = "media_bytes") <=> (w = Fetcher)
    /\ Goto(w, "volume")
    /\ kind' = [kind EXCEPT ![w] = k]
    /\ UNCHANGED <<rows, ledgerVars, resume, read, open>>

\* admitVolume, first lock: the ledger has to be seeded.
NeedsSeed(w) ==
    /\ pc[w] = "volume" /\ ~seeded
    /\ known' = TRUE
    /\ StartResync(w, "decide")
    /\ UNCHANGED <<rows, seeded, used, rate, warned, blocked, open>>

\* The ledger has room; or it could not be seeded, which fails open.
Admit(w) ==
    LET k == kind[w] IN
    /\ \/ pc[w] = "volume" /\ seeded
       \/ pc[w] = "decide"
    /\ ~seeded \/ used[k] < Limit[k]
    /\ known' = TRUE
    /\ Allow(w, k)
    /\ UNCHANGED blocked

Over(w) == pc[w] \in {"volume", "decide"} /\ seeded /\ used[kind[w]] >= Limit[kind[w]]

\* Over quota, and a refusal is memoised that is less than a minute old.
RefuseMemoised(w) ==
    /\ Over(w) /\ kind[w] \in blocked
    /\ Return(w)
    /\ UNCHANGED <<rows, ledgerVars, open>>

\* Over quota by the ledger and no fresh memo: ask the source first.
Verify(w) ==
    /\ Over(w)
    /\ StartResync(w, "recheck")
    /\ UNCHANGED <<rows, ledgerVars, open>>

\* The source has brought the ledger back under the limit.
AdmitVerified(w) ==
    LET k == kind[w] IN
    /\ pc[w] = "recheck"
    /\ ~seeded \/ used[k] < Limit[k]
    /\ known' = TRUE
    /\ blocked' = blocked \ {k}
    /\ Allow(w, k)

\* A verified refusal: memoised, and always alerted.
RefuseVerified(w) ==
    LET k == kind[w] IN
    /\ pc[w] = "recheck" /\ seeded /\ used[k] >= Limit[k]
    /\ blocked' = blocked \cup {k}
    /\ warned' = warned \cup {k}
    /\ Return(w)
    /\ UNCHANGED <<rows, known, seeded, used, rate, open>>

-------------------------------------------------------------------------------
(* resync: the queries without the mutex, then one update under it.      *)

\* What the three queries of the repositories answer at this moment.
UsageSource == rows

\* The queries answer.  They are one step: each is about one quota, and what
\* happens to a quota does not depend on another's count.
Count(w) ==
    /\ pc[w] = "count"
    /\ read' = [read EXCEPT ![w] = UsageSource]
    /\ Goto(w, "apply")
    /\ UNCHANGED <<rows, ledgerVars, kind, resume, open>>

\* A query fails: the ledger is left as it is.
CountFails(w) ==
    /\ pc[w] = "count"
    /\ Goto(w, resume[w])
    /\ resume' = [resume EXCEPT ![w] = "idle"]
    /\ read' = [read EXCEPT ![w] = Zero]
    /\ UNCHANGED <<rows, ledgerVars, kind, open>>

\* The source overwrites the ledger, whatever was admitted since it was read.
Reconciled(w) == read[w]

\* Mutant: a memoised refusal outlives the usage that caused it.
StillBlockedForever(n) == blocked

\* Refusals and alerts that the new usage has made stale are dropped.
StillBlocked(n) == {k \in blocked : n[k] >= Limit[k]}
StillWarned(n) == {k \in warned : AtThreshold(k, n[k])}

Apply(w) ==
    LET n == Reconciled(w) IN
    /\ pc[w] = "apply"
    /\ Goto(w, resume[w])
    /\ resume' = [resume EXCEPT ![w] = "idle"]
    /\ read' = [read EXCEPT ![w] = Zero]
    /\ IF known
       THEN /\ used' = n /\ seeded' = TRUE
            /\ blocked' = StillBlocked(n) /\ warned' = StillWarned(n)
       ELSE UNCHANGED <<used, seeded, blocked, warned>>  \* evicted meanwhile
    /\ UNCHANGED <<rows, known, rate, kind, open>>

-------------------------------------------------------------------------------
(* What the caller does with an admission. *)

\* A new row is committed.
Write(w) ==
    /\ pc[w] = "admitted"
    /\ rows' = [rows EXCEPT ![kind[w]] = @ + 1]
    /\ IF w = Fetcher THEN Continue(w, "stored") ELSE Return(w)
    /\ UNCHANGED <<ledgerVars, open>>

\* Nothing new: an edit, a redelivery, a save skipped or failed.
WriteNothing(w) ==
    /\ pc[w] = "admitted"
    /\ Return(w)
    /\ UNCHANGED <<rows, ledgerVars, open>>

\* AddMediaBytes, first lock.
StartAdd(w) ==
    /\ pc[w] = "stored"
    /\ known' = TRUE
    /\ IF seeded THEN Continue(w, "add") ELSE StartResync(w, "add")
    /\ UNCHANGED <<rows, seeded, used, rate, warned, blocked, open>>

\* AddMediaBytes, last lock.
AddMediaBytes(w) ==
    LET n == used["media_bytes"] + 1 IN
    /\ pc[w] = "add"
    /\ known' = TRUE
    /\ used' = [used EXCEPT !["media_bytes"] = n]
    /\ warned' = IF AtThreshold("media_bytes", n) THEN warned \cup {"media_bytes"} ELSE warned
    /\ Return(w)
    /\ UNCHANGED <<rows, seeded, rate, blocked, open>>

-------------------------------------------------------------------------------
(* What happens behind the tracker's back. *)

\* Retention, or an erasure.
Shrink(k, n) ==
    /\ n < rows[k]
    /\ rows' = [rows EXCEPT ![k] = n]
    /\ UNCHANGED <<ledgerVars, callVars, open>>

\* The ledger is forgotten.
Forget ==
    /\ known' = FALSE /\ seeded' = FALSE /\ used' = Zero
    /\ rate' = 0 /\ warned' = {} /\ blocked' = {}

\* evictLocked: the map is full of other tenants.
Evict ==
    /\ known
    /\ Forget
    /\ UNCHANGED <<rows, callVars, open>>

\* The process starts again.
Restart ==
    /\ Forget
    /\ pc' = [w \in Workers |-> "idle"]
    /\ kind' = [w \in Workers |-> SomeKind]
    /\ resume' = [w \in Workers |-> "idle"]
    /\ read' = [w \in Workers |-> Zero]
    /\ UNCHANGED <<rows, open>>

-------------------------------------------------------------------------------

Asks(w) == AdmitCapture(w) \/ \E k \in Quotas : AdmitMedia(w, k)

Proceeds(w) ==
    \/ NeedsSeed(w) \/ Admit(w) \/ RefuseMemoised(w) \/ Verify(w)
    \/ AdmitVerified(w) \/ RefuseVerified(w)
    \/ Count(w) \/ CountFails(w) \/ Apply(w)
    \/ Write(w) \/ WriteNothing(w) \/ StartAdd(w) \/ AddMediaBytes(w)

Next ==
    \/ \E w \in Workers : Asks(w) \/ Proceeds(w)
    \/ Prune
    \/ \E k \in Quotas : \E n \in 0..rows[k] : Shrink(k, n)
    \/ Evict
    \/ Restart

Spec == Init /\ [][Next]_vars

-------------------------------------------------------------------------------

(***************************************************************************)
(* How far a tenant can get past a limit: the ledger is overwritten by     *)
(* counts that miss what was admitted since they were read, and each       *)
(* goroutine can hold one such count, so the rows stay within the limit    *)
(* once per goroutine, and one unit that no count saw.  Units granted      *)
(* without a seeded ledger (fail open) come on top.                        *)
(***************************************************************************)
OvershootBounded ==
    \A k \in Quotas : rows[k] <= Cardinality(Workers) * Limit[k] + 1 + open

(***************************************************************************)
(* The operator hears of a saturated tenant before captures are dropped    *)
(* silently: a memoised refusal stands only while its alert does, whatever *)
(* a resync, an eviction or another goroutine did in between.              *)
(***************************************************************************)
NoSilentDrop == blocked \subseteq warned

(***************************************************************************)
(* What the package comment says of the message and media-file counters:   *)
(* they move under the lock, so there is no overshoot.                     *)
(***************************************************************************)
NoOvershoot ==
    \A k \in Quotas \ {"media_bytes"} : rows[k] <= Limit[k] + open
===============================================================================

---------------------------- MODULE MediaLifecycle ----------------------------
(***************************************************************************)
(* The attachments of one tenant: the catalogue (media_files), the blobs   *)
(* on disk, and the two loops of the process that move them - the fetcher  *)
(* that downloads what is pending and the daily retention pass that        *)
(* unlinks, writes off, requeues and sweeps.  Both hold the shared side of *)
(* the tenant's exclusion, so nothing but the database and the filesystem  *)
(* orders them, and those two cannot be committed together.                *)
(*                                                                         *)
(* Every database statement and every system call on a blob is a step of   *)
(* its own; what a loop read earlier (a batch of pending rows, a page of   *)
(* the catalogue, a batch of paths) is kept as it was read.  Time advances *)
(* in ticks, TicksPerDay to the UTC day that names a storage directory.    *)
(***************************************************************************)
EXTENDS Integers, FiniteSets

CONSTANTS
    Rows,           \* ids of media_files, in the order of the serial: 1..n
    Captured,       \* those saved when the model starts
    Uids,           \* Telegram's file_unique_id of a content: 1..m
    MaxTime,        \* bound: the last tick
    TicksPerDay,
    DefaultRetention, \* of a new account holder, in ticks
    Retentions,     \* the values /retention may set, in ticks
    OrphanGrace,    \* age from which an unreferenced or temporary file goes
    PendingMaxAge,  \* age from which a download is given up
    PurgedRowGrace, \* how long a purged row stays past its retention
    MaxFlight,      \* ticks one download may take, MarkStored included
    BatchSize,      \* batchSize and pathBatch
    MaxFilesPerRun, \* rows, and files, that one run reconciles
    MaxEvents       \* bound: crashes, failed phases, refused unlinks, repeated
                    \* deliveries and /retention commands of a behaviour

ASSUME IdsAreNumbers ==
    /\ IsFiniteSet(Rows) /\ Rows \subseteq Nat \ {0}
    /\ IsFiniteSet(Uids) /\ Uids = 1 .. Cardinality(Uids)
ASSUME BoundsArePositive ==
    /\ MaxTime \in Nat
    /\ TicksPerDay \in Nat \ {0}
    /\ BatchSize \in Nat \ {0}
    /\ MaxFilesPerRun \in Nat \ {0}
    /\ MaxEvents \in Nat
    /\ Retentions \subseteq Nat /\ DefaultRetention \in Nat
    /\ PendingMaxAge \in Nat /\ PurgedRowGrace \in Nat
(* A download (three attempts of a minute, then one statement) is over long *)
(* before the day that protects what it writes has passed.                  *)
ASSUME GraceOutlastsADownload ==
    /\ MaxFlight \in Nat /\ OrphanGrace \in Nat
    /\ MaxFlight < OrphanGrace

VARIABLES
    clock,
    retention,  \* users.retention_days
    rows,       \* the table
    disk,       \* the blobs at their final path, by time of last write
    leftover,   \* temporary files a crash left behind, by time of last write
    fpc, fqueue, fpath, fbegin, ftemp,              \* the fetcher
    ppc, pret, pnow, page, cand, cur, scan, more,   \* the retention pass
    rowCursor, pathCursor,                          \* fields of the Purger
    events

fetchVars == <<fpc, fqueue, fpath, fbegin, ftemp>>
purgeVars == <<ppc, pret, pnow, page, cand, cur, scan, more>>
cursors == <<rowCursor, pathCursor>>
vars == <<clock, retention, rows, disk, leftover, fetchVars, purgeVars, cursors, events>>

Time == 0 .. MaxTime
Days == 0 .. (MaxTime \div TicksPerDay)
Day(t) == t \div TicksPerDay

(* relPath: the content's key under the directory of the day *)
Paths == Uids \X Days
NoPath == <<0, 0>>
Gone == -1

NoRow == [st |-> "none", uid |-> 0, path |-> NoPath, created |-> 0, updated |-> 0]
NewRow(u) == [st |-> "pending", uid |-> u, path |-> NoPath, created |-> clock, updated |-> clock]
DeletedRow == [NoRow EXCEPT !.st = "deleted"]

Exists(r) == rows[r].st \notin {"none", "deleted"}
OnDisk(p) == disk[p] # Gone
Referenced(p) == \E r \in Rows : rows[r].path = p
Expired(r, ret, now) == rows[r].created + ret < now

(* The first n elements of S in the order of key: a LIMIT with ORDER BY.   *)
First(n, S, key(_)) == {x \in S : Cardinality({y \in S : key(y) < key(x)}) < n}
Lowest(S, key(_)) == CHOOSE x \in S : \A y \in S : key(x) <= key(y)
Least(a, b) == IF a < b THEN a ELSE b

-----------------------------------------------------------------------------
(* The statements on media_files.  Each is an UPDATE or DELETE by id.      *)

Marked(r, st, p) ==
    [rows EXCEPT ![r].st = st, ![r].path = p, ![r].updated = clock]
MarkStored(r, p) == IF Exists(r) THEN rows' = Marked(r, "stored", p)
                                 ELSE UNCHANGED rows
MarkPurged(r) == IF Exists(r) THEN rows' = Marked(r, "purged", NoPath)
                              ELSE UNCHANGED rows
MarkPendingRetry(r) == IF Exists(r) THEN rows' = Marked(r, "pending", NoPath)
                                    ELSE UNCHANGED rows
Delete(S) == rows' = [r \in Rows |-> IF r \in S THEN DeletedRow ELSE rows[r]]

(* Save is an upsert: a new attachment gets the next id. *)
Save(r, u) ==
    /\ rows[r].st = "none"
    /\ \A q \in Rows : q < r => rows[q].st # "none"
    /\ rows' = [rows EXCEPT ![r] = NewRow(u)]
    /\ UNCHANGED <<clock, retention, disk, leftover, fetchVars, purgeVars, cursors, events>>

(* Mutant: a redelivery starts the attachment over. *)
SaveStartsOver(r, u) ==
    /\ Exists(r) /\ events < MaxEvents
    /\ events' = events + 1
    /\ rows' = [rows EXCEPT ![r] = [NewRow(u) EXCEPT !.created = rows[r].created]]
    /\ UNCHANGED <<clock, retention, disk, leftover, fetchVars, purgeVars, cursors>>

(* A redelivery or an edit refreshes what Telegram says of the attachment  *)
(* and leaves its status and path alone.                                   *)
SaveAgain(r, u) ==
    /\ Exists(r) /\ events < MaxEvents
    /\ events' = events + 1
    /\ rows' = [rows EXCEPT ![r].uid = u, ![r].updated = clock]
    /\ UNCHANGED <<clock, retention, disk, leftover, fetchVars, purgeVars, cursors>>

(* /retention *)
SetRetentionDays(d) ==
    /\ d # retention /\ events < MaxEvents
    /\ retention' = d
    /\ events' = events + 1
    /\ UNCHANGED <<clock, rows, disk, leftover, fetchVars, purgeVars, cursors>>

(* Time passes, but no download takes longer than MaxFlight. *)
Tick ==
    /\ clock < MaxTime
    /\ fpc # "idle" => clock - fbegin < MaxFlight
    /\ clock' = clock + 1
    /\ UNCHANGED <<retention, rows, disk, leftover, fetchVars, purgeVars, cursors, events>>

-----------------------------------------------------------------------------
(* The fetcher.  fqueue is the batch ListPending returned; fpc is "idle"   *)
(* between two files, "temp" while the temporary file is written, "mark"   *)
(* once the final path holds the content.                                  *)

ById(e) == e.id
FetchHead == Lowest(fqueue, ById)
FetchVarsReset == fpc' = "idle" /\ fpath' = NoPath /\ fbegin' = 0 /\ ftemp' = FALSE
Dequeue == fqueue' = fqueue \ {FetchHead} /\ FetchVarsReset

FetchList ==
    /\ fqueue = {}
    /\ fqueue' = First(BatchSize,
                       {[id |-> r, uid |-> rows[r].uid] : r \in {q \in Rows : rows[q].st = "pending"}},
                       ById)
    /\ UNCHANGED <<clock, retention, rows, disk, leftover, fpc, fpath, fbegin, ftemp,
                   purgeVars, cursors, events>>

(* Download up to its first write: the path is of the day it is, and a     *)
(* file that is already there is reused.                                   *)
FetchStart ==
    /\ fpc = "idle" /\ fqueue # {}
    /\ LET p == <<FetchHead.uid, Day(clock)>> IN
        /\ fpath' = p
        /\ fpc' = IF OnDisk(p) THEN "mark" ELSE "temp"
        /\ ftemp' = ~OnDisk(p)
    /\ fbegin' = clock
    /\ UNCHANGED <<clock, retention, rows, disk, leftover, fqueue, purgeVars, cursors, events>>

(* os.Rename; the time of last write is the temporary file's. *)
FetchPublish ==
    /\ fpc = "temp" /\ ftemp
    /\ disk' = [disk EXCEPT ![fpath] = fbegin]
    /\ fpc' = "mark" /\ ftemp' = FALSE
    /\ UNCHANGED <<clock, retention, rows, leftover, fqueue, fpath, fbegin,
                   purgeVars, cursors, events>>

(* MarkStored; a row that is gone by now is an error that is only logged.  *)
FetchMark ==
    /\ fpc = "mark"
    /\ MarkStored(FetchHead.id, fpath)
    /\ Dequeue
    /\ UNCHANGED <<clock, retention, disk, leftover, purgeVars, cursors, events>>

(* The quota, getFile or the download itself refuses for good.  A row that *)
(* is gone ends the batch.                                                 *)
FetchGivesUp ==
    /\ fpc \in {"idle", "temp"} /\ fqueue # {}
    /\ MarkPurged(FetchHead.id)
    /\ fqueue' = IF Exists(FetchHead.id) THEN fqueue \ {FetchHead} ELSE {}
    /\ FetchVarsReset
    /\ UNCHANGED <<clock, retention, disk, leftover, purgeVars, cursors, events>>

(* Anything else that goes wrong leaves the row pending: getFile or the    *)
(* download fails for now, the rename, or the statement that marks it.     *)
FetchPostponed ==
    /\ fqueue # {}
    /\ Dequeue
    /\ UNCHANGED <<clock, retention, rows, disk, leftover, purgeVars, cursors, events>>

-----------------------------------------------------------------------------
(* The retention pass: runTenant's four phases, in their order.            *)

ListTenantsForRetention ==
    /\ ppc = "idle"
    /\ ppc' = "expired" /\ pret' = retention
    /\ cur' = 0 /\ more' = TRUE
    /\ UNCHANGED <<clock, retention, rows, disk, leftover, fetchVars,
                   pnow, page, cand, scan, cursors, events>>

PageOf(S) == {[id |-> r, path |-> rows[r].path] : r \in S}
PageHead == Lowest(page, ById)
PageTail == page \ {PageHead}

(* What a phase leaves to the next one: nothing but the retention value    *)
(* and, from run to run, its cursor.                                       *)
EnterStale ==
    /\ ppc' = "stale"
    /\ page' = {} /\ cur' = 0 /\ more' = FALSE /\ UNCHANGED <<pret, pnow, cand, scan>>
EnterRows ==    \* the expiry is computed once, on entry
    /\ ppc' = "rows" /\ pnow' = clock
    /\ page' = {} /\ cur' = rowCursor /\ more' = TRUE /\ UNCHANGED <<pret, cand, scan>>
EnterDisk ==
    /\ ppc' = "disk" /\ pret' = 0 /\ pnow' = 0
    /\ page' = {} /\ cur' = pathCursor /\ more' = FALSE /\ scan' = 0 /\ UNCHANGED cand
PurgeIdle ==
    /\ ppc' = "idle" /\ pret' = 0 /\ pnow' = 0
    /\ page' = {} /\ cand' = {} /\ cur' = 0 /\ scan' = 0 /\ more' = FALSE

(* purgeExpired, with the cursor at "at" and "rest" of its page to do: the *)
(* phase ends with a page that was not full.                               *)
ExpiredGoesOn(rest, full, at) ==
    IF rest = {} /\ ~full
    THEN EnterStale
    ELSE /\ ppc' = "expired"
         /\ page' = rest /\ more' = full /\ cur' = at
         /\ UNCHANGED <<pret, pnow, cand, scan>>

ListExpiredStored ==
    /\ ppc = "expired" /\ page = {}
    /\ LET P == First(BatchSize,
                      PageOf({r \in Rows : /\ rows[r].st = "stored" /\ r > cur
                                           /\ Expired(r, pret, clock)}), ById)
       IN ExpiredGoesOn(P, Cardinality(P) = BatchSize, cur)
    /\ UNCHANGED <<clock, retention, rows, disk, leftover, fetchVars, cursors, events>>

(* removeFiles: the path is the one the page was read with *)
UnlinkExpired ==
    /\ ppc = "expired" /\ page # {}
    /\ disk' = [disk EXCEPT ![PageHead.path] = Gone]
    /\ ppc' = "markPurged"
    /\ UNCHANGED <<clock, retention, rows, leftover, fetchVars,
                   pret, pnow, page, cand, cur, scan, more, cursors, events>>

(* A refusal leaves the row as it is, and the cursor steps over it. *)
RefuseExpired ==
    /\ ppc = "expired" /\ page # {} /\ events < MaxEvents
    /\ ExpiredGoesOn(PageTail, more, PageHead.id)
    /\ events' = events + 1
    /\ UNCHANGED <<clock, retention, rows, disk, leftover, fetchVars, cursors>>

MarkExpiredPurged ==
    /\ ppc = "markPurged"
    /\ MarkPurged(PageHead.id)
    /\ ExpiredGoesOn(PageTail, more, PageHead.id)
    /\ UNCHANGED <<clock, retention, disk, leftover, fetchVars, cursors, events>>

(* purgeRows: two loops of batches *)
StalePending(r) ==
    /\ rows[r].st = "pending"
    /\ \/ Expired(r, pret, clock)
       \/ /\ rows[r].created + PendingMaxAge < clock
          /\ rows[r].updated + PendingMaxAge < clock
OldPurged(r) ==
    /\ rows[r].st = "purged"
    /\ Expired(r, pret, clock)
    /\ rows[r].updated + PurgedRowGrace < clock

Itself(r) == r

DeleteStalePending ==
    /\ ppc = "stale"
    /\ LET D == First(BatchSize, {r \in Rows : StalePending(r)}, Itself) IN
        /\ Delete(D)
        /\ ppc' = IF Cardinality(D) < BatchSize THEN "purged" ELSE "stale"
    /\ UNCHANGED <<clock, retention, disk, leftover, fetchVars,
                   pret, pnow, page, cand, cur, scan, more, cursors, events>>

DeletePurged ==
    /\ ppc = "purged"
    /\ LET D == First(BatchSize, {r \in Rows : OldPurged(r)}, Itself) IN
        /\ Delete(D)
        /\ IF Cardinality(D) < BatchSize THEN EnterRows ELSE UNCHANGED purgeVars
    /\ UNCHANGED <<clock, retention, disk, leftover, fetchVars, cursors, events>>

(* Mutant: a sweep that is complete does not start over. *)
RowsNeverRestart(rest, full, at, n) ==
    IF rest = {} /\ (~full \/ n >= MaxFilesPerRun)
    THEN /\ rowCursor' = at
         /\ EnterDisk
    ELSE /\ ppc' = "rows"
         /\ page' = rest /\ more' = full /\ cur' = at /\ scan' = n
         /\ UNCHANGED <<pret, pnow, cand, rowCursor>>

(* reconcileRows: the sweep of the catalogue ends with a page that was not *)
(* full, and otherwise resumes there in the next run.                      *)
RowsGoOn(rest, full, at, n) ==
    IF rest = {} /\ (~full \/ n >= MaxFilesPerRun)
    THEN /\ rowCursor' = IF full THEN at ELSE 0
         /\ EnterDisk
    ELSE /\ ppc' = "rows"
         /\ page' = rest /\ more' = full /\ cur' = at /\ scan' = n
         /\ UNCHANGED <<pret, pnow, cand, rowCursor>>

ListStoredPage ==
    /\ ppc = "rows" /\ page = {}
    /\ LET limit == Least(BatchSize, MaxFilesPerRun - scan)
           P == First(limit, PageOf({r \in Rows : rows[r].st = "stored" /\ r > cur}), ById)
       IN RowsGoOn(P, Cardinality(P) = limit, cur, scan)
    /\ UNCHANGED <<clock, retention, rows, disk, leftover, fetchVars, pathCursor, events>>

StatStored ==
    /\ ppc = "rows" /\ page # {}
    /\ IF OnDisk(PageHead.path)
       THEN RowsGoOn(PageTail, more, PageHead.id, scan + 1)
       ELSE ppc' = "repair" /\ UNCHANGED <<pret, pnow, page, cand, cur, scan, more, rowCursor>>
    /\ UNCHANGED <<clock, retention, rows, disk, leftover, fetchVars, pathCursor, events>>

(* The file is missing: written off past retention, requeued within it. *)
RepairRow ==
    /\ ppc = "repair"
    /\ IF Expired(PageHead.id, pret, pnow) THEN MarkPurged(PageHead.id)
                                           ELSE MarkPendingRetry(PageHead.id)
    /\ RowsGoOn(PageTail, more, PageHead.id, scan + 1)
    /\ UNCHANGED <<clock, retention, disk, leftover, fetchVars, pathCursor, events>>

(* reconcileDisk.  A candidate is a file of the tenant's subtree with its  *)
(* time of last write; a temporary file has no path of its own.  Position  *)
(* is the lexical order of the walk: the day, then the names that start    *)
(* with a dot, then the keys.                                              *)
Temps == leftover \cup (IF ftemp THEN {fbegin} ELSE {})
Tree == {[path |-> p, at |-> disk[p]] : p \in {q \in Paths : OnDisk(q)}}
        \cup {[path |-> NoPath, at |-> t] : t \in Temps}
DirWidth == TicksPerDay + Cardinality(Uids) + 1
Position(c) ==
    IF c.path = NoPath THEN Day(c.at) * DirWidth + (c.at % TicksPerDay) + 1
                       ELSE c.path[2] * DirWidth + TicksPerDay + c.path[1]
Ahead == {c \in Tree : Position(c) > cur}

(* Mutant: the walk forgets its bound per run. *)
WalkUnbounded ==
    /\ ppc = "disk" /\ cand = {}
    /\ Ahead # {}
    /\ LET B == First(BatchSize, Ahead, Position) IN
        /\ cand' = B
        /\ cur' = CHOOSE n \in {Position(c) : c \in B} : \A c \in B : n >= Position(c)
        /\ scan' = scan + Cardinality(B)
    /\ UNCHANGED <<clock, retention, rows, disk, leftover, fetchVars,
                   ppc, pret, pnow, page, more, cursors, events>>

(* One more batch of the walk. *)
Walk ==
    /\ ppc = "disk" /\ cand = {}
    /\ Ahead # {} /\ scan < MaxFilesPerRun
    /\ LET B == First(Least(BatchSize, MaxFilesPerRun - scan), Ahead, Position) IN
        /\ cand' = B
        /\ cur' = CHOOSE n \in {Position(c) : c \in B} : \A c \in B : n >= Position(c)
        /\ scan' = scan + Cardinality(B)
    /\ UNCHANGED <<clock, retention, rows, disk, leftover, fetchVars,
                   ppc, pret, pnow, page, more, cursors, events>>

(* Mutant: age is all that is asked. *)
SweepIgnoresRows ==
    /\ ppc = "disk" /\ cand # {}
    /\ cand' = {c \in cand : clock - c.at >= OrphanGrace}
    /\ ppc' = IF cand' = {} THEN "disk" ELSE "sweep"
    /\ UNCHANGED <<clock, retention, rows, disk, leftover, fetchVars,
                   pret, pnow, page, cur, scan, more, cursors, events>>
(* Mutant: age is not asked. *)
SweepIgnoresAge ==
    /\ ppc = "disk" /\ cand # {}
    /\ cand' = {c \in cand : c.path = NoPath \/ ~Referenced(c.path)}
    /\ ppc' = IF cand' = {} THEN "disk" ELSE "sweep"
    /\ UNCHANGED <<clock, retention, rows, disk, leftover, fetchVars,
                   pret, pnow, page, cur, scan, more, cursors, events>>

(* sweepBatch: KnownPaths and the ages decide, the unlinks follow *)
SweepBatch ==
    /\ ppc = "disk" /\ cand # {}
    /\ cand' = {c \in cand : /\ c.path = NoPath \/ ~Referenced(c.path)
                             /\ clock - c.at >= OrphanGrace}
    /\ ppc' = IF cand' = {} THEN "disk" ELSE "sweep"
    /\ UNCHANGED <<clock, retention, rows, disk, leftover, fetchVars,
                   pret, pnow, page, cur, scan, more, cursors, events>>

SweepGoesOn(rest) == cand' = rest /\ ppc' = IF rest = {} THEN "disk" ELSE "sweep"

SweepUnlink(c) ==
    /\ ppc = "sweep" /\ c \in cand
    /\ IF c.path = NoPath
       THEN /\ leftover' = leftover \ {c.at}
            /\ ftemp' = (ftemp /\ fbegin # c.at)
            /\ UNCHANGED disk
       ELSE /\ disk' = [disk EXCEPT ![c.path] = Gone]
            /\ UNCHANGED <<leftover, ftemp>>
    /\ SweepGoesOn(cand \ {c})
    /\ UNCHANGED <<clock, retention, rows, fpc, fqueue, fpath, fbegin,
                   pret, pnow, page, cur, scan, more, cursors, events>>

RefuseSweep(c) ==
    /\ ppc = "sweep" /\ c \in cand /\ events < MaxEvents
    /\ SweepGoesOn(cand \ {c})
    /\ events' = events + 1
    /\ UNCHANGED <<clock, retention, rows, disk, leftover, fetchVars,
                   pret, pnow, page, cur, scan, more, cursors>>

(* An unfinished walk resumes after the last path it examined. *)
DiskDone ==
    /\ ppc = "disk" /\ cand = {}
    /\ Ahead = {} \/ scan >= MaxFilesPerRun
    /\ pathCursor' = IF Ahead = {} THEN 0 ELSE cur
    /\ PurgeIdle
    /\ UNCHANGED <<clock, retention, rows, disk, leftover, fetchVars, rowCursor, events>>

(* A statement or a system call fails: the error is collected and the next *)
(* phase runs.  Cursors are not saved.                                     *)
PhaseFails ==
    /\ ppc # "idle" /\ events < MaxEvents
    /\ events' = events + 1
    /\ \/ ppc \in {"expired", "markPurged"} /\ EnterStale
       \/ ppc \in {"stale", "purged"} /\ EnterRows
       \/ ppc \in {"rows", "repair"} /\ EnterDisk
       \/ ppc \in {"disk", "sweep"} /\ PurgeIdle
    /\ UNCHANGED <<clock, retention, rows, disk, leftover, fetchVars, cursors>>

(* The process dies and is started again: the table and the disk are what  *)
(* is left, a temporary file included.                                     *)
Crash ==
    /\ events < MaxEvents
    /\ events' = events + 1
    /\ leftover' = Temps
    /\ fqueue' = {} /\ FetchVarsReset
    /\ PurgeIdle
    /\ rowCursor' = 0 /\ pathCursor' = 0
    /\ UNCHANGED <<clock, retention, rows, disk>>

-----------------------------------------------------------------------------
Init ==
    /\ clock = 0
    /\ retention = DefaultRetention
    /\ rows \in [Rows -> {NoRow} \cup {NewRow(u) : u \in Uids}]
    /\ \A r \in Rows : rows[r] # NoRow <=> r \in Captured
    /\ disk = [p \in Paths |-> Gone]
    /\ leftover = {}
    /\ fpc = "idle" /\ fqueue = {} /\ fpath = NoPath /\ fbegin = 0 /\ ftemp = FALSE
    /\ ppc = "idle" /\ pret = 0 /\ pnow = 0 /\ page = {} /\ cand = {}
    /\ cur = 0 /\ scan = 0 /\ more = FALSE
    /\ rowCursor = 0 /\ pathCursor = 0
    /\ events = 0

Fetch ==
    \/ FetchList \/ FetchStart \/ FetchPublish \/ FetchMark
    \/ FetchGivesUp \/ FetchPostponed

Purge ==
    \/ ListTenantsForRetention
    \/ ListExpiredStored \/ UnlinkExpired \/ MarkExpiredPurged
    \/ DeleteStalePending \/ DeletePurged
    \/ ListStoredPage \/ StatStored \/ RepairRow
    \/ Walk \/ SweepBatch \/ (\E c \in cand : SweepUnlink(c)) \/ DiskDone

Next ==
    \/ \E r \in Rows, u \in Uids : Save(r, u) \/ SaveAgain(r, u)
    \/ \E d \in Retentions : SetRetentionDays(d)
    \/ Tick
    \/ Fetch
    \/ Purge
    \/ RefuseExpired \/ (\E c \in cand : RefuseSweep(c)) \/ PhaseFails \/ Crash

(* The retention loop runs at start and on every tick of its interval. *)
Spec == Init /\ [][Next]_vars /\ WF_vars(Purge)

-----------------------------------------------------------------------------
RowType == [st : {"none", "pending", "stored", "purged", "deleted"},
            uid : Uids \cup {0}, path : Paths \cup {NoPath},
            created : Time, updated : Time]
Candidate == [path : Paths \cup {NoPath}, at : Time]

TypeOK ==
    /\ clock \in Time
    /\ retention \in Retentions \cup {DefaultRetention}
    /\ rows \in [Rows -> RowType]
    /\ disk \in [Paths -> Time \cup {Gone}]
    /\ leftover \subseteq Time
    /\ fpc \in {"idle", "temp", "mark"}
    /\ fqueue \subseteq [id : Rows, uid : Uids]
    /\ fpath \in Paths \cup {NoPath} /\ fbegin \in Time /\ ftemp \in BOOLEAN
    /\ ppc \in {"idle", "expired", "markPurged", "stale", "purged", "rows", "repair",
                "disk", "sweep"}
    /\ pret \in Retentions \cup {DefaultRetention, 0} /\ pnow \in Time
    /\ page \subseteq [id : Rows, path : Paths]
    /\ cand \subseteq Candidate
    /\ cur \in Nat /\ scan \in 0 .. MaxFilesPerRun /\ more \in BOOLEAN
    /\ rowCursor \in Rows \cup {0} /\ pathCursor \in Nat
    /\ events \in 0 .. MaxEvents

(* A download in flight keeps what it is writing: the sweep tells its      *)
(* temporary file from one a crash left behind by age alone (sweepBatch).  *)
TempInFlightKept == fpc = "temp" => ftemp

(* Why a blob may disappear.  Either purgeExpired has in hand a row that   *)
(* names it and whose retention, as it was when the pass began, elapsed    *)
(* (another row may name the same blob: same content, same day).  Or the   *)
(* sweep found it older than the grace, and every row that names it by now *)
(* took it over when it already was that old: a blob that was published    *)
(* and marked in one download is never swept (sweepBatch, OrphanGrace).    *)
UnlinkIsJustified ==
    [][\A p \in Paths : OnDisk(p) /\ disk'[p] = Gone =>
          \/ /\ ppc = "expired"
             /\ \E r \in Rows : rows[r].path = p /\ Expired(r, pret, clock)
          \/ /\ ppc = "sweep"
             /\ clock - disk[p] >= OrphanGrace
             /\ \A r \in Rows : rows[r].path = p => rows[r].updated - disk[p] >= OrphanGrace]_vars

(* A row that was written off stays so until it is deleted: no batch or    *)
(* page read before brings it back, although no UPDATE of the catalogue    *)
(* looks at the status it overwrites (MarkStored, MarkPendingRetry).       *)
PurgedIsFinal ==
    [][\A r \in Rows : rows[r].st = "purged" => rows'[r].st \in {"purged", "deleted"}]_vars

(* Interrupted anywhere and run again, the pass converges: time and again  *)
(* no stored row lacks its file, no row that still has or awaits one is    *)
(* past its retention, and no file old enough is unreferenced, temporary   *)
(* ones included (package comment of purge).                               *)
MissingFile(r) == rows[r].st = "stored" /\ ~OnDisk(rows[r].path)
Overdue(r) == rows[r].st \in {"pending", "stored"} /\ Expired(r, retention, clock)
Orphan(c) ==
    /\ clock - c.at >= OrphanGrace
    /\ c.path = NoPath \/ ~Referenced(c.path)
Reconciled ==
    /\ \A r \in Rows : ~MissingFile(r) /\ ~Overdue(r)
    /\ \A c \in Tree : ~Orphan(c)
Converges == []<>Reconciled
=============================================================================

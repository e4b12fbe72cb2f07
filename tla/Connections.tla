----------------------------- MODULE Connections -----------------------------
(***************************************************************************)
(* business.Service and its connectionCache (bot/internal/business): the   *)
(* resolution chain cache -> database -> Telegram, the connection updates  *)
(* Telegram pushes, and the DisableOwner step of an erasure.               *)
(*                                                                         *)
(* Every call runs on a goroutine p of Procs and is split where the code   *)
(* leaves the cache mutex or talks to the database or to Telegram, since   *)
(* other goroutines run in between.  A call ends in the label after[p] (it *)
(* produced the connection got[p]) or in "ended": refused, failed, or a    *)
(* report that has been applied.                                           *)
(***************************************************************************)
EXTENDS Naturals, FiniteSets

CONSTANTS
    Procs,          \* goroutines: shard workers, and whoever else resolves
    Conns,          \* business connection ids
    Owners,         \* account holders
    Claims,         \* [Conns -> SUBSET Owners]: whose Telegram says it may be
    Allowlists,     \* the values OWNER_ALLOWLIST_TELEGRAM_USER_IDS may have;
                    \* {} is open onboarding
    MaxEntries,     \* connectionCacheMaxEntries
    Labels,         \* where callers of another module continue
    NoOwner         \* no row, no entry, nothing in hand

ASSUME ConnectionsAssumption ==
    /\ Allowlists # {} /\ Allowlists \subseteq SUBSET Owners
    /\ NoOwner \notin Owners
    /\ Conns # {}
    /\ Claims \in [Conns -> SUBSET Owners]
    /\ MaxEntries \in Nat \ {0}

VARIABLES
    allowed,        \* Service.allowed, the allowlist this process was started with
    row,            \* business_connections: [Conns -> Connection or Nothing]
    entry,          \* cache.byID: [Conns -> Entry]
    stale,          \* entries past their expiresAt
    disabledOwners, \* cache.disabledOwners
    pc,             \* [Procs -> label]
    after,          \* [Procs -> label]: where a resolution returns to
    conn,           \* [Procs -> Conns]: the connection id the call is about
    got,            \* [Procs -> Connection or Nothing]: the value in hand
    turnedOff       \* history: owners whose rows DisableOwner switched off and
                    \* for whom no enabled report has been applied since

dbVars == <<allowed, row, turnedOff>>
cacheVars == <<entry, stale, disabledOwners>>
callVars == <<pc, after, conn, got>>
vars == <<dbVars, cacheVars, callVars>>

Connection == [owner : Owners, on : BOOLEAN]
Nothing == [owner |-> NoOwner, on |-> FALSE]

\* entryKind: what a cached answer says.
Kinds == {"none", "resolved", "unknown", "refused"}
Entry == [kind : Kinds, owner : Owners \cup {NoOwner}, on : BOOLEAN]
NoEntry == [kind |-> "none", owner |-> NoOwner, on |-> FALSE]

CallLabels == {"lookup", "read", "storeDB", "storeRefused", "storeUnknown", "api",
               "upsert", "store", "report", "storeReport", "disableRows",
               "disableCache", "idle", "ended"}
\* Where the calls of the service on its own end.
Ends == {"resolved", "disabled"}

TypeOK ==
    /\ allowed \in Allowlists
    /\ row \in [Conns -> Connection \cup {Nothing}]
    /\ entry \in [Conns -> Entry]
    /\ stale \subseteq Conns
    /\ disabledOwners \subseteq Owners
    /\ pc \in [Procs -> CallLabels \cup Labels \cup Ends]
    /\ after \in [Procs -> Labels \cup Ends]
    /\ conn \in [Procs -> Conns]
    /\ got \in [Procs -> Connection \cup {Nothing}]
    /\ turnedOff \subseteq Owners

\* What after and conn hold when no call is running.
AnyLabel == "resolved"
AnyConn == CHOOSE c \in Conns : TRUE

\* A process just started, with these rows in the table.
InitWith(rows) ==
    /\ allowed \in Allowlists
    /\ row = rows
    /\ entry = [c \in Conns |-> NoEntry]
    /\ stale = {}
    /\ disabledOwners = {}
    /\ pc = [p \in Procs |-> "idle"]
    /\ after = [p \in Procs |-> AnyLabel]
    /\ conn = [p \in Procs |-> AnyConn]
    /\ got = [p \in Procs |-> Nothing]
    /\ turnedOff = {}

Init == InitWith([c \in Conns |-> Nothing])

------------------------------------------------------------------------------
(* Control flow of one goroutine. *)

Goto(p, label) == pc' = [pc EXCEPT ![p] = label]

\* The call moves on from `from' to `to' with the same value in hand.
Step(p, from, to) ==
    /\ pc[p] = from
    /\ Goto(p, to)
    /\ UNCHANGED <<after, conn, got>>

\* The call moves on with the value v in hand.
StepWith(p, from, to, v) ==
    /\ pc[p] = from
    /\ Goto(p, to)
    /\ got' = [got EXCEPT ![p] = v]
    /\ UNCHANGED <<after, conn>>

\* The caller has taken the answer and continues with nothing in hand.
Leave(p, label) ==
    /\ Goto(p, label)
    /\ after' = [after EXCEPT ![p] = AnyLabel]
    /\ conn' = [conn EXCEPT ![p] = AnyConn]
    /\ got' = [got EXCEPT ![p] = Nothing]

------------------------------------------------------------------------------
(* connectionCache: every operator below runs under the cache mutex. *)

Live(c) == entry[c].kind # "none" /\ c \notin stale
Cached == {c \in Conns : entry[c].kind # "none"}
OwnerAllowed(o) == allowed # {} => o \in allowed

\* Mutant: nothing is evicted.
PutUnbounded(c, e) ==
    /\ entry' = [entry EXCEPT ![c] = e]
    /\ stale' = stale \ {c}

\* putLocked: insert or replace, and evict one other entry past the bound.
\* The recency order is abstracted: any other entry may be the oldest.
Put(c, e) ==
    \E evicted \in IF entry[c].kind = "none" /\ Cardinality(Cached) >= MaxEntries
                   THEN {{d} : d \in Cached} ELSE {{}} :
        /\ entry' = [d \in Conns |-> IF d = c THEN e
                                     ELSE IF d \in evicted THEN NoEntry
                                     ELSE entry[d]]
        /\ stale' = stale \ (evicted \cup {c})

Resolved(v) == [kind |-> "resolved", owner |-> v.owner, on |-> v.on]

\* store: a state Telegram reports now. An enabled one clears the owner's
\* marker, a disabled one sets it.
store(c, v) ==
    /\ disabledOwners' = IF v.on THEN disabledOwners \ {v.owner}
                                 ELSE disabledOwners \cup {v.owner}
    /\ Put(c, Resolved(v))

\* An enabled report takes effect: its owner is back (history only).
Applied(v) == turnedOff' = IF v.on THEN turnedOff \ {v.owner} ELSE turnedOff

\* Mutant: a row read from the database is stored like a fresh report.
storeDBUnconditionally(c, v) ==
    /\ Put(c, Resolved(v))
    /\ UNCHANGED disabledOwners

\* storeDB: a row read from the database, possibly before a DisableOwner.
storeDB(c, v) ==
    /\ IF v.on /\ entry[c].kind = "resolved" /\ ~entry[c].on
       THEN UNCHANGED <<entry, stale>>
       ELSE Put(c, Resolved([v EXCEPT !.on = v.on /\ v.owner \notin disabledOwners]))
    /\ UNCHANGED disabledOwners

\* disableOwner: patch the owner's entries and remember the owner.
disableOwner(o) ==
    /\ disabledOwners' = disabledOwners \cup {o}
    /\ entry' = [c \in Conns |->
                    IF entry[c].kind = "resolved" /\ entry[c].owner = o
                    THEN [entry[c] EXCEPT !.on = FALSE] ELSE entry[c]]
    /\ UNCHANGED stale

\* The clock passes the expiresAt of an entry.
Expire(c) ==
    /\ Live(c)
    /\ stale' = stale \cup {c}
    /\ UNCHANGED <<dbVars, entry, disabledOwners, callVars>>

------------------------------------------------------------------------------
(* Service.Resolve *)

\* A caller asks for connection c and wants to continue at `label'.
CallResolve(p, from, c, label) ==
    /\ pc[p] = from
    /\ Goto(p, "lookup")
    /\ after' = [after EXCEPT ![p] = label]
    /\ conn' = [conn EXCEPT ![p] = c]
    /\ got' = [got EXCEPT ![p] = Nothing]
    /\ UNCHANGED <<dbVars, cacheVars>>

\* cache.lookup answers: a revoked id or a holder that is not admitted.
LookupRefused(p) ==
    LET c == conn[p] IN
    /\ pc[p] = "lookup" /\ Live(c)
    /\ entry[c].kind # "unknown" => ~OwnerAllowed(entry[c].owner)
    /\ Leave(p, "ended")
    /\ UNCHANGED <<dbVars, cacheVars>>

\* cache.lookup answers: a resolved connection of an admitted holder.
LookupHit(p) ==
    LET c == conn[p] IN
    /\ Live(c)
    /\ entry[c].kind = "resolved" /\ OwnerAllowed(entry[c].owner)
    /\ StepWith(p, "lookup", after[p], [owner |-> entry[c].owner, on |-> entry[c].on])
    /\ UNCHANGED <<dbVars, cacheVars>>

\* cache.lookup finds nothing, an expired entry being dropped, or a refusal
\* of a holder that is admitted after all.
LookupMiss(p) ==
    LET c == conn[p] IN
    /\ Live(c) => entry[c].kind = "refused" /\ OwnerAllowed(entry[c].owner)
    /\ Step(p, "lookup", "read")
    /\ entry' = [entry EXCEPT ![c] = IF Live(c) THEN @ ELSE NoEntry]
    /\ stale' = stale \ {c}
    /\ UNCHANGED <<dbVars, disabledOwners>>

\* Mutant: the allowlist is not applied to rows written before a restart.
ReadRowUnchecked(p) ==
    LET v == row[conn[p]] IN
    /\ v # Nothing
    /\ StepWith(p, "read", "storeDB", v)
    /\ UNCHANGED <<dbVars, cacheVars>>

\* getFromDB finds the row: to be memoised, as a refusal if the holder is not
\* admitted any more.
ReadRow(p) ==
    LET v == row[conn[p]] IN
    /\ v # Nothing
    /\ StepWith(p, "read", IF OwnerAllowed(v.owner) THEN "storeDB" ELSE "storeRefused", v)
    /\ UNCHANGED <<dbVars, cacheVars>>

\* getFromDB finds no row: ask Telegram.
ReadNoRow(p) ==
    /\ row[conn[p]] = Nothing
    /\ Step(p, "read", "api")
    /\ UNCHANGED <<dbVars, cacheVars>>

\* storeDB, then the row as it was read is returned (not what was stored).
ResolveStoreDB(p) ==
    /\ Step(p, "storeDB", after[p])
    /\ storeDB(conn[p], got[p])
    /\ UNCHANGED dbVars

ResolveStoreRefused(p) ==
    /\ pc[p] = "storeRefused" /\ Leave(p, "ended")
    /\ Put(conn[p], [kind |-> "refused", owner |-> got[p].owner, on |-> FALSE])
    /\ UNCHANGED <<dbVars, disabledOwners>>

\* What Telegram can say about a connection.
Reports(c) == [owner : Claims[c], on : BOOLEAN]

\* getBusinessConnection answers with the connection.
ApiAnswers(p, v) ==
    /\ v \in Reports(conn[p])
    /\ StepWith(p, "api", "upsert", v)
    /\ UNCHANGED <<dbVars, cacheVars>>

\* getBusinessConnection answers 400: the connection was revoked.
ApiUnknown(p) ==
    /\ Step(p, "api", "storeUnknown")
    /\ UNCHANGED <<dbVars, cacheVars>>

\* Mutant: a revoked id is cached as a disabled connection.
ResolveStoreDisabled(p) ==
    /\ pc[p] = "storeUnknown" /\ Leave(p, "ended")
    /\ store(conn[p], got[p])
    /\ UNCHANGED dbVars

ResolveStoreUnknown(p) ==
    /\ pc[p] = "storeUnknown" /\ Leave(p, "ended")
    /\ Put(conn[p], [kind |-> "unknown", owner |-> NoOwner, on |-> FALSE])
    /\ UNCHANGED <<dbVars, disabledOwners>>

\* Mutant: the upsert rewrites owner_user_id.
UpsertMovesOwner(p, from, written, refused) ==
    LET c == conn[p] v == got[p] IN
    /\ OwnerAllowed(v.owner)
    /\ row' = [row EXCEPT ![c] = v]
    /\ Applied(v)
    /\ Step(p, from, written)
    /\ UNCHANGED allowed

\* upsertFromTelegram: the row of another owner is never taken over.
Upsert(p, from, written, refused) ==
    LET c == conn[p] v == got[p] IN
    \/ /\ ~OwnerAllowed(v.owner)
       /\ Step(p, from, refused)
       /\ UNCHANGED dbVars
    \/ /\ OwnerAllowed(v.owner)
       /\ row[c] # Nothing /\ row[c].owner # v.owner
       /\ Step(p, from, "ended")
       /\ UNCHANGED dbVars
    \/ /\ OwnerAllowed(v.owner)
       /\ row[c] # Nothing => row[c].owner = v.owner
       /\ Step(p, from, written)
       /\ row' = [row EXCEPT ![c] = v]
       /\ Applied(v)
       /\ UNCHANGED allowed

\* The API answer is written to the database ...
ResolveUpsert(p) ==
    /\ Upsert(p, "upsert", "store", "storeRefused")
    /\ UNCHANGED cacheVars

\* ... and then stored in the cache.
ResolveStore(p) ==
    /\ Step(p, "store", after[p])
    /\ store(conn[p], got[p])
    /\ Applied(got[p])
    /\ UNCHANGED <<allowed, row>>

\* A database or network error, at any call that leaves the process.
CallFails(p) ==
    /\ pc[p] \in {"read", "api", "upsert", "report", "disableRows"}
    /\ Leave(p, "ended")
    /\ UNCHANGED <<dbVars, cacheVars>>

------------------------------------------------------------------------------
(* Service.HandleBusinessConnection: one report at a time per connection,  *)
(* since the updates of a connection share a shard (telegram.ShardKey).    *)

ReportInFlight(c) ==
    \E p \in Procs : pc[p] \in {"report", "storeReport"} /\ conn[p] = c

ReceiveReport(p, c, v) ==
    /\ pc[p] = "idle" /\ ~ReportInFlight(c)
    /\ v \in Reports(c)
    /\ Goto(p, "report")
    /\ conn' = [conn EXCEPT ![p] = c]
    /\ got' = [got EXCEPT ![p] = v]
    /\ UNCHANGED <<after, dbVars, cacheVars>>

ReportUpsert(p) ==
    /\ Upsert(p, "report", "storeReport", "ended")
    /\ UNCHANGED cacheVars

\* cache.store; the welcome message that follows changes no state.
ReportStore(p) ==
    /\ pc[p] = "storeReport" /\ Leave(p, "ended")
    /\ store(conn[p], got[p])
    /\ Applied(got[p])
    /\ UNCHANGED <<allowed, row>>

------------------------------------------------------------------------------
(* Service.DisableOwner: database first, then the cache. The owner is      *)
(* carried in got[p].                                                      *)

\* An erasure of owner o reaches its first step and will continue at `label'.
CallDisableOwner(p, from, o, label) ==
    /\ pc[p] = from
    /\ Goto(p, "disableRows")
    /\ after' = [after EXCEPT ![p] = label]
    /\ got' = [got EXCEPT ![p] = [owner |-> o, on |-> FALSE]]
    /\ UNCHANGED <<conn, dbVars, cacheVars>>

DisableRows(p) ==
    /\ Step(p, "disableRows", "disableCache")
    /\ row' = [c \in Conns |-> IF row[c].owner = got[p].owner
                               THEN [row[c] EXCEPT !.on = FALSE] ELSE row[c]]
    /\ turnedOff' = turnedOff \cup {got[p].owner}
    /\ UNCHANGED <<allowed, cacheVars>>

DisableCache(p) ==
    /\ Step(p, "disableCache", after[p])
    /\ disableOwner(got[p].owner)
    /\ UNCHANGED dbVars

------------------------------------------------------------------------------
\* The process dies and starts again, perhaps with another allowlist: the
\* cache and every call are lost.
Restart(allowlist) ==
    /\ allowed' = allowlist
    /\ entry' = [c \in Conns |-> NoEntry]
    /\ stale' = {}
    /\ disabledOwners' = {}
    /\ pc' = [p \in Procs |-> "idle"]
    /\ after' = [p \in Procs |-> AnyLabel]
    /\ conn' = [p \in Procs |-> AnyConn]
    /\ got' = [p \in Procs |-> Nothing]
    /\ UNCHANGED <<row, turnedOff>>

\* What a call of Resolve, of HandleBusinessConnection or of DisableOwner does
\* once it has been made.
ResolveStep(p) ==
    \/ LookupRefused(p)
    \/ LookupHit(p)
    \/ LookupMiss(p)
    \/ ReadRow(p)
    \/ ReadNoRow(p)
    \/ ResolveStoreDB(p)
    \/ ResolveStoreRefused(p)
    \/ \E v \in Connection : ApiAnswers(p, v)
    \/ ApiUnknown(p)
    \/ ResolveStoreUnknown(p)
    \/ ResolveUpsert(p)
    \/ ResolveStore(p)

ReportStep(p) == ReportUpsert(p) \/ ReportStore(p)

DisableStep(p) == DisableRows(p) \/ DisableCache(p)

------------------------------------------------------------------------------
(* The service on its own: goroutines that resolve, report and disable.    *)

Finish(p) ==
    /\ pc[p] \in {"ended"} \cup Ends
    /\ Leave(p, "idle")
    /\ UNCHANGED <<dbVars, cacheVars>>

Next ==
    \/ \E p \in Procs :
        \/ \E c \in Conns : CallResolve(p, "idle", c, "resolved")
        \/ \E c \in Conns, v \in Connection : ReceiveReport(p, c, v)
        \/ \E o \in Owners : CallDisableOwner(p, "idle", o, "disabled")
        \/ ResolveStep(p)
        \/ ReportStep(p)
        \/ DisableStep(p)
        \/ CallFails(p)
        \/ Finish(p)
    \/ \E c \in Conns : Expire(c)
    \/ \E allowlist \in Allowlists : Restart(allowlist)

Spec == Init /\ [][Next]_vars

------------------------------------------------------------------------------
(***************************************************************************)
(* "it never lets a disabled connection resolve as enabled again": once    *)
(* DisableOwner switched an owner off and until Telegram reports a         *)
(* connection of theirs enabled, the cache serves none of their            *)
(* connections as enabled, however old the database reads in flight are.   *)
(* The exception is the instant between DisableOwner's two writes.         *)
(***************************************************************************)
NoResurrection ==
    \A c \in Conns :
        entry[c].kind = "resolved" /\ entry[c].on /\ entry[c].owner \in turnedOff
            => \E p \in Procs : pc[p] = "disableCache" /\ got[p].owner = entry[c].owner

(***************************************************************************)
(* "A connection belongs to the account holder it was created for, for its *)
(* whole life": a cached resolution, and one in the hands of a caller,     *)
(* names the owner the table names.                                        *)
(***************************************************************************)
OneOwnerPerConnection ==
    /\ \A c \in Conns : entry[c].kind = "resolved" => entry[c].owner = row[c].owner
    /\ \A p \in Procs :
           pc[p] = "resolved" => got[p].owner = row[conn[p]].owner

(***************************************************************************)
(* "a connection persisted while onboarding was open must not stay         *)
(* authorized once the deployment restricts it again, through the cache or *)
(* through the database after a restart": whatever the order of restarts,  *)
(* no caller is handed a connection of a holder that is not admitted now.  *)
(***************************************************************************)
OnlyAdmittedOwners ==
    \A p \in Procs : pc[p] = "resolved" => OwnerAllowed(got[p].owner)

(***************************************************************************)
(* "An unbounded map is a slow leak keyed by strangers": the cache holds   *)
(* at most MaxEntries answers.                                             *)
(***************************************************************************)
CacheBounded == Cardinality(Cached) <= MaxEntries

\* No call is in the middle of its database and cache writes.
Quiet == \A p \in Procs : pc[p] = "idle"

(***************************************************************************)
(* cache.go on storeDB and DisableOwner: what must not happen is an        *)
(* enabled entry "that every later Resolve would be served until the TTL,  *)
(* while the table says disabled".                                         *)
(***************************************************************************)
ServedEnabledIsEnabled ==
    Quiet => \A c \in Conns :
        Live(c) /\ entry[c].kind = "resolved" /\ entry[c].on => row[c].on

(***************************************************************************)
(* handler.go on saveMessage: "an active Business connection automatically *)
(* covers all chats [...] The only filter applied is [...] does the        *)
(* connection exist and is_enabled".  An enabled connection is not served  *)
(* as disabled once every write has settled.                               *)
(***************************************************************************)
EnabledIsServedEnabled ==
    Quiet => \A c \in Conns :
        Live(c) /\ entry[c].kind = "resolved" /\ row[c].on => entry[c].on

==============================================================================

-------------------------- MODULE ConnectionsProofs --------------------------
(***************************************************************************)
(* Theorems of Connections, for any number of goroutines, connections and  *)
(* owners, whatever Telegram reports and whatever the allowlists are.      *)
(***************************************************************************)
EXTENDS Connections, FiniteSetTheorems, TLAPS

\* A call is on its way to the end that belongs to it.
CallsEndWell == \A p \in Procs :
    /\ pc[p] \in {"lookup", "read", "api", "storeDB", "storeRefused", "storeUnknown",
                  "upsert", "store"} => after[p] = "resolved"
    /\ pc[p] \in {"disableRows", "disableCache"} =>
           after[p] = "disabled" /\ got[p].owner \in Owners
    /\ pc[p] \in {"storeDB", "storeRefused", "upsert", "store", "report", "storeReport",
                  "resolved"} => got[p] \in Connection

\* A resolution, cached or in hand, names an account holder.
EntriesAreResolved == \A c \in Conns : entry[c].kind = "resolved" => entry[c].owner \in Owners

TypeInv == TypeOK /\ CallsEndWell /\ EntriesAreResolved

\* The values in hand that are, or were, the row of the connection.
OwnersInHand == \A p \in Procs :
    pc[p] \in {"storeDB", "store", "storeReport", "resolved"} =>
        got[p].owner = row[conn[p]].owner
OwnerInv ==
    /\ \A c \in Conns : entry[c].kind = "resolved" => entry[c].owner = row[c].owner
    /\ OwnersInHand

\* The allowlist is applied before a value is stored.
AdmittedInHand == \A p \in Procs :
    pc[p] \in {"storeDB", "store", "resolved"} => OwnerAllowed(got[p].owner)

\* An owner who is switched off has no enabled row, and a read from before
\* that will find the marker, or is overtaken by DisableOwner's second write.
Disabling(o) == \E p \in Procs : pc[p] = "disableCache" /\ got[p].owner = o
RowsAreOff == \A c \in Conns : row[c].owner \in turnedOff => ~row[c].on
LateReads == \A p \in Procs :
    pc[p] = "storeDB" /\ got[p].on /\ got[p].owner \in turnedOff =>
        got[p].owner \in disabledOwners \/ Disabling(got[p].owner)
OffInv == RowsAreOff /\ LateReads /\ NoResurrection

CacheInv == IsFiniteSet(Cached) /\ CacheBounded

-------------------------------------------------------------------------------
(* Types *)

\* What the constants and the record types give the prover.
LEMMA Constants ==
  /\ AnyConn \in Conns
  /\ NoOwner \notin Owners
  /\ \A c \in Conns : Claims[c] \subseteq Owners
  /\ NoEntry \in Entry /\ NoEntry.kind = "none"
  /\ Nothing.owner = NoOwner
  /\ \A v \in Connection : v.owner \in Owners /\ v.on \in BOOLEAN /\ v # Nothing
  /\ MaxEntries \in Nat /\ 0 < MaxEntries
  BY ConnectionsAssumption
  DEF AnyConn, NoEntry, Entry, Kinds, Nothing, Connection

\* putLocked stores the entry, and at most empties others.
LEMMA PutEntries ==
  ASSUME TypeOK, NEW c \in Conns, NEW e \in Entry, Put(c, e)
  PROVE  /\ entry' \in [Conns -> Entry]
         /\ stale' \subseteq Conns
         /\ entry'[c] = e
         /\ \A d \in Conns : d # c => entry'[d] = entry[d] \/ entry'[d] = NoEntry
  BY Constants DEF Put, TypeOK

\* The records that are stored: a value, an entry, one switched off.
LEMMA Records ==
  /\ \A o \in Owners, b \in BOOLEAN :
         [owner |-> o, on |-> b] \in Connection
         /\ [owner |-> o, on |-> b].owner = o /\ [owner |-> o, on |-> b].on = b
  /\ \A e \in Entry : /\ [e EXCEPT !.on = FALSE] \in Entry
                      /\ [e EXCEPT !.on = FALSE].kind = e.kind
                      /\ [e EXCEPT !.on = FALSE].owner = e.owner
                      /\ ~[e EXCEPT !.on = FALSE].on
  /\ \A v \in Connection : Resolved(v) \in Entry /\ Resolved(v).kind = "resolved"
                           /\ Resolved(v).owner = v.owner /\ Resolved(v).on = v.on
  /\ \A v \in Connection, b \in BOOLEAN :
         [v EXCEPT !.on = b] \in Connection /\ [v EXCEPT !.on = b].owner = v.owner
         /\ [v EXCEPT !.on = b].on = b
  /\ \A o \in Owners : [kind |-> "refused", owner |-> o, on |-> FALSE] \in Entry
  /\ [kind |-> "unknown", owner |-> NoOwner, on |-> FALSE] \in Entry
  BY DEF Resolved, Entry, Kinds, Connection

\* The other entries are kept or evicted.
OthersKept(c) == \A d \in Conns : d # c => entry'[d] = entry[d] \/ entry'[d] = NoEntry

\* store leaves the state that was reported.
LEMMA StoreEntries ==
  ASSUME TypeOK, NEW c \in Conns, NEW v \in Connection, store(c, v)
  PROVE  /\ entry'[c].kind = "resolved" /\ entry'[c].owner = v.owner /\ entry'[c].on = v.on
         /\ OthersKept(c)
         /\ disabledOwners' = IF v.on THEN disabledOwners \ {v.owner}
                                      ELSE disabledOwners \cup {v.owner}
  BY PutEntries, Records DEF store, OthersKept

\* storeDB leaves the row that was read, switched off if its owner is marked,
\* or a disabled entry that was there.
LEMMA StoreDBEntries ==
  ASSUME TypeOK, NEW c \in Conns, NEW v \in Connection, storeDB(c, v)
  PROVE  /\ \/ entry'[c] = entry[c] /\ ~entry[c].on
            \/ /\ entry'[c].kind = "resolved" /\ entry'[c].owner = v.owner
               /\ entry'[c].on => v.on /\ v.owner \notin disabledOwners
         /\ OthersKept(c)
         /\ disabledOwners' = disabledOwners
<1> DEFINE w == [v EXCEPT !.on = v.on /\ v.owner \notin disabledOwners]
<1>1. w \in Connection /\ w.owner = v.owner /\ (w.on => v.on /\ v.owner \notin disabledOwners)
  BY Records
<1> HIDE DEF w
<1>2. CASE v.on /\ entry[c].kind = "resolved" /\ ~entry[c].on
  BY <1>2 DEF storeDB, OthersKept
<1>3. CASE ~(v.on /\ entry[c].kind = "resolved" /\ ~entry[c].on)
  <2>1. Put(c, Resolved(w)) /\ disabledOwners' = disabledOwners
    BY <1>3 DEF storeDB, w
  <2>2. QED
    BY <1>1, <2>1, PutEntries, Records DEF OthersKept
<1>4. QED
  BY <1>2, <1>3

\* A process just started, whose table is empty.
LEMMA TypeInit == Init => TypeInv
  BY Constants
  DEF Init, InitWith, TypeInv, TypeOK, CallsEndWell, EntriesAreResolved,
                   CallLabels, Ends, AnyLabel, NoEntry

\* Every step keeps the types, and the value a goroutine carries is the one
\* its next write needs.
LEMMA TypeStep == TypeInv /\ [Next]_vars => TypeInv'
<1> SUFFICES ASSUME TypeInv, [Next]_vars PROVE TypeInv'
  OBVIOUS
<1> USE Constants DEF TypeInv, TypeOK, CallsEndWell, EntriesAreResolved, CallLabels, Ends, AnyLabel
<1>1. CASE UNCHANGED vars
  BY <1>1 DEF vars, dbVars, cacheVars, callVars
<1>2. ASSUME NEW p \in Procs, NEW c \in Conns, CallResolve(p, "idle", c, "resolved")
    PROVE TypeInv'
  BY <1>2 DEF CallResolve, Goto, dbVars, cacheVars, callVars
<1>3. ASSUME NEW p \in Procs, NEW c \in Conns, NEW v \in Connection, ReceiveReport(p, c, v)
    PROVE TypeInv'
  BY <1>3 DEF ReceiveReport, Goto, Reports, dbVars, cacheVars, callVars
<1>4. ASSUME NEW p \in Procs, NEW o \in Owners, CallDisableOwner(p, "idle", o, "disabled")
    PROVE TypeInv'
  <2> DEFINE v == [owner |-> o, on |-> FALSE]
  <2>1. v \in Connection /\ v.owner = o
    BY Records
  <2> HIDE DEF v
  <2>2. got' = [got EXCEPT ![p] = v]
    BY <1>4 DEF CallDisableOwner, v
  <2>3. QED
    BY <1>4, <2>1, <2>2 DEF CallDisableOwner, Goto, dbVars, cacheVars
<1>5. ASSUME NEW p \in Procs, LookupRefused(p) PROVE TypeInv'
  BY <1>5 DEF LookupRefused, Leave, Goto, dbVars, cacheVars, callVars
<1>6. ASSUME NEW p \in Procs, LookupHit(p) PROVE TypeInv'
  <2>1. entry[conn[p]] \in Entry /\ entry[conn[p]].owner \in Owners
    BY <1>6 DEF LookupHit
  <2>2. entry[conn[p]].on \in BOOLEAN
    BY <2>1 DEF Entry
  <2>3. QED
    BY <1>6, <2>1, <2>2, Records
    DEF LookupHit, StepWith, Goto, dbVars, cacheVars, callVars
<1>7. ASSUME NEW p \in Procs, LookupMiss(p) PROVE TypeInv'
  BY <1>7 DEF LookupMiss, Live, Step, Goto, dbVars, cacheVars, callVars
<1>8. ASSUME NEW p \in Procs, ReadRow(p) PROVE TypeInv'
  BY <1>8 DEF ReadRow, StepWith, Goto, dbVars, cacheVars, callVars
<1>9. ASSUME NEW p \in Procs, ReadNoRow(p) PROVE TypeInv'
  BY <1>9 DEF ReadNoRow, Step, Goto, dbVars, cacheVars, callVars
<1>10. ASSUME NEW p \in Procs, ResolveStoreDB(p) PROVE TypeInv'
  <2> DEFINE v == [got[p] EXCEPT !.on = got[p].on /\ got[p].owner \notin disabledOwners]
  <2>1. v \in Connection /\ v.owner \in Owners
    BY <1>10, Records DEF ResolveStoreDB, Step
  <2> HIDE DEF v
  <2>2. entry' \in [Conns -> Entry] /\ stale' \subseteq Conns
    BY <1>10, <2>1, Records, PutEntries DEF ResolveStoreDB, storeDB, v
  <2>3. EntriesAreResolved'
    BY <1>10, <2>1, Records, PutEntries DEF ResolveStoreDB, storeDB, v
  <2>4. QED
    BY <1>10, <2>2, <2>3 DEF ResolveStoreDB, storeDB, Step, Goto, dbVars
<1>11. ASSUME NEW p \in Procs, ResolveStoreRefused(p) PROVE TypeInv'
  BY <1>11, Records, PutEntries
  DEF ResolveStoreRefused, Leave, Goto, dbVars, cacheVars, callVars
<1>12. ASSUME NEW p \in Procs, NEW v \in Connection, ApiAnswers(p, v)
    PROVE TypeInv'
  BY <1>12
  DEF ApiAnswers, Reports, StepWith, Goto, dbVars, cacheVars, callVars
<1>13. ASSUME NEW p \in Procs, ApiUnknown(p) PROVE TypeInv'
  BY <1>13 DEF ApiUnknown, Step, Goto, dbVars, cacheVars, callVars
<1>14. ASSUME NEW p \in Procs, ResolveStoreUnknown(p) PROVE TypeInv'
  BY <1>14, Records, PutEntries
  DEF ResolveStoreUnknown, Leave, Goto, dbVars, cacheVars, callVars
<1>15. ASSUME NEW p \in Procs, ResolveUpsert(p) PROVE TypeInv'
  BY <1>15
  DEF ResolveUpsert, Upsert, Applied, Step, Goto, dbVars, cacheVars, callVars
<1>16. ASSUME NEW p \in Procs, ResolveStore(p) PROVE TypeInv'
  BY <1>16, Records, PutEntries
  DEF ResolveStore, store, Applied, Step, Goto, dbVars, cacheVars, callVars
<1>17. ASSUME NEW p \in Procs, ReportUpsert(p) PROVE TypeInv'
  BY <1>17
  DEF ReportUpsert, Upsert, Applied, Step, Goto, dbVars, cacheVars, callVars
<1>18. ASSUME NEW p \in Procs, ReportStore(p) PROVE TypeInv'
  BY <1>18, Records, PutEntries
  DEF ReportStore, store, Applied, Leave, Goto, dbVars, cacheVars, callVars
<1>19. ASSUME NEW p \in Procs, DisableRows(p) PROVE TypeInv'
  <2> DEFINE off(c) == IF row[c].owner = got[p].owner THEN [row[c] EXCEPT !.on = FALSE] ELSE row[c]
  <2>1. ASSUME NEW c \in Conns PROVE off(c) \in Connection \cup {Nothing}
    <3>1. CASE row[c].owner = got[p].owner
      <4>1. row[c] \in Connection
        BY <1>19, <3>1 DEF DisableRows, Step
      <4>2. [row[c] EXCEPT !.on = FALSE] \in Connection
        BY <4>1, Records
      <4>3. QED
        BY <3>1, <4>2
    <3>2. QED
      BY <3>1
  <2>2. row' = [c \in Conns |-> off(c)]
    BY <1>19 DEF DisableRows
  <2> HIDE DEF off
  <2>3. row' \in [Conns -> Connection \cup {Nothing}]
    BY <2>1, <2>2
  <2>4. QED
    BY <1>19, <2>3 DEF DisableRows, Step, Goto, dbVars, cacheVars, callVars
<1>20. ASSUME NEW p \in Procs, DisableCache(p) PROVE TypeInv'
  BY <1>20, Records
  DEF DisableCache, disableOwner, Step, Goto, dbVars, cacheVars, callVars
<1>21. ASSUME NEW p \in Procs, CallFails(p) PROVE TypeInv'
  BY <1>21 DEF CallFails, Leave, Goto, dbVars, cacheVars, callVars
<1>22. ASSUME NEW p \in Procs, Finish(p) PROVE TypeInv'
  BY <1>22 DEF Finish, Leave, Goto, Ends, dbVars, cacheVars, callVars
<1>23. ASSUME NEW c \in Conns, Expire(c) PROVE TypeInv'
  BY <1>23 DEF Expire, Live, dbVars, cacheVars, callVars
<1>24. ASSUME NEW allowlist \in Allowlists, Restart(allowlist) PROVE TypeInv'
  BY <1>24 DEF Restart, dbVars, cacheVars, callVars
<1>25. QED
  BY <1>1, <1>2, <1>3, <1>4, <1>5, <1>6, <1>7, <1>8, <1>9, <1>10, <1>11, <1>12,
     <1>13, <1>14, <1>15, <1>16, <1>17, <1>18, <1>19, <1>20, <1>21, <1>22,
     <1>23, <1>24
  DEF Next, ResolveStep, ReportStep, DisableStep

-------------------------------------------------------------------------------
(* One owner per connection *)

\* Nothing is cached, nothing is in hand.
LEMMA OwnerInit == Init => OwnerInv
  BY DEF Init, InitWith, OwnerInv, OwnersInHand, NoEntry

\* No step changes the owner of a row that has one, and a value is stored for
\* the connection whose row it is.
LEMMA OwnerStep == TypeInv /\ OwnerInv /\ [Next]_vars => OwnerInv'
<1> SUFFICES ASSUME TypeInv, OwnerInv, [Next]_vars PROVE OwnerInv'
  OBVIOUS
<1> USE Constants DEF TypeInv, TypeOK, CallsEndWell, EntriesAreResolved, OwnerInv, OwnersInHand
<1>1. CASE UNCHANGED vars
  BY <1>1 DEF vars, dbVars, cacheVars, callVars
<1>2. ASSUME NEW p \in Procs, NEW c \in Conns, CallResolve(p, "idle", c, "resolved")
    PROVE OwnerInv'
  BY <1>2 DEF CallResolve, Goto, dbVars, cacheVars, callVars
<1>3. ASSUME NEW p \in Procs, NEW c \in Conns, NEW v \in Connection, ReceiveReport(p, c, v)
    PROVE OwnerInv'
  BY <1>3 DEF ReceiveReport, Goto, Reports, dbVars, cacheVars, callVars
<1>4. ASSUME NEW p \in Procs, NEW o \in Owners, CallDisableOwner(p, "idle", o, "disabled")
    PROVE OwnerInv'
  BY <1>4, Records DEF CallDisableOwner, Goto, dbVars, cacheVars, callVars
<1>5. ASSUME NEW p \in Procs, LookupRefused(p) PROVE OwnerInv'
  BY <1>5 DEF LookupRefused, Leave, Goto, dbVars, cacheVars, callVars, AnyLabel
<1>6. ASSUME NEW p \in Procs, LookupHit(p) PROVE OwnerInv'
  BY <1>6, Records
  DEF LookupHit, Live, StepWith, Goto, dbVars, cacheVars, callVars
<1>7. ASSUME NEW p \in Procs, LookupMiss(p) PROVE OwnerInv'
  BY <1>7
  DEF LookupMiss, Live, Step, Goto, dbVars, cacheVars, callVars, NoEntry
<1>8. ASSUME NEW p \in Procs, ReadRow(p) PROVE OwnerInv'
  BY <1>8 DEF ReadRow, StepWith, Goto, dbVars, cacheVars, callVars
<1>9. ASSUME NEW p \in Procs, ReadNoRow(p) PROVE OwnerInv'
  BY <1>9 DEF ReadNoRow, Step, Goto, dbVars, cacheVars, callVars
<1>10. ASSUME NEW p \in Procs, ResolveStoreDB(p) PROVE OwnerInv'
  <2>1. /\ \/ entry'[conn[p]] = entry[conn[p]] /\ ~entry[conn[p]].on
           \/ /\ entry'[conn[p]].kind = "resolved" /\ entry'[conn[p]].owner = got[p].owner
              /\ entry'[conn[p]].on => got[p].on /\ got[p].owner \notin disabledOwners
        /\ OthersKept(conn[p]) /\ disabledOwners' = disabledOwners
    BY <1>10, StoreDBEntries DEF ResolveStoreDB, Step
  <2>2. QED
    BY <1>10, <2>1 DEF ResolveStoreDB, Step, Goto, dbVars, OthersKept, NoEntry
<1>11. ASSUME NEW p \in Procs, ResolveStoreRefused(p) PROVE OwnerInv'
  <2>1. entry'[conn[p]].kind # "resolved" /\ OthersKept(conn[p])
    BY <1>11, PutEntries, Records DEF ResolveStoreRefused, OthersKept
  <2>2. QED
    BY <1>11, <2>1
    DEF ResolveStoreRefused, Leave, Goto, AnyLabel, dbVars, OthersKept, NoEntry
<1>12. ASSUME NEW p \in Procs, NEW v \in Connection, ApiAnswers(p, v)
    PROVE OwnerInv'
  BY <1>12 DEF ApiAnswers, Reports, StepWith, Goto, dbVars, cacheVars, callVars
<1>13. ASSUME NEW p \in Procs, ApiUnknown(p) PROVE OwnerInv'
  BY <1>13 DEF ApiUnknown, Step, Goto, dbVars, cacheVars, callVars
<1>14. ASSUME NEW p \in Procs, ResolveStoreUnknown(p) PROVE OwnerInv'
  <2>1. entry'[conn[p]].kind # "resolved" /\ OthersKept(conn[p])
    BY <1>14, PutEntries, Records DEF ResolveStoreUnknown, OthersKept
  <2>2. QED
    BY <1>14, <2>1
    DEF ResolveStoreUnknown, Leave, Goto, AnyLabel, dbVars, OthersKept, NoEntry
<1>15. ASSUME NEW p \in Procs, ResolveUpsert(p) PROVE OwnerInv'
  BY <1>15
  DEF ResolveUpsert, Upsert, Applied, Step, Goto, dbVars, cacheVars, callVars
<1>16. ASSUME NEW p \in Procs, ResolveStore(p) PROVE OwnerInv'
  <2>1. /\ entry'[conn[p]].kind = "resolved" /\ entry'[conn[p]].owner = got[p].owner
        /\ entry'[conn[p]].on = got[p].on /\ OthersKept(conn[p])
        /\ disabledOwners' = IF got[p].on THEN disabledOwners \ {got[p].owner}
                                          ELSE disabledOwners \cup {got[p].owner}
    BY <1>16, StoreEntries DEF ResolveStore, Step
  <2>2. QED
    BY <1>16, <2>1 DEF ResolveStore, Step, Goto, Applied, OthersKept, NoEntry
<1>17. ASSUME NEW p \in Procs, ReportUpsert(p) PROVE OwnerInv'
  BY <1>17
  DEF ReportUpsert, Upsert, Applied, Step, Goto, dbVars, cacheVars, callVars
<1>18. ASSUME NEW p \in Procs, ReportStore(p) PROVE OwnerInv'
  <2>1. /\ entry'[conn[p]].kind = "resolved" /\ entry'[conn[p]].owner = got[p].owner
        /\ entry'[conn[p]].on = got[p].on /\ OthersKept(conn[p])
        /\ disabledOwners' = IF got[p].on THEN disabledOwners \ {got[p].owner}
                                          ELSE disabledOwners \cup {got[p].owner}
    BY <1>18, StoreEntries DEF ReportStore
  <2>2. QED
    BY <1>18, <2>1
    DEF ReportStore, Leave, Goto, Applied, AnyLabel, OthersKept, NoEntry
<1>19. ASSUME NEW p \in Procs, DisableRows(p) PROVE OwnerInv'
  BY <1>19, Records DEF DisableRows, Step, Goto, dbVars, cacheVars, callVars
<1>20. ASSUME NEW p \in Procs, DisableCache(p) PROVE OwnerInv'
  BY <1>20, Records
  DEF DisableCache, disableOwner, Step, Goto, dbVars, cacheVars, callVars
<1>21. ASSUME NEW p \in Procs, CallFails(p) PROVE OwnerInv'
  BY <1>21 DEF CallFails, Leave, Goto, dbVars, cacheVars, callVars, AnyLabel
<1>22. ASSUME NEW p \in Procs, Finish(p) PROVE OwnerInv'
  BY <1>22 DEF Finish, Leave, Goto, Ends, dbVars, cacheVars, callVars, AnyLabel
<1>23. ASSUME NEW c \in Conns, Expire(c) PROVE OwnerInv'
  BY <1>23 DEF Expire, Live, dbVars, cacheVars, callVars
<1>24. ASSUME NEW allowlist \in Allowlists, Restart(allowlist) PROVE OwnerInv'
  BY <1>24 DEF Restart, dbVars, cacheVars, callVars, AnyLabel, NoEntry
<1>25. QED
  BY <1>1, <1>2, <1>3, <1>4, <1>5, <1>6, <1>7, <1>8, <1>9, <1>10, <1>11, <1>12,
     <1>13, <1>14, <1>15, <1>16, <1>17, <1>18, <1>19, <1>20, <1>21, <1>22,
     <1>23, <1>24
  DEF Next, ResolveStep, ReportStep, DisableStep

-------------------------------------------------------------------------------
(* Only admitted owners *)

\* Nothing is in hand.
LEMMA AdmittedInit == Init => AdmittedInHand
  BY DEF Init, InitWith, AdmittedInHand

\* The allowlist only changes in a restart, which ends every call; a value is
\* checked when it is read, and when it is looked up.
LEMMA AdmittedStep == TypeInv /\ AdmittedInHand /\ [Next]_vars => AdmittedInHand'
<1> SUFFICES ASSUME TypeInv, AdmittedInHand, [Next]_vars PROVE AdmittedInHand'
  OBVIOUS
<1> USE DEF TypeInv, TypeOK, CallsEndWell, AdmittedInHand, OwnerAllowed
<1>1. CASE UNCHANGED vars
  BY <1>1 DEF vars, dbVars, cacheVars, callVars
<1>2. ASSUME NEW p \in Procs, NEW c \in Conns, CallResolve(p, "idle", c, "resolved")
    PROVE AdmittedInHand'
  BY <1>2 DEF CallResolve, Goto, dbVars, cacheVars, callVars
<1>3. ASSUME NEW p \in Procs, NEW c \in Conns, NEW v \in Connection, ReceiveReport(p, c, v)
    PROVE AdmittedInHand'
  BY <1>3 DEF ReceiveReport, Goto, Reports, dbVars, cacheVars, callVars
<1>4. ASSUME NEW p \in Procs, NEW o \in Owners, CallDisableOwner(p, "idle", o, "disabled")
    PROVE AdmittedInHand'
  BY <1>4 DEF CallDisableOwner, Goto, dbVars, cacheVars, callVars
<1>5. ASSUME NEW p \in Procs, LookupRefused(p) PROVE AdmittedInHand'
  BY <1>5 DEF LookupRefused, Leave, Goto, dbVars, cacheVars, callVars, AnyLabel
<1>6. ASSUME NEW p \in Procs, LookupHit(p) PROVE AdmittedInHand'
  BY <1>6 DEF LookupHit, Live, StepWith, Goto, dbVars, cacheVars, callVars
<1>7. ASSUME NEW p \in Procs, LookupMiss(p) PROVE AdmittedInHand'
  BY <1>7 DEF LookupMiss, Live, Step, Goto, dbVars, cacheVars, callVars
<1>8. ASSUME NEW p \in Procs, ReadRow(p) PROVE AdmittedInHand'
  BY <1>8 DEF ReadRow, StepWith, Goto, dbVars, cacheVars, callVars
<1>9. ASSUME NEW p \in Procs, ReadNoRow(p) PROVE AdmittedInHand'
  BY <1>9 DEF ReadNoRow, Step, Goto, dbVars, cacheVars, callVars
<1>10. ASSUME NEW p \in Procs, ResolveStoreDB(p) PROVE AdmittedInHand'
  BY <1>10 DEF ResolveStoreDB, storeDB, Step, Goto, dbVars, cacheVars, callVars
<1>11. ASSUME NEW p \in Procs, ResolveStoreRefused(p) PROVE AdmittedInHand'
  BY <1>11
  DEF ResolveStoreRefused, Leave, Goto, dbVars, cacheVars, callVars, AnyLabel
<1>12. ASSUME NEW p \in Procs, NEW v \in Connection, ApiAnswers(p, v)
    PROVE AdmittedInHand'
  BY <1>12 DEF ApiAnswers, Reports, StepWith, Goto, dbVars, cacheVars, callVars
<1>13. ASSUME NEW p \in Procs, ApiUnknown(p) PROVE AdmittedInHand'
  BY <1>13 DEF ApiUnknown, Step, Goto, dbVars, cacheVars, callVars
<1>14. ASSUME NEW p \in Procs, ResolveStoreUnknown(p) PROVE AdmittedInHand'
  BY <1>14
  DEF ResolveStoreUnknown, Leave, Goto, dbVars, cacheVars, callVars, AnyLabel
<1>15. ASSUME NEW p \in Procs, ResolveUpsert(p) PROVE AdmittedInHand'
  BY <1>15
  DEF ResolveUpsert, Upsert, Applied, Step, Goto, dbVars, cacheVars, callVars
<1>16. ASSUME NEW p \in Procs, ResolveStore(p) PROVE AdmittedInHand'
  BY <1>16
  DEF ResolveStore, store, Applied, Step, Goto, dbVars, cacheVars, callVars
<1>17. ASSUME NEW p \in Procs, ReportUpsert(p) PROVE AdmittedInHand'
  BY <1>17
  DEF ReportUpsert, Upsert, Applied, Step, Goto, dbVars, cacheVars, callVars
<1>18. ASSUME NEW p \in Procs, ReportStore(p) PROVE AdmittedInHand'
  BY <1>18
  DEF ReportStore, store, Applied, Leave, Goto, dbVars, cacheVars, callVars,
      AnyLabel
<1>19. ASSUME NEW p \in Procs, DisableRows(p) PROVE AdmittedInHand'
  BY <1>19 DEF DisableRows, Step, Goto, dbVars, cacheVars, callVars
<1>20. ASSUME NEW p \in Procs, DisableCache(p) PROVE AdmittedInHand'
  BY <1>20
  DEF DisableCache, disableOwner, Step, Goto, dbVars, cacheVars, callVars
<1>21. ASSUME NEW p \in Procs, CallFails(p) PROVE AdmittedInHand'
  BY <1>21 DEF CallFails, Leave, Goto, dbVars, cacheVars, callVars, AnyLabel
<1>22. ASSUME NEW p \in Procs, Finish(p) PROVE AdmittedInHand'
  BY <1>22 DEF Finish, Leave, Goto, Ends, dbVars, cacheVars, callVars, AnyLabel
<1>23. ASSUME NEW c \in Conns, Expire(c) PROVE AdmittedInHand'
  BY <1>23 DEF Expire, Live, dbVars, cacheVars, callVars
<1>24. ASSUME NEW allowlist \in Allowlists, Restart(allowlist)
    PROVE AdmittedInHand'
  BY <1>24 DEF Restart, dbVars, cacheVars, callVars, AnyLabel
<1>25. QED
  BY <1>1, <1>2, <1>3, <1>4, <1>5, <1>6, <1>7, <1>8, <1>9, <1>10, <1>11, <1>12,
     <1>13, <1>14, <1>15, <1>16, <1>17, <1>18, <1>19, <1>20, <1>21, <1>22,
     <1>23, <1>24
  DEF Next, ResolveStep, ReportStep, DisableStep

-------------------------------------------------------------------------------
(* No resurrection *)

\* Nobody has been switched off.
LEMMA OffInit == Init => OffInv
  BY DEF Init, InitWith, OffInv, RowsAreOff, LateReads, NoResurrection, NoEntry

\* The marker outlives every read from before the switch, and only an enabled
\* report removes it.
LEMMA OffStep == TypeInv /\ OffInv /\ [Next]_vars => OffInv'
<1> SUFFICES ASSUME TypeInv, OffInv, [Next]_vars PROVE OffInv'
  OBVIOUS
<1> USE Constants DEF TypeInv, TypeOK, CallsEndWell, EntriesAreResolved, OffInv, RowsAreOff, LateReads, NoResurrection, Disabling
<1>1. CASE UNCHANGED vars
  BY <1>1 DEF vars, dbVars, cacheVars, callVars
<1>2. ASSUME NEW p \in Procs, NEW c \in Conns, CallResolve(p, "idle", c, "resolved")
    PROVE OffInv'
  BY <1>2 DEF CallResolve, Goto, dbVars, cacheVars, callVars
<1>3. ASSUME NEW p \in Procs, NEW c \in Conns, NEW v \in Connection, ReceiveReport(p, c, v)
    PROVE OffInv'
  BY <1>3 DEF ReceiveReport, Goto, Reports, dbVars, cacheVars, callVars
<1>4. ASSUME NEW p \in Procs, NEW o \in Owners, CallDisableOwner(p, "idle", o, "disabled")
    PROVE OffInv'
  BY <1>4, Records DEF CallDisableOwner, Goto, dbVars, cacheVars, callVars
<1>5. ASSUME NEW p \in Procs, LookupRefused(p) PROVE OffInv'
  BY <1>5 DEF LookupRefused, Leave, Goto, dbVars, cacheVars, callVars, AnyLabel
<1>6. ASSUME NEW p \in Procs, LookupHit(p) PROVE OffInv'
  BY <1>6, Records
  DEF LookupHit, Live, StepWith, Goto, dbVars, cacheVars, callVars
<1>7. ASSUME NEW p \in Procs, LookupMiss(p) PROVE OffInv'
  BY <1>7
  DEF LookupMiss, Live, Step, Goto, dbVars, cacheVars, callVars, NoEntry
<1>8. ASSUME NEW p \in Procs, ReadRow(p) PROVE OffInv'
  BY <1>8 DEF ReadRow, StepWith, Goto, dbVars, cacheVars, callVars
<1>9. ASSUME NEW p \in Procs, ReadNoRow(p) PROVE OffInv'
  BY <1>9 DEF ReadNoRow, Step, Goto, dbVars, cacheVars
<1>10. ASSUME NEW p \in Procs, ResolveStoreDB(p) PROVE OffInv'
  <2>1. /\ \/ entry'[conn[p]] = entry[conn[p]] /\ ~entry[conn[p]].on
           \/ /\ entry'[conn[p]].kind = "resolved" /\ entry'[conn[p]].owner = got[p].owner
              /\ entry'[conn[p]].on => got[p].on /\ got[p].owner \notin disabledOwners
        /\ OthersKept(conn[p]) /\ disabledOwners' = disabledOwners
    BY <1>10, StoreDBEntries DEF ResolveStoreDB, Step
  <2>2. QED
    BY <1>10, <2>1 DEF ResolveStoreDB, Step, Goto, dbVars, OthersKept, NoEntry
<1>11. ASSUME NEW p \in Procs, ResolveStoreRefused(p) PROVE OffInv'
  <2>1. entry'[conn[p]].kind # "resolved" /\ OthersKept(conn[p])
    BY <1>11, PutEntries, Records DEF ResolveStoreRefused, OthersKept
  <2>2. QED
    BY <1>11, <2>1
    DEF ResolveStoreRefused, Leave, Goto, AnyLabel, dbVars, OthersKept, NoEntry
<1>12. ASSUME NEW p \in Procs, NEW v \in Connection, ApiAnswers(p, v)
    PROVE OffInv'
  BY <1>12 DEF ApiAnswers, Reports, StepWith, Goto, dbVars, cacheVars, callVars
<1>13. ASSUME NEW p \in Procs, ApiUnknown(p) PROVE OffInv'
  BY <1>13 DEF ApiUnknown, Step, Goto, dbVars, cacheVars, callVars
<1>14. ASSUME NEW p \in Procs, ResolveStoreUnknown(p) PROVE OffInv'
  <2>1. entry'[conn[p]].kind # "resolved" /\ OthersKept(conn[p])
    BY <1>14, PutEntries, Records DEF ResolveStoreUnknown, OthersKept
  <2>2. QED
    BY <1>14, <2>1
    DEF ResolveStoreUnknown, Leave, Goto, AnyLabel, dbVars, OthersKept, NoEntry
<1>15. ASSUME NEW p \in Procs, ResolveUpsert(p) PROVE OffInv'
  <2>1. RowsAreOff'
    BY <1>15 DEF ResolveUpsert, Upsert, Applied, Step, dbVars
  <2>2. LateReads'
    BY <1>15 DEF ResolveUpsert, Upsert, Applied, Step, Goto, cacheVars, dbVars
  <2>3. NoResurrection'
    BY <1>15 DEF ResolveUpsert, Upsert, Applied, Step, Goto, cacheVars, dbVars
  <2>4. QED
    BY <2>1, <2>2, <2>3
<1>16. ASSUME NEW p \in Procs, ResolveStore(p) PROVE OffInv'
  <2>1. /\ entry'[conn[p]].kind = "resolved" /\ entry'[conn[p]].owner = got[p].owner
        /\ entry'[conn[p]].on = got[p].on /\ OthersKept(conn[p])
        /\ disabledOwners' = IF got[p].on THEN disabledOwners \ {got[p].owner}
                                          ELSE disabledOwners \cup {got[p].owner}
    BY <1>16, StoreEntries DEF ResolveStore, Step
  <2>2. QED
    BY <1>16, <2>1 DEF ResolveStore, Step, Goto, Applied, OthersKept, NoEntry
<1>17. ASSUME NEW p \in Procs, ReportUpsert(p) PROVE OffInv'
  <2>1. RowsAreOff'
    BY <1>17 DEF ReportUpsert, Upsert, Applied, Step, dbVars
  <2>2. LateReads'
    BY <1>17 DEF ReportUpsert, Upsert, Applied, Step, Goto, cacheVars, dbVars
  <2>3. NoResurrection'
    BY <1>17 DEF ReportUpsert, Upsert, Applied, Step, Goto, cacheVars, dbVars
  <2>4. QED
    BY <2>1, <2>2, <2>3
<1>18. ASSUME NEW p \in Procs, ReportStore(p) PROVE OffInv'
  <2>1. /\ entry'[conn[p]].kind = "resolved" /\ entry'[conn[p]].owner = got[p].owner
        /\ entry'[conn[p]].on = got[p].on /\ OthersKept(conn[p])
        /\ disabledOwners' = IF got[p].on THEN disabledOwners \ {got[p].owner}
                                          ELSE disabledOwners \cup {got[p].owner}
    BY <1>18, StoreEntries DEF ReportStore
  <2>2. QED
    BY <1>18, <2>1
    DEF ReportStore, Leave, Goto, Applied, AnyLabel, OthersKept, NoEntry
<1>19. ASSUME NEW p \in Procs, DisableRows(p) PROVE OffInv'
  BY <1>19, Records DEF DisableRows, Step, Goto, dbVars, cacheVars, callVars
<1>20. ASSUME NEW p \in Procs, DisableCache(p) PROVE OffInv'
  <2>1. RowsAreOff'
    BY <1>20 DEF DisableCache, dbVars
  <2>2. LateReads'
    BY <1>20 DEF DisableCache, disableOwner, Step, Goto, dbVars
  <2>3. NoResurrection'
    <3>1. ASSUME NEW c \in Conns, entry'[c].kind = "resolved", entry'[c].on
          PROVE  entry'[c] = entry[c] /\ entry[c].owner # got[p].owner
      BY <1>20, <3>1, Records DEF DisableCache, disableOwner
    <3>2. QED
      BY <1>20, <3>1 DEF DisableCache, Step, Goto, dbVars
  <2>4. QED
    BY <2>1, <2>2, <2>3
<1>21. ASSUME NEW p \in Procs, CallFails(p) PROVE OffInv'
  BY <1>21 DEF CallFails, Leave, Goto, dbVars, cacheVars, callVars, AnyLabel
<1>22. ASSUME NEW p \in Procs, Finish(p) PROVE OffInv'
  BY <1>22 DEF Finish, Leave, Goto, Ends, dbVars, cacheVars, callVars, AnyLabel
<1>23. ASSUME NEW c \in Conns, Expire(c) PROVE OffInv'
  BY <1>23 DEF Expire, Live, dbVars, cacheVars, callVars
<1>24. ASSUME NEW allowlist \in Allowlists, Restart(allowlist) PROVE OffInv'
  BY <1>24 DEF Restart, dbVars, cacheVars, callVars, AnyLabel, NoEntry
<1>25. QED
  BY <1>1, <1>2, <1>3, <1>4, <1>5, <1>6, <1>7, <1>8, <1>9, <1>10, <1>11, <1>12,
     <1>13, <1>14, <1>15, <1>16, <1>17, <1>18, <1>19, <1>20, <1>21, <1>22,
     <1>23, <1>24
  DEF Next, ResolveStep, ReportStep, DisableStep

-------------------------------------------------------------------------------
(* The cache is bounded *)

\* No answer is cached.
LEMMA CacheInit == Init => CacheInv
<1> SUFFICES ASSUME Init PROVE CacheInv
  OBVIOUS
<1>1. Cached = {}
  BY DEF Init, InitWith, Cached, NoEntry
<1>2. QED
  BY <1>1, Constants, FS_EmptySet DEF CacheInv, CacheBounded

\* A cache that only loses answers stays within the bound.
LEMMA Shrinks == CacheInv /\ Cached' \subseteq Cached => CacheInv'
<1> SUFFICES ASSUME CacheInv, Cached' \subseteq Cached PROVE CacheInv'
  OBVIOUS
<1>1. IsFiniteSet(Cached') /\ Cardinality(Cached') <= Cardinality(Cached)
  BY FS_Subset DEF CacheInv
<1>2. Cardinality(Cached) \in Nat /\ Cardinality(Cached') \in Nat
  BY <1>1, FS_CardinalityType DEF CacheInv
<1>3. QED
  BY <1>1, <1>2, Constants DEF CacheInv, CacheBounded

\* putLocked adds an answer only where there is room, or in place of another.
LEMMA PutCount ==
  ASSUME TypeOK, CacheInv, NEW c \in Conns, NEW e \in Entry, e.kind # "none", Put(c, e)
  PROVE  CacheInv'
<1> USE DEF TypeOK
<1>1. IsFiniteSet(Cached) /\ Cardinality(Cached) \in Nat /\ Cardinality(Cached) <= MaxEntries
  BY FS_CardinalityType DEF CacheInv, CacheBounded
<1>2. CASE entry[c].kind # "none"
  <2>1. Cached' \subseteq Cached
    BY <1>2 DEF Put, Cached, NoEntry
  <2>2. QED
    BY <2>1, Shrinks
<1>3. CASE entry[c].kind = "none" /\ ~(Cardinality(Cached) >= MaxEntries)
  <2>1. Cached' = Cached \cup {c} /\ c \notin Cached
    BY <1>3 DEF Put, Cached, NoEntry
  <2>2. IsFiniteSet(Cached') /\ Cardinality(Cached') = Cardinality(Cached) + 1
    BY <1>1, <2>1, FS_AddElement
  <2>3. QED
    BY <1>1, <1>3, <2>2, Constants DEF CacheInv, CacheBounded
<1>4. CASE entry[c].kind = "none" /\ Cardinality(Cached) >= MaxEntries
  <2>1. PICK d \in Cached : entry' = [b \in Conns |-> IF b = c THEN e
                                                    ELSE IF b \in {d} THEN NoEntry ELSE entry[b]]
    BY <1>4 DEF Put
  <2>2. Cached' = (Cached \ {d}) \cup {c} /\ c \notin Cached \ {d}
    BY <1>4, <2>1 DEF Cached, NoEntry
  <2>3. /\ IsFiniteSet(Cached \ {d})
        /\ Cardinality(Cached \ {d}) = Cardinality(Cached) - 1
    BY <1>1, FS_RemoveElement
  <2>4. IsFiniteSet(Cached') /\ Cardinality(Cached') = Cardinality(Cached \ {d}) + 1
    BY <2>2, <2>3, FS_AddElement
  <2>5. QED
    BY <1>1, <2>3, <2>4, Constants DEF CacheInv, CacheBounded
<1>5. QED
  BY <1>2, <1>3, <1>4

\* Answers enter the cache through putLocked only.
LEMMA CacheStep == TypeInv /\ CacheInv /\ [Next]_vars => CacheInv'
<1> SUFFICES ASSUME TypeInv, CacheInv, [Next]_vars PROVE CacheInv'
  OBVIOUS
<1> USE Constants DEF TypeInv, TypeOK, CallsEndWell
<1>1. CASE UNCHANGED vars
  BY <1>1, Shrinks DEF vars, cacheVars, Cached
<1>2. ASSUME NEW p \in Procs, NEW c \in Conns, CallResolve(p, "idle", c, "resolved")
    PROVE CacheInv'
  BY <1>2, Shrinks DEF CallResolve, Cached, dbVars, cacheVars
<1>3. ASSUME NEW p \in Procs, NEW c \in Conns, NEW v \in Connection, ReceiveReport(p, c, v)
    PROVE CacheInv'
  BY <1>3, Shrinks DEF ReceiveReport, Cached, dbVars, cacheVars
<1>4. ASSUME NEW p \in Procs, NEW o \in Owners, CallDisableOwner(p, "idle", o, "disabled")
    PROVE CacheInv'
  BY <1>4, Shrinks DEF CallDisableOwner, Cached, dbVars, cacheVars
<1>5. ASSUME NEW p \in Procs, LookupRefused(p) PROVE CacheInv'
  BY <1>5, Shrinks DEF LookupRefused, Cached, dbVars, cacheVars
<1>6. ASSUME NEW p \in Procs, LookupHit(p) PROVE CacheInv'
  BY <1>6, Shrinks DEF LookupHit, Cached, dbVars, cacheVars
<1>7. ASSUME NEW p \in Procs, LookupMiss(p) PROVE CacheInv'
  BY <1>7, Shrinks DEF LookupMiss, Cached, NoEntry
<1>8. ASSUME NEW p \in Procs, ReadRow(p) PROVE CacheInv'
  BY <1>8, Shrinks DEF ReadRow, Cached, dbVars, cacheVars
<1>9. ASSUME NEW p \in Procs, ReadNoRow(p) PROVE CacheInv'
  BY <1>9, Shrinks DEF ReadNoRow, Cached, dbVars, cacheVars
<1>10. ASSUME NEW p \in Procs, ResolveStoreDB(p) PROVE CacheInv'
  <2> DEFINE v == [got[p] EXCEPT !.on = got[p].on /\ got[p].owner \notin disabledOwners]
  <2>1. v \in Connection
    BY <1>10, Records DEF ResolveStoreDB, Step
  <2> HIDE DEF v
  <2>2. CASE Put(conn[p], Resolved(v))
    BY <2>1, <2>2, PutCount, Records
  <2>3. CASE UNCHANGED entry
    BY <2>3, Shrinks DEF Cached
  <2>4. QED
    BY <1>10, <2>2, <2>3 DEF ResolveStoreDB, storeDB, v
<1>11. ASSUME NEW p \in Procs, ResolveStoreRefused(p) PROVE CacheInv'
  BY <1>11, PutCount, Records DEF ResolveStoreRefused
<1>12. ASSUME NEW p \in Procs, NEW v \in Connection, ApiAnswers(p, v)
    PROVE CacheInv'
  BY <1>12, Shrinks DEF ApiAnswers, Cached, dbVars, cacheVars
<1>13. ASSUME NEW p \in Procs, ApiUnknown(p) PROVE CacheInv'
  BY <1>13, Shrinks DEF ApiUnknown, Cached, dbVars, cacheVars
<1>14. ASSUME NEW p \in Procs, ResolveStoreUnknown(p) PROVE CacheInv'
  BY <1>14, PutCount, Records DEF ResolveStoreUnknown
<1>15. ASSUME NEW p \in Procs, ResolveUpsert(p) PROVE CacheInv'
  BY <1>15, Shrinks DEF ResolveUpsert, Cached, cacheVars
<1>16. ASSUME NEW p \in Procs, ResolveStore(p) PROVE CacheInv'
  BY <1>16, PutCount, Records DEF ResolveStore, store, Step
<1>17. ASSUME NEW p \in Procs, ReportUpsert(p) PROVE CacheInv'
  BY <1>17, Shrinks DEF ReportUpsert, Cached, cacheVars
<1>18. ASSUME NEW p \in Procs, ReportStore(p) PROVE CacheInv'
  BY <1>18, PutCount, Records DEF ReportStore, store, Step
<1>19. ASSUME NEW p \in Procs, DisableRows(p) PROVE CacheInv'
  BY <1>19, Shrinks DEF DisableRows, Cached, dbVars, cacheVars
<1>20. ASSUME NEW p \in Procs, DisableCache(p) PROVE CacheInv'
  <2>1. \A c \in Conns : entry'[c].kind = entry[c].kind
    BY <1>20, Records DEF DisableCache, disableOwner
  <2>2. QED
    BY <2>1, Shrinks DEF Cached
<1>21. ASSUME NEW p \in Procs, CallFails(p) PROVE CacheInv'
  BY <1>21, Shrinks DEF CallFails, Cached, dbVars, cacheVars
<1>22. ASSUME NEW p \in Procs, Finish(p) PROVE CacheInv'
  BY <1>22, Shrinks DEF Finish, Cached, dbVars, cacheVars
<1>23. ASSUME NEW c \in Conns, Expire(c) PROVE CacheInv'
  BY <1>23, Shrinks DEF Expire, Cached, dbVars, cacheVars
<1>24. ASSUME NEW allowlist \in Allowlists, Restart(allowlist) PROVE CacheInv'
  BY <1>24, Shrinks DEF Restart, Cached, NoEntry
<1>25. QED
  BY <1>1, <1>2, <1>3, <1>4, <1>5, <1>6, <1>7, <1>8, <1>9, <1>10, <1>11, <1>12,
     <1>13, <1>14, <1>15, <1>16, <1>17, <1>18, <1>19, <1>20, <1>21, <1>22,
     <1>23, <1>24
  DEF Next, ResolveStep, ReportStep, DisableStep

-------------------------------------------------------------------------------
(* Theorems *)

\* The types of the service's state, and what a goroutine carries at each
\* point of Resolve, HandleBusinessConnection and DisableOwner.
THEOREM ConnectionsTypes == Spec => []TypeOK
<1>1. TypeInv => TypeOK
  BY DEF TypeInv
<1>2. QED
  BY <1>1, TypeInit, TypeStep, PTL DEF Spec

\* "A connection belongs to the account holder it was created for, for its
\* whole life", whatever Telegram, restarts and concurrent calls do.
THEOREM ConnectionsOneOwner == Spec => []OneOwnerPerConnection
<1>1. OwnerInv => OneOwnerPerConnection
  BY DEF OwnerInv, OwnersInHand, OneOwnerPerConnection
<1>2. QED
  BY <1>1, TypeInit, TypeStep, OwnerInit, OwnerStep, PTL DEF Spec

\* No caller is handed a connection of a holder outside the allowlist the
\* process was started with, whatever earlier allowlists let into the table.
THEOREM ConnectionsAdmitted == Spec => []OnlyAdmittedOwners
<1>1. AdmittedInHand => OnlyAdmittedOwners
  BY DEF AdmittedInHand, OnlyAdmittedOwners
<1>2. QED
  BY <1>1, TypeInit, TypeStep, AdmittedInit, AdmittedStep, PTL DEF Spec

\* connectionCache never serves a connection as enabled after DisableOwner
\* switched its owner off, however many database reads were under way.
THEOREM ConnectionsNoResurrection == Spec => []NoResurrection
<1>1. OffInv => NoResurrection
  BY DEF OffInv
<1>2. QED
  BY <1>1, TypeInit, TypeStep, OffInit, OffStep, PTL DEF Spec

\* putLocked keeps the cache within connectionCacheMaxEntries.
THEOREM ConnectionsCacheBounded == Spec => []CacheBounded
<1>1. CacheInv => CacheBounded
  BY DEF CacheInv
<1>2. QED
  BY <1>1, TypeInit, TypeStep, CacheInit, CacheStep, PTL DEF Spec

==============================================================================

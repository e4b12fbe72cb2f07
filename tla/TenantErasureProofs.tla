-------------------------- MODULE TenantErasureProofs --------------------------
(***************************************************************************)
(* Theorems of TenantErasure, for any number of shard workers, fetchers,   *)
(* outbox workers, messages and codes.  Of the exclusion they use the      *)
(* promise of TenantExclusion only.                                        *)
(***************************************************************************)
EXTENDS TenantErasure, TLAPS

\* A resolution is under way.
Resolving == {"lookup", "read", "api", "storeDB", "storeRefused", "storeUnknown",
              "upsert", "store"}
\* A value is carried to a write.
Carrying == {"storeDB", "storeRefused", "upsert", "store", "report", "storeReport"}

\* A call carries what its next write needs and returns to where it was made.
CallsInv == \A p \in Procs :
    /\ pc[p] \in Resolving =>
           after[p] \in {"control", "capture", "mark", "recheck", "marking"}
    /\ pc[p] \in {"disableRows", "disableCache"} =>
           after[p] = "deleteAlerts" /\ got[p].owner = Owner
    /\ pc[p] \in Carrying => got[p] \in B!Connection
\* Only a message is captured or fetched; a confirmation is never captured.
Capturing(p) == \/ pc[p] \in {"capture", "mark", "awaitSave", "awaitMark", "recheck", "download"}
                \/ pc[p] \in Resolving /\ after[p] \in {"capture", "mark", "recheck", "marking"}
Controlling(p) == pc[p] = "control" \/ (pc[p] \in Resolving /\ after[p] = "control")
ItemsInv == \A p \in Procs :
    Capturing(p) \/ (Controlling(p) /\ code[p] = None) => item[p] \in Items
EntryInv == entry[Conn].kind = "resolved" => entry[Conn].owner = Owner
TypeInv == TypeOK /\ CallsInv /\ ItemsInv /\ EntryInv

\* The labels and the exclusion agree: a unit of work is inside, an eraser is
\* inside alone.
Working(p) == \/ pc[p] \in UnitLabels
              \/ pc[p] \in Resolving /\ after[p] \in {"recheck", "marking"}
Erasing(p) == pc[p] \in EraseLabels
ExclusionInv == \A p \in Procs :
    /\ Working(p) => p \in in[Owner]
    /\ Erasing(p) => p \in alone[Owner]
    /\ p \in alone[Owner] => in[Owner] = {p}

\* Once DisableOwner has run, only the instant before its second write leaves
\* an enabled answer behind it; and a resolution under the exclusion, which no
\* DisableOwner overlaps, never carries one.
Disabling == \E p \in Procs : pc[p] = "disableCache"
RowIsOff == Owner \in turnedOff => ~row[Conn].on
LateReads == \A p \in Procs :
    pc[p] = "storeDB" /\ got[p].on /\ Owner \in turnedOff =>
        Owner \in disabledOwners \/ Disabling
CacheIsOff == entry[Conn].kind = "resolved" /\ entry[Conn].on /\ Owner \in turnedOff => Disabling
Rechecks(p) == (pc[p] \in {"storeDB", "store"} /\ after[p] = "recheck") \/ pc[p] = "recheck"
FreshReads == \A p \in Procs : Rechecks(p) /\ got[p].on => Owner \notin turnedOff
OffInv == RowIsOff /\ LateReads /\ CacheIsOff /\ FreshReads

\* What the erasure has deleted stays deleted until it leaves.
ProgressOf(p) ==
    /\ pc[p] \in {"unlink", "deleteMedia", "sweep", "deleteMessages", "deleteOthers", "complete"}
           => outbox = {}
    /\ pc[p] \in {"sweep", "deleteMessages", "deleteOthers", "complete"}
           => \A m \in Items : media[m] = "none"
    /\ pc[p] \in {"deleteMessages", "deleteOthers", "complete"} => blobs = {}
    /\ pc[p] \in {"deleteOthers", "complete"} => messages = {}
ProgressInv == \A p \in Procs : ProgressOf(p)

\* An erasure runs on its confirmed code, and ends as the only request.
CodesOf(p) ==
    /\ pc[p] \in {"awaitConfirm"} \cup EraseLabels => code[p] \in Codes
    /\ Erasing(p) /\ pc[p] # "claim" => request[code[p]] = "consumed"
    /\ pc[p] = "complete" => \A j \in Codes \ {code[p]} : request[j] = "none"
CodesInv == \A p \in Procs : CodesOf(p)

\* Told that everything is gone, the owner stays switched off.
GoneInv == erased => Owner \in turnedOff /\ TenantIsEmpty

DataInv == ProgressInv /\ CodesInv /\ GoneInv

-------------------------------------------------------------------------------
(* Steps *)

\* The records of Connections, for the one owner there is here.
LEMMA Records ==
  /\ B!Connection = [owner : {Owner}, on : BOOLEAN]
  /\ B!AnyConn = Conn
  /\ NoOwner # Owner
  /\ B!Nothing.owner = NoOwner /\ ~B!Nothing.on /\ B!Nothing \notin B!Connection
  /\ B!NoEntry \in B!Entry /\ B!NoEntry.kind = "none"
  /\ \A v \in B!Connection : v.owner = Owner /\ v.on \in BOOLEAN
  /\ \A b \in BOOLEAN : /\ [owner |-> Owner, on |-> b] \in B!Connection
                        /\ [owner |-> Owner, on |-> b].owner = Owner
                        /\ [owner |-> Owner, on |-> b].on = b
  /\ \A e \in B!Entry : /\ [e EXCEPT !.on = FALSE] \in B!Entry
                        /\ [e EXCEPT !.on = FALSE].kind = e.kind
                        /\ [e EXCEPT !.on = FALSE].owner = e.owner
                        /\ ~[e EXCEPT !.on = FALSE].on
  /\ \A v \in B!Connection, b \in BOOLEAN :
         /\ [v EXCEPT !.on = b] \in B!Connection
         /\ [v EXCEPT !.on = b].on = b
  /\ \A v \in B!Connection : /\ B!Resolved(v) \in B!Entry /\ B!Resolved(v).kind = "resolved"
                             /\ B!Resolved(v).owner = Owner /\ B!Resolved(v).on = v.on
  /\ [kind |-> "refused", owner |-> Owner, on |-> FALSE] \in B!Entry
  /\ [kind |-> "unknown", owner |-> NoOwner, on |-> FALSE] \in B!Entry
  BY ErasureAssumption
  DEF B!Connection, B!AnyConn, B!Nothing, B!NoEntry, B!Entry, B!Kinds, B!Resolved

\* The other goroutines are where they were.
OthersStay(p) == \A q \in Procs \ {p} :
    /\ pc'[q] = pc[q] /\ after'[q] = after[q] /\ got'[q] = got[q]
    /\ item'[q] = item[q] /\ code'[q] = code[q]

\* A step of the handlers, of an erasure or of a background loop, seen from
\* Connections: nothing but a call that begins or is over.
Outside(p) ==
    /\ UNCHANGED bizVars
    /\ OthersStay(p)
    /\ pc[p] \notin Resolving \cup Carrying \cup {"disableRows", "disableCache"}
    /\ pc'[p] \notin Carrying \cup {"recheck", "disableCache"}
    /\ pc'[p] \in Resolving => after'[p] \in {"control", "capture", "mark", "recheck", "marking"}
    /\ pc'[p] = "disableRows" => after'[p] = "deleteAlerts" /\ got'[p].owner = Owner

\* Where a step of a call of Connections leads.
CallMoves(p) ==
    /\ OthersStay(p)
    /\ item'[p] = item[p] /\ code'[p] = code[p]
    /\ UNCHANGED <<guardVars, dataVars, codeVars>>
    /\ \/ /\ pc[p] \in Resolving
          /\ pc'[p] \in {after[p], "ended"} \/ (pc'[p] \in Resolving /\ after'[p] = after[p])
       \/ /\ pc[p] = "idle" /\ pc'[p] = "report"
       \/ /\ pc[p] \in {"report", "storeReport"} /\ pc'[p] \in {"storeReport", "ended"}
       \/ /\ pc[p] = "disableRows" /\ pc'[p] = "ended"
       \/ /\ pc[p] = "disableRows" /\ pc'[p] = "disableCache" /\ after'[p] = after[p]
       \/ /\ pc[p] = "disableCache" /\ pc'[p] = "deleteAlerts"

\* putLocked replaces the one entry.
LEMMA PutEntry ==
  ASSUME TypeOK, NEW e \in B!Entry, B!Put(Conn, e)
  PROVE  entry' \in [{Conn} -> B!Entry] /\ entry'[Conn] = e /\ stale' \subseteq {Conn}
  BY Records DEF B!Put, TypeOK, B!TypeOK

\* store leaves what was reported, and the marker with it.
LEMMA StoreEntry ==
  ASSUME TypeOK, NEW v \in B!Connection, B!store(Conn, v)
  PROVE  /\ entry' \in [{Conn} -> B!Entry] /\ stale' \subseteq {Conn}
         /\ entry'[Conn].kind = "resolved" /\ entry'[Conn].owner = Owner
         /\ entry'[Conn].on = v.on
         /\ disabledOwners' = IF v.on THEN disabledOwners \ {Owner} ELSE disabledOwners \cup {Owner}
  BY PutEntry, Records DEF B!store

\* storeDB leaves the row that was read, off if the owner is marked, or the
\* disabled entry that was there.
LEMMA StoreDBEntry ==
  ASSUME TypeOK, NEW v \in B!Connection, B!storeDB(Conn, v)
  PROVE  /\ entry' \in [{Conn} -> B!Entry] /\ stale' \subseteq {Conn}
         /\ \/ entry' = entry /\ ~entry[Conn].on
            \/ /\ entry'[Conn].kind = "resolved" /\ entry'[Conn].owner = Owner
               /\ entry'[Conn].on => v.on /\ Owner \notin disabledOwners
         /\ disabledOwners' = disabledOwners
<1> DEFINE b == v.on /\ v.owner \notin disabledOwners
           w == [v EXCEPT !.on = b]
<1>1. w \in B!Connection /\ (w.on => v.on /\ Owner \notin disabledOwners)
  <2>1. b \in BOOLEAN /\ (b => v.on /\ Owner \notin disabledOwners)
    BY Records
  <2> HIDE DEF b
  <2>2. QED
    BY <2>1, Records
<1> HIDE DEF w
<1>2. CASE v.on /\ entry[Conn].kind = "resolved" /\ ~entry[Conn].on
  BY <1>2 DEF B!storeDB, TypeOK, B!TypeOK
<1>3. CASE ~(v.on /\ entry[Conn].kind = "resolved" /\ ~entry[Conn].on)
  <2>1. B!Put(Conn, B!Resolved(w)) /\ disabledOwners' = disabledOwners
    BY <1>3 DEF B!storeDB, w
  <2>2. QED
    BY <1>1, <2>1, PutEntry, Records
<1>4. QED
  BY <1>2, <1>3

\* Handlers, erasures and background loops are outside of Connections.
LEMMA HandlersAreOutside ==
  ASSUME TypeOK, NEW p \in Procs, HandlerStep(p) PROVE Outside(p)
<1> USE DEF TypeOK, B!TypeOK, Outside, OthersStay, Resolving, Carrying, unitVars
<1>1. ASSUME NEW m \in Items \cup {None}, NEW k \in Codes \cup {None}, NEW l \in {"control", "capture", "mark"},
             StartUpdate(p, m, k, l)
      PROVE  Outside(p)
  BY <1>1 DEF StartUpdate, B!CallResolve, B!Goto, B!dbVars, B!cacheVars, bizVars
<1>2. CASE \/ \E m \in Items : ReceiveMessage(p, m) \/ ReceiveEdit(p, m) \/ ReceiveDeletion(p, m)
           \/ \E k \in Codes : ReceiveConfirmation(p, k)
  BY <1>1, <1>2 DEF ReceiveMessage, ReceiveEdit, ReceiveDeletion, ReceiveConfirmation
<1>3. CASE Abandon(p) \/ RecheckSkips(p) \/ MarkDeleted(p)
  BY <1>3
  DEF Abandon, RecheckSkips, MarkDeleted, ReleaseAndReturn, Return, B!Leave, B!Goto, B!AnyLabel
<1>4. CASE ControlConsumes(p) \/ CaptureSkips(p) \/ GiveUp(p) \/ AnswerNothing(p)
  BY <1>4
  DEF ControlConsumes, CaptureSkips, GiveUp, AnswerNothing, Return, B!Leave, B!Goto, B!AnyLabel
<1>5. CASE ControlConfirms(p) \/ ControlRequests(p) \/ CaptureAdmitted(p) \/ MarkAdmitted(p) \/ AnswerRequests(p)
  BY <1>5
  DEF ControlConfirms, ControlRequests, CaptureAdmitted, MarkAdmitted, AnswerRequests, Goto, B!Leave,
      B!Goto, B!AnyLabel
<1>6. CASE ControlPasses(p) \/ EnterSave(p)
  BY <1>6
  DEF ControlPasses, EnterSave, B!CallResolve, B!Goto, B!dbVars, B!cacheVars, bizVars
<1>7. CASE Save(p) \/ \E attached \in BOOLEAN : SaveMedia(p, attached)
  BY <1>7 DEF Save, SaveMedia, Goto, B!Leave, B!Goto, B!AnyLabel
<1>8. QED
  BY <1>2, <1>3, <1>4, <1>5, <1>6, <1>7 DEF HandlerStep

\* ... so are the steps of Request and Confirm, ...
LEMMA ErasuresAreOutside ==
  ASSUME TypeOK, NEW p \in Procs, ErasureStep(p) PROVE Outside(p)
<1> USE DEF TypeOK, B!TypeOK, Outside, OthersStay, Resolving, Carrying, unitVars
<1>1. CASE \/ EnterRequest(p) \/ EnterConfirm(p) \/ DeleteAlerts(p) \/ AllUnlinked(p)
           \/ AllMediaDeleted(p) \/ Sweep(p) \/ DeleteMessages(p) \/ DeleteOthers(p)
  BY <1>1
  DEF EnterRequest, EnterConfirm, DeleteAlerts, AllUnlinked, AllMediaDeleted, Sweep,
      DeleteMessages, DeleteOthers, Goto, B!Leave, B!Goto, B!AnyLabel
<1>2. CASE \/ \E m \in Items : UnlinkFile(p, m)
           \/ \E batch \in SUBSET Items : DeleteMediaBatch(p, batch)
  BY <1>2 DEF UnlinkFile, DeleteMediaBatch, Goto, B!Leave, B!Goto, B!AnyLabel
<1>3. CASE ClaimRefused(p) \/ Complete(p) \/ \E k \in Codes : Issue(p, k)
  BY <1>3 DEF ClaimRefused, Complete, Issue, ReleaseAndReturn, Return, B!Leave, B!Goto, B!AnyLabel
<1>4. CASE Claim(p)
  <2>1. got'[p].owner = Owner
    BY <1>4 DEF Claim, B!CallDisableOwner
  <2>2. QED
    BY <1>4, <2>1 DEF Claim, B!CallDisableOwner, B!Goto, B!dbVars, B!cacheVars, bizVars
<1>5. QED
  BY <1>1, <1>2, <1>3, <1>4 DEF ErasureStep

\* ... the fetcher, the outbox worker, and a unit that fails.
LEMMA LoopsAreOutside ==
  ASSUME TypeOK, NEW p \in Procs, FetcherStep(p) \/ WorkerStep(p) \/ UnitFails(p) PROVE Outside(p)
<1> USE DEF TypeOK, B!TypeOK, Outside, OthersStay, Resolving, Carrying, unitVars
<1>1. CASE \/ \E m \in Items : FetchStarts(p, m) \/ ClaimAlert(p, m)
           \/ Download(p) \/ Deliver(p)
  BY <1>1 DEF FetchStarts, ClaimAlert, Download, Deliver, Goto, B!Leave, B!Goto, B!AnyLabel
<1>2. CASE MarkStored(p) \/ MarkSent(p) \/ UnitFails(p)
  BY <1>2
  DEF MarkStored, MarkSent, UnitFails, UnitLabels, EraseLabels, ReleaseAndReturn, Return, B!Leave,
      B!Goto, B!AnyLabel
<1>3. QED
  BY <1>1, <1>2 DEF FetcherStep, WorkerStep

\* Where the steps of Resolve, HandleBusinessConnection and DisableOwner lead.
LEMMA CallsMove ==
  ASSUME TypeInv, NEW p \in Procs, BusinessStep(p) PROVE CallMoves(p)
<1> USE DEF TypeInv, TypeOK, B!TypeOK, CallsInv, CallMoves, OthersStay, Resolving, unitVars
<1>1. UNCHANGED <<guardVars, dataVars, codeVars>> /\ item' = item /\ code' = code
  BY DEF BusinessStep
<1>2. CASE B!LookupRefused(p) \/ B!LookupHit(p) \/ B!LookupMiss(p)
  BY <1>1, <1>2 DEF B!LookupRefused, B!LookupHit, B!LookupMiss, B!Leave, B!Step, B!StepWith, B!Goto
<1>3. CASE \/ B!ReadRow(p) \/ B!ReadNoRow(p) \/ B!ApiUnknown(p)
           \/ \E v \in B!Connection : B!ApiAnswers(p, v)
  BY <1>1, <1>3 DEF B!ReadRow, B!ReadNoRow, B!ApiUnknown, B!ApiAnswers, B!Step, B!StepWith, B!Goto
<1>4. CASE \/ B!ResolveStoreDB(p) \/ B!ResolveStoreRefused(p) \/ B!ResolveStoreUnknown(p)
           \/ B!ResolveStore(p)
  BY <1>1, <1>4
  DEF B!ResolveStoreDB, B!ResolveStoreRefused, B!ResolveStoreUnknown, B!ResolveStore,
      B!Leave, B!Step, B!Goto
<1>5. CASE B!ResolveUpsert(p) \/ B!ReportUpsert(p)
  BY <1>1, <1>5 DEF B!ResolveUpsert, B!ReportUpsert, B!Upsert, B!Step, B!Goto
<1>6. CASE B!ReportStore(p) \/ B!CallFails(p)
  BY <1>1, <1>6 DEF B!ReportStore, B!CallFails, B!Leave, B!Goto
<1>7. CASE B!DisableRows(p) \/ B!DisableCache(p)
  BY <1>1, <1>7 DEF B!DisableRows, B!DisableCache, B!Step, B!Goto
<1>8. CASE \E on \in BOOLEAN : B!ReceiveReport(p, Conn, [owner |-> Owner, on |-> on])
  BY <1>1, <1>8 DEF B!ReceiveReport, B!Goto
<1>9. QED
  BY <1>2, <1>3, <1>4, <1>5, <1>6, <1>7, <1>8
  DEF BusinessStep, B!ResolveStep, B!ReportStep, B!DisableStep

-------------------------------------------------------------------------------
(* Types *)

\* The guard, the tables and what a unit of work carries.
DataOK ==
    /\ in \in [{Owner} -> SUBSET Procs] /\ alone \in [{Owner} -> SUBSET Procs]
    /\ messages \subseteq Items
    /\ media \in [Items -> MediaStatus]
    /\ blobs \subseteq Items
    /\ outbox \subseteq Items
    /\ request \in [Codes -> RequestStatus]
    /\ expired \subseteq Codes
    /\ item \in [Procs -> Items \cup {None}]
    /\ code \in [Procs -> Codes \cup {None}]
    /\ erased \in BOOLEAN

\* A tenant that has just connected the bot.
LEMMA TypeInit == Init => TypeInv
<1> SUFFICES ASSUME Init PROVE TypeInv
  OBVIOUS
<1> USE Records
<1>1. B!TypeOK
  BY DEF Init, B!InitWith, B!TypeOK, B!AnyLabel, B!CallLabels, B!Ends, Labels, B!Connection
<1>2. DataOK
  BY DEF Init, G!Init, DataOK, MediaStatus, RequestStatus
<1>3. CallsInv /\ ItemsInv /\ EntryInv
  BY DEF Init, B!InitWith, CallsInv, ItemsInv, Capturing, Controlling, EntryInv, Resolving, Carrying
<1>4. QED
  BY <1>1, <1>2, <1>3 DEF TypeInv, TypeOK, DataOK

\* A goroutine that leaves a label, with or without the exclusion.
LEMMA LeaveTypes ==
  ASSUME TypeOK, NEW p \in Procs, NEW l \in Labels \cup {"idle"}, B!Leave(p, l), UNCHANGED bizVars
  PROVE  B!TypeOK'
  BY Records
  DEF B!Leave, B!Goto, bizVars, TypeOK, B!TypeOK, B!AnyLabel, B!CallLabels, B!Ends, B!Nothing

\* ... and one that forgets its unit of work.
LEMMA ReleaseTypes ==
  ASSUME TypeOK, NEW p \in Procs, ReleaseAndReturn(p), UNCHANGED bizVars
  PROVE  /\ B!TypeOK'
         /\ in' \in [{Owner} -> SUBSET Procs] /\ alone' \in [{Owner} -> SUBSET Procs]
         /\ item' \in [Procs -> Items \cup {None}] /\ code' \in [Procs -> Codes \cup {None}]
<1>1. B!TypeOK'
  BY LeaveTypes DEF ReleaseAndReturn, Return
<1>2. QED
  BY <1>1 DEF ReleaseAndReturn, Return, G!Leave, guardVars, TypeOK

\* Types: the steps of a handler.
LEMMA HandlerTypes ==
  ASSUME TypeInv, NEW p \in Procs, HandlerStep(p) PROVE TypeOK'
<1> USE DEF TypeInv, Labels, UnitLabels, EraseLabels, OuterLabels
<1>0. B!TypeOK /\ TypeOK
  BY DEF TypeOK
<1>1. ASSUME NEW m \in Items \cup {None}, NEW k \in Codes \cup {None}, NEW l \in {"control", "capture", "mark"},
             StartUpdate(p, m, k, l)
      PROVE  TypeOK'
  BY <1>1, Records
  DEF StartUpdate, B!CallResolve, B!Goto, B!dbVars, B!cacheVars, guardVars, dataVars, codeVars, TypeOK,
      B!TypeOK, B!CallLabels, B!Ends
<1>2. CASE \/ \E m \in Items : ReceiveMessage(p, m) \/ ReceiveEdit(p, m) \/ ReceiveDeletion(p, m)
           \/ \E k \in Codes : ReceiveConfirmation(p, k)
  BY <1>1, <1>2 DEF ReceiveMessage, ReceiveEdit, ReceiveDeletion, ReceiveConfirmation
<1>3. CASE Abandon(p) \/ RecheckSkips(p)
  BY <1>3, <1>0, ReleaseTypes DEF Abandon, RecheckSkips, dataVars, codeVars, TypeOK
<1>4. CASE MarkDeleted(p)
  BY <1>4, <1>0, ReleaseTypes DEF MarkDeleted, codeVars, TypeOK
<1>5. CASE ControlConsumes(p) \/ CaptureSkips(p) \/ GiveUp(p) \/ AnswerNothing(p)
  <2>1. B!TypeOK'
    BY <1>5, <1>0, LeaveTypes DEF ControlConsumes, CaptureSkips, GiveUp, AnswerNothing, Return
  <2>2. QED
    BY <1>5, <2>1
    DEF ControlConsumes, CaptureSkips, GiveUp, AnswerNothing, Return, guardVars, dataVars, codeVars, TypeOK
<1>6. CASE ControlConfirms(p) \/ ControlRequests(p) \/ CaptureAdmitted(p) \/ MarkAdmitted(p) \/ AnswerRequests(p)
  <2>1. B!TypeOK'
    BY <1>6, <1>0, LeaveTypes
    DEF ControlConfirms, ControlRequests, CaptureAdmitted, MarkAdmitted, AnswerRequests, Goto
  <2>2. QED
    BY <1>6, <2>1
    DEF ControlConfirms, ControlRequests, CaptureAdmitted, MarkAdmitted, AnswerRequests, guardVars,
        dataVars, codeVars, unitVars, TypeOK
<1>7. CASE ControlPasses(p)
  BY <1>7, Records
  DEF ControlPasses, B!CallResolve, B!Goto, B!dbVars, B!cacheVars, guardVars, dataVars, codeVars,
      unitVars, TypeOK, B!TypeOK, B!CallLabels, B!Ends
<1>8. CASE EnterSave(p)
  <2>1. B!TypeOK'
    <3>1. PICK from \in {"awaitSave", "awaitMark"}, next \in {"recheck", "marking"} :
              B!CallResolve(p, from, Conn, next)
      BY <1>8 DEF EnterSave
    <3>2. QED
      BY <1>0, <3>1, Records
      DEF B!CallResolve, B!Goto, B!dbVars, B!cacheVars, B!TypeOK, B!CallLabels, B!Ends
  <2>2. QED
    BY <1>8, <2>1 DEF EnterSave, G!EnterShared, dataVars, codeVars, unitVars, TypeOK
<1>9. CASE Save(p)
  <2>1. B!TypeOK'
    BY <1>9, <1>0, LeaveTypes DEF Save, Goto
  <2>2. item[p] \in Items
    BY <1>9 DEF Save, Goto, ItemsInv, Capturing
  <2>3. QED
    BY <1>9, <2>1, <2>2 DEF Save, guardVars, codeVars, unitVars, TypeOK
<1>10. CASE \E attached \in BOOLEAN : SaveMedia(p, attached)
  <2>1. B!TypeOK'
    BY <1>10, <1>0, LeaveTypes DEF SaveMedia, Goto
  <2>2. QED
    BY <1>10, <2>1 DEF SaveMedia, G!Leave, codeVars, unitVars, TypeOK, MediaStatus
<1>11. QED
  BY <1>2, <1>3, <1>4, <1>5, <1>6, <1>7, <1>8, <1>9, <1>10 DEF HandlerStep

\* Types: the steps of Request and Confirm.
LEMMA ErasureTypes ==
  ASSUME TypeInv, NEW p \in Procs, ErasureStep(p) PROVE TypeOK'
<1> USE DEF TypeInv, Labels, UnitLabels, EraseLabels, OuterLabels
<1>0. B!TypeOK /\ TypeOK
  BY DEF TypeOK
<1>1. CASE EnterRequest(p) \/ EnterConfirm(p)
  <2>1. B!TypeOK'
    BY <1>1, <1>0, LeaveTypes DEF EnterRequest, EnterConfirm, Goto
  <2>2. QED
    BY <1>1, <2>1
    DEF EnterRequest, EnterConfirm, G!EnterShared, G!EnterExclusive, dataVars, codeVars, unitVars, TypeOK
<1>2. CASE AllUnlinked(p) \/ AllMediaDeleted(p)
  <2>1. B!TypeOK'
    BY <1>2, <1>0, LeaveTypes DEF AllUnlinked, AllMediaDeleted, Goto
  <2>2. QED
    BY <1>2, <2>1 DEF AllUnlinked, AllMediaDeleted, guardVars, dataVars, codeVars, unitVars, TypeOK
<1>3. CASE DeleteAlerts(p) \/ Sweep(p) \/ DeleteMessages(p) \/ \E m \in Items : UnlinkFile(p, m)
  <2>1. B!TypeOK'
    BY <1>3, <1>0, LeaveTypes DEF DeleteAlerts, Sweep, DeleteMessages, UnlinkFile, Goto
  <2>2. QED
    BY <1>3, <2>1
    DEF DeleteAlerts, Sweep, DeleteMessages, UnlinkFile, guardVars, codeVars, unitVars, TypeOK
<1>4. CASE \E batch \in SUBSET Items : DeleteMediaBatch(p, batch)
  <2>1. B!TypeOK'
    BY <1>4, <1>0, LeaveTypes DEF DeleteMediaBatch, Goto
  <2>2. QED
    BY <1>4, <2>1 DEF DeleteMediaBatch, guardVars, codeVars, unitVars, TypeOK, MediaStatus
<1>5. CASE DeleteOthers(p)
  <2>1. B!TypeOK'
    BY <1>5, <1>0, LeaveTypes DEF DeleteOthers, Goto
  <2>2. QED
    BY <1>5, <2>1 DEF DeleteOthers, guardVars, dataVars, unitVars, TypeOK, RequestStatus
<1>6. CASE ClaimRefused(p)
  BY <1>6, <1>0, ReleaseTypes DEF ClaimRefused, dataVars, codeVars, TypeOK
<1>7. CASE \E k \in Codes : Issue(p, k)
  BY <1>7, <1>0, ReleaseTypes DEF Issue, dataVars, TypeOK, RequestStatus
<1>8. CASE Complete(p)
  <2>1. request' \in [Codes -> RequestStatus]
    BY <1>8, <1>0 DEF Complete, TypeOK, RequestStatus
  <2>2. erased' \in BOOLEAN
    BY <1>8 DEF Complete
  <2>3. ReleaseAndReturn(p) /\ UNCHANGED bizVars /\ UNCHANGED dataVars /\ UNCHANGED expired
    BY <1>8 DEF Complete
  <2>4. QED
    BY <1>0, <2>1, <2>2, <2>3, ReleaseTypes DEF dataVars, TypeOK
<1>9. CASE Claim(p)
  <2>1. [owner |-> Owner, on |-> FALSE] \in B!Connection
    BY Records
  <2>2. B!TypeOK'
    BY <1>9, <1>0, <2>1
    DEF Claim, B!CallDisableOwner, B!Goto, B!dbVars, B!cacheVars, B!TypeOK, B!CallLabels, B!Ends
  <2>3. request' \in [Codes -> RequestStatus]
    BY <1>9, <1>0 DEF Claim, TypeOK, RequestStatus
  <2>4. QED
    BY <1>9, <2>2, <2>3 DEF Claim, guardVars, dataVars, unitVars, TypeOK
<1>10. QED
  BY <1>1, <1>2, <1>3, <1>4, <1>5, <1>6, <1>7, <1>8, <1>9 DEF ErasureStep

\* Types: the steps of the fetcher, of the outbox worker, and a unit that fails.
LEMMA LoopTypes ==
  ASSUME TypeInv, NEW p \in Procs, FetcherStep(p) \/ WorkerStep(p) \/ UnitFails(p) PROVE TypeOK'
<1> USE DEF TypeInv, Labels, UnitLabels, EraseLabels, OuterLabels
<1>0. B!TypeOK /\ TypeOK
  BY DEF TypeOK
<1>1. CASE \E m \in Items : FetchStarts(p, m) \/ ClaimAlert(p, m)
  <2>1. B!TypeOK'
    BY <1>1, <1>0, LeaveTypes DEF FetchStarts, ClaimAlert, Goto
  <2>2. QED
    BY <1>1, <2>1 DEF FetchStarts, ClaimAlert, G!EnterShared, dataVars, codeVars, TypeOK
<1>2. CASE Download(p)
  <2>1. B!TypeOK'
    BY <1>2, <1>0, LeaveTypes DEF Download, Goto
  <2>2. item[p] \in Items
    BY <1>2 DEF Download, Goto, ItemsInv, Capturing
  <2>3. QED
    BY <1>2, <2>1, <2>2 DEF Download, guardVars, codeVars, unitVars, TypeOK
<1>3. CASE Deliver(p)
  <2>1. B!TypeOK'
    BY <1>3, <1>0, LeaveTypes DEF Deliver, Goto
  <2>2. QED
    BY <1>3, <2>1 DEF Deliver, guardVars, dataVars, codeVars, unitVars, TypeOK
<1>4. CASE MarkStored(p)
  BY <1>4, <1>0, ReleaseTypes DEF MarkStored, codeVars, TypeOK, MediaStatus
<1>5. CASE MarkSent(p) \/ UnitFails(p)
  BY <1>5, <1>0, ReleaseTypes DEF MarkSent, UnitFails, dataVars, codeVars, TypeOK
<1>6. QED
  BY <1>1, <1>2, <1>3, <1>4, <1>5 DEF FetcherStep, WorkerStep

\* A step from outside keeps what the calls of Connections carry.
LEMMA OutsideCalls ==
  ASSUME TypeInv, NEW p \in Procs, Outside(p) PROVE CallsInv' /\ EntryInv'
  BY DEF TypeInv, CallsInv, EntryInv, Outside, OthersStay, bizVars, Carrying

\* The message of a unit of work: a handler keeps it from the update to the
\* save.
LEMMA ItemsKept ==
  ASSUME TypeInv, NEW p \in Procs, OthersStay(p),
         Capturing(p)' \/ (Controlling(p)' /\ code'[p] = None) => item'[p] \in Items
  PROVE  ItemsInv'
  BY DEF TypeInv, ItemsInv, OthersStay, Capturing, Controlling

\* ... through every step of a handler;
LEMMA HandlerItems ==
  ASSUME TypeInv, NEW p \in Procs, HandlerStep(p), OthersStay(p) PROVE ItemsInv'
<1> USE ErasureAssumption DEF Capturing, Controlling, Resolving
<1>0. TypeOK /\ B!TypeOK /\ ItemsInv
  BY DEF TypeInv, TypeOK
<1>1. CASE \/ \E m \in Items : ReceiveMessage(p, m) \/ ReceiveEdit(p, m) \/ ReceiveDeletion(p, m)
           \/ \E k \in Codes : ReceiveConfirmation(p, k)
  BY <1>0, <1>1, ItemsKept
  DEF ReceiveMessage, ReceiveEdit, ReceiveDeletion, ReceiveConfirmation, StartUpdate,
      B!CallResolve, B!Goto, TypeOK, B!TypeOK
<1>2. CASE \/ Abandon(p) \/ RecheckSkips(p) \/ MarkDeleted(p) \/ ControlConsumes(p) \/ CaptureSkips(p)
           \/ GiveUp(p) \/ AnswerNothing(p)
  <2>1. pc'[p] = "idle"
    BY <1>0, <1>2
    DEF Abandon, RecheckSkips, MarkDeleted, ControlConsumes, CaptureSkips, GiveUp, AnswerNothing,
        ReleaseAndReturn, Return, B!Leave, B!Goto, B!TypeOK
  <2>2. QED
    BY <2>1, ItemsKept
<1>3. CASE ControlConfirms(p) \/ ControlRequests(p) \/ AnswerRequests(p)
           \/ \E attached \in BOOLEAN : SaveMedia(p, attached)
  <2>1. pc'[p] \in {"awaitConfirm", "awaitRequest", "answer"}
    BY <1>0, <1>3
    DEF ControlConfirms, ControlRequests, AnswerRequests, SaveMedia, Goto, B!Leave, B!Goto, B!TypeOK
  <2>2. QED
    BY <2>1, ItemsKept
<1>4. CASE CaptureAdmitted(p) \/ MarkAdmitted(p) \/ Save(p)
  BY <1>0, <1>4, ItemsKept
  DEF CaptureAdmitted, MarkAdmitted, Save, Goto, B!Leave, B!Goto, unitVars, B!TypeOK, ItemsInv
<1>5. CASE ControlPasses(p) \/ EnterSave(p)
  BY <1>0, <1>5, ItemsKept
  DEF ControlPasses, EnterSave, B!CallResolve, B!Goto, unitVars, B!TypeOK, ItemsInv
<1>6. QED
  BY <1>1, <1>2, <1>3, <1>4, <1>5 DEF HandlerStep

\* ... an erasure captures nothing, and a download is of a message.
LEMMA OtherItems ==
  ASSUME TypeInv, NEW p \in Procs, OthersStay(p),
         ErasureStep(p) \/ FetcherStep(p) \/ WorkerStep(p) \/ UnitFails(p)
  PROVE  ItemsInv'
<1> USE DEF Capturing, Controlling, Resolving
<1>0. TypeOK /\ B!TypeOK
  BY DEF TypeInv, TypeOK
<1>1. CASE \E m \in Items : FetchStarts(p, m)
  BY <1>0, <1>1, ItemsKept DEF FetchStarts, TypeOK, Goto, B!Leave, B!Goto, B!TypeOK
<1>2. CASE ErasureStep(p)
  <2>1. pc'[p] \in EraseLabels \cup {"issue", "idle"}
    BY <1>0, <1>2
    DEF ErasureStep, EnterRequest, Issue, EnterConfirm, Claim, ClaimRefused, DeleteAlerts, UnlinkFile,
        AllUnlinked, DeleteMediaBatch, AllMediaDeleted, Sweep, DeleteMessages, DeleteOthers, Complete,
        ReleaseAndReturn, Return, Goto, B!CallDisableOwner, B!Leave, B!Goto, B!TypeOK, EraseLabels
  <2>2. QED
    BY <2>1, ItemsKept DEF EraseLabels
<1>3. CASE Download(p) \/ MarkStored(p) \/ WorkerStep(p) \/ UnitFails(p)
  <2>1. pc'[p] \in {"markStored", "deliver", "acknowledge", "idle"}
    BY <1>0, <1>3
    DEF Download, MarkStored, WorkerStep, ClaimAlert, Deliver, MarkSent, UnitFails,
        ReleaseAndReturn, Return, Goto, B!Leave, B!Goto, B!TypeOK
  <2>2. QED
    BY <2>1, ItemsKept
<1>4. QED
  BY <1>1, <1>2, <1>3 DEF FetcherStep

\* A call of Connections is made for the same message throughout.
LEMMA CallItems ==
  ASSUME TypeInv, NEW p \in Procs, CallMoves(p) PROVE ItemsInv'
<1>1. Capturing(p)' \/ (Controlling(p)' /\ code'[p] = None) => item'[p] \in Items
  BY DEF TypeInv, ItemsInv, CallsInv, CallMoves, Capturing, Controlling, Resolving
<1>2. QED
  BY <1>1, ItemsKept DEF CallMoves

\* What a step of Connections may change.
CallTypes == B!TypeOK /\ CallsInv /\ EntryInv

\* Types: the steps of Resolve, HandleBusinessConnection and DisableOwner.
LEMMA BusinessTypes ==
  ASSUME TypeInv, NEW p \in Procs, BusinessStep(p) PROVE CallTypes'
<1> USE Records
    DEF TypeInv, CallTypes, B!TypeOK, CallsInv, EntryInv, Resolving, Carrying,
        B!CallLabels, B!Ends, Labels, UnitLabels, EraseLabels, OuterLabels, B!AnyLabel
<1>0. B!TypeOK /\ TypeOK /\ conn[p] = Conn
  BY DEF TypeOK
<1>1. CASE B!LookupRefused(p)
  BY <1>0, <1>1 DEF B!LookupRefused, B!Leave, B!Goto, B!dbVars, B!cacheVars
<1>2. CASE B!LookupHit(p)
  <2>1. entry[Conn].owner = Owner /\ entry[Conn].on \in BOOLEAN
    BY <1>0, <1>2 DEF B!LookupHit, B!Entry
  <2>2. QED
    BY <1>0, <1>2, <2>1 DEF B!LookupHit, B!StepWith, B!Goto, B!dbVars, B!cacheVars
<1>3. CASE B!LookupMiss(p)
  BY <1>0, <1>3 DEF B!LookupMiss, B!Live, B!Step, B!Goto, B!dbVars
<1>4. CASE B!ReadRow(p)
  BY <1>0, <1>4 DEF B!ReadRow, B!StepWith, B!Goto, B!dbVars, B!cacheVars
<1>5. CASE B!ReadNoRow(p) \/ B!ApiUnknown(p)
  BY <1>0, <1>5 DEF B!ReadNoRow, B!ApiUnknown, B!Step, B!Goto, B!dbVars, B!cacheVars
<1>6. CASE B!ResolveStoreDB(p)
  <2>1. /\ entry' \in [{Conn} -> B!Entry] /\ stale' \subseteq {Conn}
        /\ EntryInv' /\ disabledOwners' = disabledOwners
    BY <1>0, <1>6, StoreDBEntry DEF B!ResolveStoreDB, B!Step
  <2>2. QED
    BY <1>0, <1>6, <2>1 DEF B!ResolveStoreDB, B!Step, B!Goto, B!dbVars
<1>7. CASE B!ResolveStoreRefused(p)
  <2>1. got[p].owner = Owner
    BY <1>7 DEF B!ResolveStoreRefused
  <2>2. entry' \in [{Conn} -> B!Entry] /\ stale' \subseteq {Conn} /\ EntryInv'
    BY <1>0, <1>7, <2>1, PutEntry DEF B!ResolveStoreRefused
  <2>3. QED
    BY <1>0, <1>7, <2>2 DEF B!ResolveStoreRefused, B!Leave, B!Goto, B!dbVars
<1>8. CASE \E v \in B!Connection : B!ApiAnswers(p, v)
  BY <1>0, <1>8 DEF B!ApiAnswers, B!Reports, B!StepWith, B!Goto, B!dbVars, B!cacheVars
<1>9. CASE B!ResolveStoreUnknown(p)
  <2>1. entry' \in [{Conn} -> B!Entry] /\ stale' \subseteq {Conn} /\ EntryInv'
    BY <1>0, <1>9, PutEntry DEF B!ResolveStoreUnknown
  <2>2. QED
    BY <1>0, <1>9, <2>1 DEF B!ResolveStoreUnknown, B!Leave, B!Goto, B!dbVars
<1>10. CASE B!ResolveUpsert(p) \/ B!ReportUpsert(p)
  BY <1>0, <1>10
  DEF B!ResolveUpsert, B!ReportUpsert, B!Upsert, B!Applied, B!Step, B!Goto, B!dbVars, B!cacheVars
<1>11. CASE B!ResolveStore(p)
  <2>1. /\ entry' \in [{Conn} -> B!Entry] /\ stale' \subseteq {Conn} /\ EntryInv'
        /\ disabledOwners' \subseteq {Owner}
    BY <1>0, <1>11, StoreEntry DEF B!ResolveStore, B!Step
  <2>2. QED
    BY <1>0, <1>11, <2>1 DEF B!ResolveStore, B!Step, B!Goto, B!Applied
<1>12. CASE B!ReportStore(p)
  <2>1. /\ entry' \in [{Conn} -> B!Entry] /\ stale' \subseteq {Conn} /\ EntryInv'
        /\ disabledOwners' \subseteq {Owner}
    BY <1>0, <1>12, StoreEntry DEF B!ReportStore
  <2>2. QED
    BY <1>0, <1>12, <2>1 DEF B!ReportStore, B!Leave, B!Goto, B!Applied
<1>13. CASE B!CallFails(p)
  BY <1>0, <1>13 DEF B!CallFails, B!Leave, B!Goto, B!dbVars, B!cacheVars
<1>14. CASE B!DisableRows(p)
  <2>1. row' \in [{Conn} -> B!Connection \cup {B!Nothing}]
    <3>1. [row[Conn] EXCEPT !.on = FALSE] \in B!Connection \/ row[Conn].owner # Owner
      BY <1>0
    <3>2. row' = [c \in {Conn} |-> IF row[c].owner = Owner THEN [row[c] EXCEPT !.on = FALSE] ELSE row[c]]
      BY <1>14 DEF B!DisableRows, B!Step
    <3>3. QED
      BY <1>0, <3>1, <3>2
  <2>2. QED
    BY <1>0, <1>14, <2>1 DEF B!DisableRows, B!Step, B!Goto, B!cacheVars
<1>15. CASE B!DisableCache(p)
  BY <1>0, <1>15 DEF B!DisableCache, B!disableOwner, B!Step, B!Goto, B!dbVars
<1>16. CASE \E on \in BOOLEAN : B!ReceiveReport(p, Conn, [owner |-> Owner, on |-> on])
  <2>1. PICK v \in B!Connection : B!ReceiveReport(p, Conn, v)
    BY <1>16
  <2>2. QED
    BY <1>0, <2>1 DEF B!ReceiveReport, B!Goto, B!dbVars, B!cacheVars
<1>17. QED
  BY <1>1, <1>2, <1>3, <1>4, <1>5, <1>6, <1>7, <1>8, <1>9, <1>10, <1>11, <1>12, <1>13, <1>14, <1>15, <1>16
  DEF BusinessStep, B!ResolveStep, B!ReportStep, B!DisableStep

\* Every step keeps the types, what a call carries and what a unit is about.
LEMMA TypeStep == TypeInv /\ [Next]_vars => TypeInv'
<1> SUFFICES ASSUME TypeInv, [Next]_vars PROVE TypeInv'
  OBVIOUS
<1>0. TypeOK /\ B!TypeOK /\ CallsInv /\ ItemsInv /\ EntryInv
  BY DEF TypeInv, TypeOK
<1>1. CASE UNCHANGED vars
  <2>1. B!TypeOK' /\ CallsInv' /\ EntryInv' /\ ItemsInv'
    BY <1>0, <1>1
    DEF vars, bizVars, callVars, unitVars, B!TypeOK, CallsInv, EntryInv, ItemsInv, Capturing, Controlling
  <2>2. QED
    BY <1>0, <1>1, <2>1 DEF vars, guardVars, dataVars, codeVars, unitVars, TypeInv, TypeOK
<1>2. ASSUME NEW p \in Procs,
             HandlerStep(p) \/ ErasureStep(p) \/ FetcherStep(p) \/ WorkerStep(p) \/ UnitFails(p)
      PROVE  TypeInv'
  <2>1. Outside(p)
    BY <1>0, <1>2, HandlersAreOutside, ErasuresAreOutside, LoopsAreOutside
  <2>2. TypeOK'
    BY <1>2, HandlerTypes, ErasureTypes, LoopTypes
  <2>3. CallsInv' /\ EntryInv'
    BY <2>1, OutsideCalls
  <2>4. ItemsInv'
    BY <1>2, <2>1, HandlerItems, OtherItems DEF Outside
  <2>5. QED
    BY <2>2, <2>3, <2>4 DEF TypeInv
<1>3. ASSUME NEW p \in Procs, BusinessStep(p) PROVE TypeInv'
  <2>1. CallTypes' /\ ItemsInv'
    BY <1>3, BusinessTypes, CallsMove, CallItems
  <2>2. erased' \in BOOLEAN
    BY <1>0, <1>3 DEF BusinessStep, StillErased, TypeOK
  <2>3. QED
    BY <1>0, <1>3, <2>1, <2>2
    DEF BusinessStep, guardVars, dataVars, codeVars, unitVars, TypeOK, TypeInv, CallTypes
<1>4. ASSUME NEW k \in Codes, ExpireCode(k) PROVE TypeInv'
  <2>1. B!TypeOK' /\ CallsInv' /\ EntryInv' /\ ItemsInv'
    BY <1>0, <1>4
    DEF ExpireCode, bizVars, callVars, unitVars, B!TypeOK, CallsInv, EntryInv, ItemsInv,
        Capturing, Controlling
  <2>2. QED
    BY <1>0, <1>4, <2>1 DEF ExpireCode, guardVars, dataVars, unitVars, TypeInv, TypeOK
<1>5. CASE CacheExpires
  <2>1. B!TypeOK' /\ CallsInv' /\ EntryInv' /\ ItemsInv'
    BY <1>0, <1>5
    DEF CacheExpires, B!Expire, B!dbVars, B!callVars, unitVars, B!TypeOK, CallsInv, EntryInv, ItemsInv,
        Capturing, Controlling
  <2>2. QED
    BY <1>0, <1>5, <2>1 DEF CacheExpires, guardVars, dataVars, codeVars, unitVars, TypeInv, TypeOK
<1>6. CASE Crash
  <2>1. B!TypeOK' /\ CallsInv' /\ EntryInv' /\ ItemsInv'
    BY <1>0, <1>6, Records
    DEF Crash, B!Restart, B!TypeOK, B!AnyLabel, B!CallLabels, B!Ends, CallsInv, EntryInv, ItemsInv,
        Capturing, Controlling, Resolving, Carrying
  <2>2. QED
    BY <1>0, <1>6, <2>1 DEF Crash, dataVars, codeVars, TypeInv, TypeOK
<1>7. QED
  BY <1>1, <1>2, <1>3, <1>4, <1>5, <1>6 DEF Next, Procs

-------------------------------------------------------------------------------
(* Exclusion *)

\* A goroutine that stays where its labels may be.
LEMMA Stays ==
  ASSUME ExclusionInv, NEW p \in Procs, OthersStay(p), UNCHANGED guardVars,
         Working(p)' => p \in in[Owner], Erasing(p)' => p \in alone[Owner]
  PROVE  ExclusionInv'
  BY DEF ExclusionInv, OthersStay, guardVars, Working, Erasing

\* Lock() of the read side returns ...
LEMMA EntersShared ==
  ASSUME TypeOK, ExclusionInv, NEW p \in Procs, OthersStay(p), G!EnterShared(Owner, p), ~Erasing(p)'
  PROVE  ExclusionInv'
  BY DEF TypeOK, ExclusionInv, OthersStay, G!EnterShared, Working, Erasing

\* ... or of the write side: nobody else is inside.
LEMMA EntersAlone ==
  ASSUME TypeOK, ExclusionInv, NEW p \in Procs, OthersStay(p), G!EnterExclusive(Owner, p), ~Working(p)'
  PROVE  ExclusionInv'
  BY DEF TypeOK, ExclusionInv, OthersStay, G!EnterExclusive, Working, Erasing

\* The release function runs, if the goroutine is inside.
LEMMA Leaves ==
  ASSUME TypeOK, ExclusionInv, NEW p \in Procs, OthersStay(p),
         IF Inside(p) THEN G!Leave(Owner, p) ELSE UNCHANGED guardVars,
         ~Working(p)', ~Erasing(p)'
  PROVE  ExclusionInv'
<1>1. CASE Inside(p)
  BY <1>1 DEF TypeOK, ExclusionInv, OthersStay, G!Leave, Working, Erasing
<1>2. CASE ~Inside(p)
  BY <1>2, Stays
<1>3. QED
  BY <1>1, <1>2

\* A unit of work that is over is outside.
LEMMA Returns ==
  ASSUME TypeOK, ExclusionInv, NEW p \in Procs, OthersStay(p), ReleaseAndReturn(p)
  PROVE  ExclusionInv'
<1>1. pc'[p] = "idle"
  BY DEF ReleaseAndReturn, Return, B!Leave, B!Goto, TypeOK, B!TypeOK
<1>2. ~Working(p)' /\ ~Erasing(p)'
  BY <1>1 DEF Working, Erasing, UnitLabels, EraseLabels, Resolving
<1>3. QED
  BY <1>2, Leaves DEF ReleaseAndReturn

\* Handlers are inside for as long as they save or mark.
LEMMA HandlerExclusion ==
  ASSUME TypeInv, ExclusionInv, NEW p \in Procs, HandlerStep(p) PROVE ExclusionInv'
<1> USE DEF Working, Erasing, UnitLabels, EraseLabels, Resolving, unitVars
<1>0. TypeOK /\ B!TypeOK /\ OthersStay(p)
  BY HandlersAreOutside DEF TypeInv, TypeOK, Outside
<1>1. CASE \/ \E m \in Items : ReceiveMessage(p, m) \/ ReceiveEdit(p, m) \/ ReceiveDeletion(p, m)
           \/ \E k \in Codes : ReceiveConfirmation(p, k)
           \/ ControlPasses(p)
  <2>1. pc'[p] = "lookup" /\ after'[p] \in {"control", "capture", "mark"} /\ UNCHANGED guardVars
    BY <1>0, <1>1
    DEF ReceiveMessage, ReceiveEdit, ReceiveDeletion, ReceiveConfirmation, ControlPasses, StartUpdate,
        B!CallResolve, B!Goto, B!TypeOK
  <2>2. QED
    BY <1>0, <2>1, Stays
<1>2. CASE \/ Abandon(p) \/ RecheckSkips(p) \/ MarkDeleted(p)
  BY <1>0, <1>2, Returns DEF Abandon, RecheckSkips, MarkDeleted
<1>3. CASE \/ ControlConsumes(p) \/ CaptureSkips(p) \/ GiveUp(p) \/ AnswerNothing(p)
           \/ ControlConfirms(p) \/ ControlRequests(p) \/ AnswerRequests(p)
           \/ CaptureAdmitted(p) \/ MarkAdmitted(p)
  <2>1. /\ pc'[p] \in {"idle", "awaitConfirm", "awaitRequest", "awaitSave", "awaitMark"}
        /\ UNCHANGED guardVars
    BY <1>0, <1>3
    DEF ControlConsumes, CaptureSkips, GiveUp, AnswerNothing, ControlConfirms, ControlRequests,
        AnswerRequests, CaptureAdmitted, MarkAdmitted, Return, Goto, B!Leave, B!Goto, B!TypeOK
  <2>2. QED
    BY <1>0, <2>1, Stays
<1>4. CASE EnterSave(p)
  <2>1. pc'[p] = "lookup" /\ G!EnterShared(Owner, p)
    BY <1>0, <1>4 DEF EnterSave, B!CallResolve, B!Goto, B!TypeOK
  <2>2. QED
    BY <1>0, <2>1, EntersShared
<1>5. CASE Save(p)
  <2>1. pc[p] = "recheck" /\ pc'[p] = "attach" /\ UNCHANGED guardVars
    BY <1>0, <1>5 DEF Save, Goto, B!Leave, B!Goto, B!TypeOK
  <2>2. QED
    BY <1>0, <2>1, Stays DEF ExclusionInv
<1>6. CASE \E attached \in BOOLEAN : SaveMedia(p, attached)
  <2>1. pc'[p] = "answer" /\ G!Leave(Owner, p)
    BY <1>0, <1>6 DEF SaveMedia, Goto, B!Leave, B!Goto, B!TypeOK
  <2>2. Inside(p)
    BY <2>1 DEF G!Leave, Inside
  <2>3. QED
    BY <1>0, <2>1, <2>2, Leaves
<1>7. QED
  BY <1>1, <1>2, <1>3, <1>4, <1>5, <1>6 DEF HandlerStep

\* A request is issued inside, a confirmation runs inside alone.
LEMMA ErasureExclusion ==
  ASSUME TypeInv, ExclusionInv, NEW p \in Procs, ErasureStep(p) PROVE ExclusionInv'
<1> USE DEF Working, Erasing, UnitLabels, EraseLabels, Resolving, unitVars
<1>0. TypeOK /\ B!TypeOK /\ OthersStay(p)
  BY ErasuresAreOutside DEF TypeInv, TypeOK, Outside
<1>1. CASE EnterRequest(p)
  BY <1>0, <1>1, EntersShared DEF EnterRequest, Goto, B!Leave, B!Goto, B!TypeOK
<1>2. CASE EnterConfirm(p)
  BY <1>0, <1>2, EntersAlone DEF EnterConfirm, Goto, B!Leave, B!Goto, B!TypeOK
<1>3. CASE ClaimRefused(p) \/ Complete(p) \/ \E k \in Codes : Issue(p, k)
  BY <1>0, <1>3, Returns DEF ClaimRefused, Complete, Issue
<1>4. CASE \/ Claim(p) \/ DeleteAlerts(p) \/ \E m \in Items : UnlinkFile(p, m)
           \/ AllUnlinked(p) \/ \E batch \in SUBSET Items : DeleteMediaBatch(p, batch)
           \/ AllMediaDeleted(p) \/ Sweep(p) \/ DeleteMessages(p) \/ DeleteOthers(p)
  <2>1. /\ Erasing(p) /\ pc'[p] \in EraseLabels /\ UNCHANGED guardVars
    BY <1>0, <1>4
    DEF Claim, DeleteAlerts, UnlinkFile, AllUnlinked, DeleteMediaBatch, AllMediaDeleted, Sweep,
        DeleteMessages, DeleteOthers, Goto, B!CallDisableOwner, B!Leave, B!Goto, B!TypeOK
  <2>2. QED
    BY <1>0, <2>1, Stays DEF ExclusionInv
<1>5. QED
  BY <1>1, <1>2, <1>3, <1>4 DEF ErasureStep

\* The loops are inside from the listing or the claim on.
LEMMA LoopExclusion ==
  ASSUME TypeInv, ExclusionInv, NEW p \in Procs, FetcherStep(p) \/ WorkerStep(p) \/ UnitFails(p)
  PROVE  ExclusionInv'
<1> USE DEF Working, Erasing, UnitLabels, EraseLabels, Resolving, unitVars
<1>0. TypeOK /\ B!TypeOK /\ OthersStay(p)
  BY LoopsAreOutside DEF TypeInv, TypeOK, Outside
<1>1. CASE \E m \in Items : FetchStarts(p, m) \/ ClaimAlert(p, m)
  BY <1>0, <1>1, EntersShared DEF FetchStarts, ClaimAlert, Goto, B!Leave, B!Goto, B!TypeOK
<1>2. CASE Download(p) \/ Deliver(p)
  <2>1. pc[p] \in UnitLabels /\ pc'[p] \in {"markStored", "acknowledge"} /\ UNCHANGED guardVars
    BY <1>0, <1>2 DEF Download, Deliver, Goto, B!Leave, B!Goto, B!TypeOK
  <2>2. QED
    BY <1>0, <2>1, Stays DEF ExclusionInv
<1>3. CASE MarkStored(p) \/ MarkSent(p) \/ UnitFails(p)
  BY <1>0, <1>3, Returns DEF MarkStored, MarkSent, UnitFails
<1>4. QED
  BY <1>1, <1>2, <1>3 DEF FetcherStep, WorkerStep

\* Nobody is inside.
LEMMA ExclusionInit == Init => ExclusionInv
  BY DEF Init, G!Init, B!InitWith, ExclusionInv, Working, Erasing, UnitLabels, EraseLabels, Resolving

\* Every step keeps the labels and the exclusion in agreement.
LEMMA ExclusionStep == TypeInv /\ ExclusionInv /\ [Next]_vars => ExclusionInv'
<1> SUFFICES ASSUME TypeInv, ExclusionInv, [Next]_vars PROVE ExclusionInv'
  OBVIOUS
<1>1. CASE UNCHANGED vars \/ CacheExpires \/ \E k \in Codes : ExpireCode(k)
  BY <1>1
  DEF vars, callVars, guardVars, CacheExpires, B!Expire, B!callVars, ExpireCode, ExclusionInv, Working, Erasing
<1>2. ASSUME NEW p \in Procs,
             HandlerStep(p) \/ ErasureStep(p) \/ FetcherStep(p) \/ WorkerStep(p) \/ UnitFails(p)
      PROVE  ExclusionInv'
  BY <1>2, HandlerExclusion, ErasureExclusion, LoopExclusion
<1>3. ASSUME NEW p \in Procs, BusinessStep(p) PROVE ExclusionInv'
  <2>1. CallMoves(p)
    BY <1>3, CallsMove
  <2>2. (Working(p)' => p \in in[Owner]) /\ (Erasing(p)' => p \in alone[Owner])
    BY <2>1
    DEF TypeInv, CallsInv, CallMoves, ExclusionInv, Working, Erasing, UnitLabels, EraseLabels, Resolving
  <2>3. QED
    BY <2>1, <2>2, Stays DEF CallMoves
<1>4. CASE Crash
  BY <1>4 DEF Crash, B!Restart, ExclusionInv, Working, Erasing, UnitLabels, EraseLabels, Resolving
<1>5. QED
  BY <1>1, <1>2, <1>3, <1>4 DEF Next, Procs

\* Beside an eraser there is no other eraser and no unit of work.
LEMMA Alone ==
  ASSUME ExclusionInv, NEW p \in Procs, NEW q \in Procs, Erasing(p), Erasing(q) \/ Working(q)
  PROVE  p = q
  BY DEF ExclusionInv

-------------------------------------------------------------------------------
(* Nothing is read as enabled after DisableOwner *)

\* Nobody has been switched off.
LEMMA OffInit == Init => OffInv
  BY DEF Init, B!InitWith, OffInv, RowIsOff, LateReads, CacheIsOff, FreshReads, Rechecks, B!NoEntry

\* Steps outside of Connections read nothing.
LEMMA OutsideOff ==
  ASSUME OffInv, NEW p \in Procs, Outside(p) PROVE OffInv'
<1> USE DEF OffInv, Outside, OthersStay, bizVars, Carrying
<1>1. RowIsOff'
  BY DEF RowIsOff
<1>2. Disabling => Disabling'
  BY DEF Disabling
<1>3. LateReads' /\ CacheIsOff'
  BY <1>2 DEF LateReads, CacheIsOff
<1>4. FreshReads'
  BY DEF FreshReads, Rechecks, Resolving
<1>5. QED
  BY <1>1, <1>3, <1>4

\* A resolution under the exclusion meets no DisableOwner; one outside of it
\* finds the marker or is overtaken by the second write.
LEMMA BusinessOff ==
  ASSUME TypeInv, ExclusionInv, OffInv, NEW p \in Procs, BusinessStep(p) PROVE OffInv'
<1> USE Records
    DEF OffInv, RowIsOff, LateReads, CacheIsOff, FreshReads, Rechecks, Disabling, CallsInv,
        Resolving, Carrying
<1>0. B!TypeOK /\ TypeOK /\ CallsInv /\ EntryInv /\ conn[p] = Conn
  BY DEF TypeInv, TypeOK, B!TypeOK
<1>1. CASE B!LookupRefused(p) \/ B!CallFails(p)
  BY <1>0, <1>1
  DEF B!LookupRefused, B!CallFails, B!Leave, B!Goto, B!TypeOK, B!dbVars, B!cacheVars
<1>2. CASE B!LookupHit(p)
  <2>1. /\ got'[p].on = entry[Conn].on /\ entry[Conn].kind = "resolved"
        /\ pc[p] = "lookup" /\ pc'[p] = after[p]
        /\ \A q \in Procs \ {p} : pc'[q] = pc[q] /\ got'[q] = got[q]
        /\ after' = after /\ UNCHANGED <<row, turnedOff, entry, disabledOwners>>
    BY <1>0, <1>2 DEF B!LookupHit, B!StepWith, B!Goto, B!TypeOK, B!dbVars, B!cacheVars
  <2>2. after[p] = "recheck" /\ entry[Conn].on => Owner \notin turnedOff
    <3>1. SUFFICES ASSUME after[p] = "recheck", entry[Conn].on, Owner \in turnedOff PROVE FALSE
      OBVIOUS
    <3>2. PICK q \in Procs : pc[q] = "disableCache"
      BY <2>1, <3>1
    <3>3. Erasing(q) /\ Working(p) /\ p # q
      BY <2>1, <3>1, <3>2 DEF Erasing, EraseLabels, Working
    <3>4. QED
      BY <3>3, Alone
  <2>3. Disabling => Disabling'
    BY <2>1
  <2>4. QED
    BY <1>0, <2>1, <2>2, <2>3
<1>3. CASE B!LookupMiss(p)
  <2>1. /\ pc[p] = "lookup" /\ pc'[p] = "read"
        /\ \A q \in Procs \ {p} : pc'[q] = pc[q]
        /\ UNCHANGED <<after, got, row, turnedOff, disabledOwners>>
    BY <1>0, <1>3 DEF B!LookupMiss, B!Step, B!Goto, B!TypeOK, B!dbVars
  <2>2. entry'[Conn] = entry[Conn] \/ entry'[Conn].kind = "none"
    BY <1>0, <1>3 DEF B!LookupMiss, B!TypeOK
  <2>3. QED
    BY <1>0, <2>1, <2>2
<1>4. CASE B!ReadRow(p)
  BY <1>0, <1>4 DEF B!ReadRow, B!StepWith, B!Goto, B!TypeOK, B!dbVars, B!cacheVars
<1>5. CASE B!ReadNoRow(p) \/ B!ApiUnknown(p)
  BY <1>0, <1>5 DEF B!ReadNoRow, B!ApiUnknown, B!Step, B!Goto, B!TypeOK, B!dbVars, B!cacheVars
<1>6. CASE B!ResolveStoreDB(p)
  <2>1. /\ \/ entry' = entry /\ ~entry[Conn].on
           \/ /\ entry'[Conn].kind = "resolved"
              /\ entry'[Conn].on => got[p].on /\ Owner \notin disabledOwners
        /\ disabledOwners' = disabledOwners
    BY <1>0, <1>6, StoreDBEntry DEF B!ResolveStoreDB, B!Step
  <2>2. /\ pc[p] = "storeDB" /\ pc'[p] = after[p]
        /\ \A q \in Procs \ {p} : pc'[q] = pc[q]
        /\ UNCHANGED <<after, got, row, turnedOff>>
    BY <1>0, <1>6 DEF B!ResolveStoreDB, B!Step, B!Goto, B!TypeOK, B!dbVars
  <2>3. QED
    BY <1>0, <2>1, <2>2
<1>7. CASE B!ResolveStoreRefused(p)
  <2>1. entry'[Conn].kind = "refused"
    <3>1. got[p].owner = Owner
      BY <1>0, <1>7 DEF B!ResolveStoreRefused
    <3>2. QED
      BY <1>0, <1>7, <3>1, PutEntry DEF B!ResolveStoreRefused
  <2>2. QED
    BY <1>0, <1>7, <2>1 DEF B!ResolveStoreRefused, B!Leave, B!Goto, B!TypeOK, B!dbVars
<1>8. CASE \E v \in B!Connection : B!ApiAnswers(p, v)
  BY <1>0, <1>8 DEF B!ApiAnswers, B!StepWith, B!Goto, B!TypeOK, B!dbVars, B!cacheVars
<1>9. CASE B!ResolveStoreUnknown(p)
  <2>1. entry'[Conn].kind = "unknown"
    BY <1>0, <1>9, PutEntry DEF B!ResolveStoreUnknown
  <2>2. QED
    BY <1>0, <1>9, <2>1 DEF B!ResolveStoreUnknown, B!Leave, B!Goto, B!TypeOK, B!dbVars
<1>10. CASE B!ResolveUpsert(p) \/ B!ReportUpsert(p)
  <2>1. got[p] \in B!Connection /\ got[p].owner = Owner
    BY <1>0, <1>10 DEF B!ResolveUpsert, B!ReportUpsert, B!Upsert, B!Step
  <2>2. QED
    BY <1>0, <1>10, <2>1
    DEF B!ResolveUpsert, B!ReportUpsert, B!Upsert, B!Applied, B!Step, B!Goto, B!TypeOK,
        B!dbVars, B!cacheVars
<1>11. CASE B!ResolveStore(p) \/ B!ReportStore(p)
  <2>1. /\ entry'[Conn].kind = "resolved" /\ entry'[Conn].on = got[p].on
        /\ disabledOwners' = IF got[p].on THEN disabledOwners \ {Owner} ELSE disabledOwners \cup {Owner}
        /\ turnedOff' = IF got[p].on THEN turnedOff \ {Owner} ELSE turnedOff
        /\ row' = row
    BY <1>0, <1>11, StoreEntry DEF B!ResolveStore, B!ReportStore, B!Step, B!Applied
  <2>2. \/ pc[p] = "store" /\ pc'[p] = after[p] /\ got' = got /\ after' = after
        \/ pc[p] = "storeReport" /\ pc'[p] = "ended"
    BY <1>0, <1>11 DEF B!ResolveStore, B!ReportStore, B!Leave, B!Step, B!Goto, B!TypeOK
  <2>3. \A q \in Procs \ {p} : pc'[q] = pc[q] /\ got'[q] = got[q] /\ after'[q] = after[q]
    BY <1>0, <1>11 DEF B!ResolveStore, B!ReportStore, B!Leave, B!Step, B!Goto, B!TypeOK
  <2>4. QED
    BY <1>0, <2>1, <2>2, <2>3
<1>12. CASE B!DisableRows(p)
  <2>1. /\ pc[p] = "disableRows" /\ pc'[p] = "disableCache" /\ got[p].owner = Owner
        /\ \A q \in Procs \ {p} : pc'[q] = pc[q]
        /\ UNCHANGED <<after, got, entry, disabledOwners>>
        /\ turnedOff' = turnedOff \cup {Owner}
    BY <1>0, <1>12 DEF B!DisableRows, B!Step, B!Goto, B!TypeOK, B!cacheVars
  <2>2. ~row'[Conn].on
    BY <1>0, <1>12, <2>1 DEF B!DisableRows, B!TypeOK
  <2>3. \A q \in Procs : ~Rechecks(q)
    <3>1. Erasing(p)
      BY <2>1 DEF Erasing, EraseLabels
    <3>2. \A q \in Procs : Rechecks(q) => Working(q) /\ q # p
      BY <2>1 DEF Working, UnitLabels
    <3>3. QED
      BY <3>1, <3>2, Alone
  <2>4. \A q \in Procs : ~Rechecks(q)'
    BY <2>1, <2>3
  <2>5. QED
    BY <2>1, <2>2, <2>4
<1>13. CASE B!DisableCache(p)
  <2>1. /\ pc[p] = "disableCache" /\ pc'[p] = "deleteAlerts" /\ got[p].owner = Owner
        /\ \A q \in Procs \ {p} : pc'[q] = pc[q]
        /\ UNCHANGED <<after, got, row, turnedOff>>
        /\ disabledOwners' = disabledOwners \cup {Owner}
    BY <1>0, <1>13 DEF B!DisableCache, B!disableOwner, B!Step, B!Goto, B!TypeOK, B!dbVars
  <2>2. entry'[Conn].kind = "resolved" => ~entry'[Conn].on
    BY <1>0, <1>13, <2>1 DEF B!DisableCache, B!disableOwner, B!TypeOK, EntryInv
  <2>3. QED
    BY <2>1, <2>2
<1>14. CASE \E on \in BOOLEAN : B!ReceiveReport(p, Conn, [owner |-> Owner, on |-> on])
  BY <1>0, <1>14 DEF B!ReceiveReport, B!Goto, B!TypeOK, B!dbVars, B!cacheVars
<1>15. QED
  BY <1>1, <1>2, <1>3, <1>4, <1>5, <1>6, <1>7, <1>8, <1>9, <1>10, <1>11, <1>12, <1>13, <1>14
  DEF BusinessStep, B!ResolveStep, B!ReportStep, B!DisableStep

\* Every step keeps what the recheck of enterSave relies on.
LEMMA OffStep == TypeInv /\ ExclusionInv /\ OffInv /\ [Next]_vars => OffInv'
<1> SUFFICES ASSUME TypeInv, ExclusionInv, OffInv, [Next]_vars PROVE OffInv'
  OBVIOUS
<1>1. CASE UNCHANGED vars \/ CacheExpires \/ \E k \in Codes : ExpireCode(k)
  BY <1>1
  DEF vars, bizVars, callVars, CacheExpires, B!Expire, B!callVars, B!dbVars, ExpireCode, OffInv,
      RowIsOff, LateReads, CacheIsOff, FreshReads, Rechecks, Disabling
<1>2. ASSUME NEW p \in Procs,
             HandlerStep(p) \/ ErasureStep(p) \/ FetcherStep(p) \/ WorkerStep(p) \/ UnitFails(p)
      PROVE  OffInv'
  BY <1>2, HandlersAreOutside, ErasuresAreOutside, LoopsAreOutside, OutsideOff DEF TypeInv
<1>3. ASSUME NEW p \in Procs, BusinessStep(p) PROVE OffInv'
  BY <1>3, BusinessOff
<1>4. CASE Crash
  BY <1>4, Records
  DEF Crash, B!Restart, OffInv, RowIsOff, LateReads, CacheIsOff, FreshReads, Rechecks
<1>5. QED
  BY <1>1, <1>2, <1>3, <1>4 DEF Next, Procs

-------------------------------------------------------------------------------
(* What an erasure deletes, and on whose behalf *)

\* Nothing of the tenant is added.
DataShrinks ==
    /\ messages' \subseteq messages /\ blobs' \subseteq blobs /\ outbox' \subseteq outbox
    /\ \A m \in Items : media[m] = "none" => media'[m] = "none"

\* A unit of work that stores or delivers.
Busy == {"attach", "download", "markStored", "deliver", "acknowledge"}

\* A step that adds nothing and starts nothing.
LEMMA Harmless ==
  ASSUME DataInv, NEW p \in Procs, OthersStay(p), DataShrinks,
         UNCHANGED <<request, erased, turnedOff>>,
         pc'[p] \notin EraseLabels \cup Busy,
         pc'[p] = "awaitConfirm" => code'[p] \in Codes
  PROVE  DataInv'
<1> USE DEF DataInv, OthersStay, DataShrinks
<1>1. ASSUME NEW q \in Procs PROVE ProgressOf(q)'
  <2>1. ProgressOf(q)
    BY DEF ProgressInv
  <2>2. QED
    BY <2>1 DEF ProgressOf, EraseLabels
<1>2. ASSUME NEW q \in Procs PROVE CodesOf(q)'
  <2>1. CodesOf(q)
    BY DEF CodesInv
  <2>2. QED
    BY <2>1 DEF CodesOf, Erasing, EraseLabels
<1>3. GoneInv'
  BY DEF GoneInv, TenantIsEmpty, Busy
<1>4. QED
  BY <1>1, <1>2, <1>3 DEF ProgressInv, CodesInv

\* A unit of work has no erasure beside it.
LEMMA UnitWrites ==
  ASSUME ExclusionInv, DataInv, NEW p \in Procs, OthersStay(p), Working(p),
         pc'[p] \notin EraseLabels \cup {"awaitConfirm"}
  PROVE  ProgressInv' /\ CodesInv'
<1>1. ASSUME NEW q \in Procs PROVE ~Erasing(q)'
  BY Alone DEF OthersStay, Erasing
<1>2. ASSUME NEW q \in Procs PROVE CodesOf(q)'
  BY <1>1 DEF CodesOf, Erasing, EraseLabels, DataInv, CodesInv, OthersStay
<1>3. ASSUME NEW q \in Procs PROVE ProgressOf(q)'
  BY <1>1 DEF ProgressOf, Erasing, EraseLabels
<1>4. QED
  BY <1>2, <1>3 DEF ProgressInv, CodesInv

\* An erasure has no other beside it.
LEMMA EraserWrites ==
  ASSUME ExclusionInv, DataInv, NEW p \in Procs, OthersStay(p), Erasing(p),
         pc'[p] # "awaitConfirm", ProgressOf(p)', CodesOf(p)'
  PROVE  ProgressInv' /\ CodesInv'
<1>1. ASSUME NEW q \in Procs, q # p PROVE ~Erasing(q)'
  BY <1>1, Alone DEF OthersStay, Erasing
<1>2. ASSUME NEW q \in Procs PROVE CodesOf(q)'
  BY <1>1 DEF CodesOf, Erasing, EraseLabels, DataInv, CodesInv, OthersStay
<1>3. ASSUME NEW q \in Procs PROVE ProgressOf(q)'
  BY <1>1 DEF ProgressOf, Erasing, EraseLabels
<1>4. QED
  BY <1>2, <1>3 DEF ProgressInv, CodesInv

\* What is gone stays gone.
LEMMA StaysGone ==
  ASSUME GoneInv, NEW p \in Procs, OthersStay(p), DataShrinks, UNCHANGED <<erased, turnedOff>>,
         pc'[p] \notin Busy
  PROVE  GoneInv'
  BY DEF GoneInv, TenantIsEmpty, OthersStay, DataShrinks, Busy

\* A handler adds something only after a recheck or from a unit of work.
LEMMA HandlerData ==
  ASSUME TypeInv, ExclusionInv, OffInv, DataInv, NEW p \in Procs, HandlerStep(p) PROVE DataInv'
<1> USE DEF EraseLabels, Busy
<1>0. TypeOK /\ B!TypeOK /\ OthersStay(p) /\ turnedOff' = turnedOff
  BY HandlersAreOutside DEF TypeInv, TypeOK, Outside, bizVars
<1>1. CASE \/ \E m \in Items : ReceiveMessage(p, m) \/ ReceiveEdit(p, m) \/ ReceiveDeletion(p, m)
           \/ \E k \in Codes : ReceiveConfirmation(p, k)
           \/ ControlPasses(p) \/ EnterSave(p)
  <2>1. pc'[p] = "lookup" /\ UNCHANGED <<request, erased>> /\ DataShrinks
    BY <1>0, <1>1
    DEF ReceiveMessage, ReceiveEdit, ReceiveDeletion, ReceiveConfirmation, ControlPasses, EnterSave,
        StartUpdate, B!CallResolve, B!Goto, B!TypeOK, dataVars, codeVars, DataShrinks
  <2>2. QED
    BY <1>0, <2>1, Harmless
<1>2. CASE \/ Abandon(p) \/ RecheckSkips(p) \/ ControlConsumes(p) \/ CaptureSkips(p) \/ GiveUp(p)
           \/ AnswerNothing(p) \/ ControlRequests(p) \/ AnswerRequests(p)
           \/ CaptureAdmitted(p) \/ MarkAdmitted(p)
  <2>1. /\ pc'[p] \in {"idle", "awaitRequest", "awaitSave", "awaitMark"}
        /\ UNCHANGED <<request, erased>> /\ DataShrinks
    BY <1>0, <1>2
    DEF Abandon, RecheckSkips, ControlConsumes, CaptureSkips, GiveUp, AnswerNothing, ControlRequests,
        AnswerRequests, CaptureAdmitted, MarkAdmitted, ReleaseAndReturn, Return, Goto, B!Leave,
        B!Goto, B!TypeOK, dataVars, codeVars, DataShrinks
  <2>2. QED
    BY <1>0, <2>1, Harmless
<1>3. CASE ControlConfirms(p)
  <2>1. pc'[p] = "awaitConfirm" /\ UNCHANGED <<request, erased>> /\ DataShrinks
    BY <1>0, <1>3
    DEF ControlConfirms, Goto, B!Leave, B!Goto, B!TypeOK, dataVars, codeVars, DataShrinks
  <2>2. code'[p] \in Codes
    BY <1>0, <1>3 DEF ControlConfirms, unitVars, TypeOK
  <2>3. QED
    BY <1>0, <2>1, <2>2, Harmless
<1>4. CASE Save(p)
  <2>1. pc[p] = "recheck" /\ pc'[p] = "attach" /\ got[p].on /\ erased' = erased
    BY <1>0, <1>4 DEF Save, Goto, B!Leave, B!Goto, B!TypeOK
  <2>2. ~erased
    BY <2>1 DEF OffInv, FreshReads, Rechecks, DataInv, GoneInv
  <2>3. GoneInv'
    BY <2>1, <2>2 DEF GoneInv
  <2>4. QED
    BY <1>0, <2>1, <2>3, UnitWrites DEF Working, UnitLabels, DataInv
<1>5. CASE \E attached \in BOOLEAN : SaveMedia(p, attached)
  <2>1. pc[p] = "attach" /\ pc'[p] = "answer" /\ erased' = erased
    BY <1>0, <1>5 DEF SaveMedia, Goto, B!Leave, B!Goto, B!TypeOK
  <2>2. ~erased
    BY <2>1 DEF DataInv, GoneInv, TenantIsEmpty
  <2>3. GoneInv'
    BY <2>1, <2>2 DEF GoneInv
  <2>4. QED
    BY <1>0, <2>1, <2>3, UnitWrites DEF Working, UnitLabels, DataInv
<1>6. CASE MarkDeleted(p)
  <2>1. /\ pc[p] = "marking" /\ pc'[p] = "idle" /\ erased' = erased
        /\ UNCHANGED <<messages, media, blobs>> /\ outbox' = outbox \cup ({item[p]} \cap messages)
    BY <1>0, <1>6 DEF MarkDeleted, ReleaseAndReturn, Return, B!Leave, B!Goto, B!TypeOK
  <2>2. GoneInv'
    BY <1>0, <2>1 DEF GoneInv, DataInv, TenantIsEmpty, OthersStay
  <2>3. QED
    BY <1>0, <2>1, <2>2, UnitWrites DEF Working, UnitLabels, DataInv
<1>7. QED
  BY <1>1, <1>2, <1>3, <1>4, <1>5, <1>6 DEF HandlerStep

\* The loops start from a row or an alert, and there is none when all is gone.
LEMMA LoopData ==
  ASSUME TypeInv, ExclusionInv, DataInv, NEW p \in Procs, FetcherStep(p) \/ WorkerStep(p) \/ UnitFails(p)
  PROVE  DataInv'
<1> USE DEF EraseLabels, Busy
<1>0. TypeOK /\ B!TypeOK /\ OthersStay(p) /\ turnedOff' = turnedOff
  BY LoopsAreOutside DEF TypeInv, TypeOK, Outside, bizVars
<1>1. CASE \E m \in Items : FetchStarts(p, m) \/ ClaimAlert(p, m)
  <2>1. /\ pc'[p] \in {"download", "deliver"} /\ UNCHANGED <<dataVars, request, erased>>
        /\ \E m \in Items : media[m] = "pending" \/ m \in outbox
    BY <1>0, <1>1 DEF FetchStarts, ClaimAlert, codeVars, Goto, B!Leave, B!Goto, B!TypeOK
  <2>2. ~erased
    BY <2>1 DEF DataInv, GoneInv, TenantIsEmpty
  <2>3. GoneInv'
    BY <2>1, <2>2 DEF GoneInv
  <2>4. ASSUME NEW q \in Procs PROVE ProgressOf(q)' /\ CodesOf(q)'
    <3>1. ProgressOf(q) /\ CodesOf(q)
      BY DEF DataInv, ProgressInv, CodesInv
    <3>2. CASE q = p
      BY <2>1, <3>2 DEF ProgressOf, CodesOf, Erasing
    <3>3. CASE q # p
      BY <1>0, <2>1, <3>1, <3>3 DEF ProgressOf, CodesOf, Erasing, OthersStay, dataVars
    <3>4. QED
      BY <3>2, <3>3
  <2>5. QED
    BY <2>3, <2>4 DEF DataInv, ProgressInv, CodesInv
<1>2. CASE Download(p) \/ Deliver(p) \/ MarkStored(p) \/ MarkSent(p)
  <2>1. /\ pc[p] \in Busy /\ pc'[p] \in {"markStored", "acknowledge", "idle"} /\ erased' = erased
    BY <1>0, <1>2
    DEF Download, Deliver, MarkStored, MarkSent, ReleaseAndReturn, Return, Goto, B!Leave, B!Goto, B!TypeOK
  <2>2. ~erased
    BY <2>1 DEF DataInv, GoneInv, TenantIsEmpty
  <2>3. GoneInv'
    BY <2>1, <2>2 DEF GoneInv
  <2>4. QED
    BY <1>0, <2>1, <2>3, UnitWrites DEF Working, UnitLabels, DataInv
<1>3. CASE UnitFails(p)
  <2>1. pc'[p] = "idle" /\ UNCHANGED <<request, erased>> /\ DataShrinks
    BY <1>0, <1>3
    DEF UnitFails, ReleaseAndReturn, Return, B!Leave, B!Goto, B!TypeOK, dataVars, codeVars, DataShrinks
  <2>2. QED
    BY <1>0, <2>1, Harmless
<1>4. QED
  BY <1>1, <1>2, <1>3 DEF FetcherStep, WorkerStep

\* Each step of erase leaves what the later ones and Complete count on.
LEMMA ErasureData ==
  ASSUME TypeInv, ExclusionInv, DataInv, NEW p \in Procs, ErasureStep(p) PROVE DataInv'
<1> USE DEF EraseLabels, Busy
<1>0. TypeOK /\ B!TypeOK /\ OthersStay(p) /\ turnedOff' = turnedOff /\ ProgressOf(p) /\ CodesOf(p)
  BY ErasuresAreOutside DEF TypeInv, TypeOK, Outside, bizVars, DataInv, ProgressInv, CodesInv
<1>1. CASE EnterRequest(p) \/ ClaimRefused(p)
  <2>1. pc'[p] \in {"issue", "idle"} /\ UNCHANGED <<request, erased>> /\ DataShrinks
    BY <1>0, <1>1
    DEF EnterRequest, ClaimRefused, ReleaseAndReturn, Return, Goto, B!Leave, B!Goto, B!TypeOK,
        dataVars, codeVars, DataShrinks
  <2>2. QED
    BY <1>0, <2>1, Harmless
<1>2. CASE \E k \in Codes : Issue(p, k)
  <2>1. pc[p] = "issue" /\ pc'[p] = "idle" /\ erased' = erased /\ DataShrinks
    BY <1>0, <1>2
    DEF Issue, ReleaseAndReturn, Return, B!Leave, B!Goto, B!TypeOK, dataVars, DataShrinks
  <2>2. GoneInv'
    BY <1>0, <2>1, StaysGone DEF DataInv
  <2>3. QED
    BY <1>0, <2>1, <2>2, UnitWrites DEF Working, UnitLabels, DataInv
<1>3. CASE EnterConfirm(p)
  <2>1. /\ pc[p] = "awaitConfirm" /\ pc'[p] = "claim" /\ code'[p] = code[p]
        /\ UNCHANGED <<dataVars, request, erased>>
    BY <1>0, <1>3 DEF EnterConfirm, Goto, B!Leave, B!Goto, B!TypeOK, codeVars, unitVars
  <2>2. ASSUME NEW q \in Procs PROVE ProgressOf(q)' /\ CodesOf(q)'
    <3>1. ProgressOf(q) /\ CodesOf(q)
      BY DEF DataInv, ProgressInv, CodesInv
    <3>2. CASE q = p
      BY <2>1, <3>1, <3>2 DEF ProgressOf, CodesOf, Erasing
    <3>3. CASE q # p
      BY <1>0, <2>1, <3>1, <3>3 DEF ProgressOf, CodesOf, Erasing, OthersStay, dataVars
    <3>4. QED
      BY <3>2, <3>3
  <2>3. GoneInv'
    BY <1>0, <2>1, StaysGone DEF DataInv, DataShrinks, dataVars
  <2>4. QED
    BY <2>2, <2>3 DEF DataInv, ProgressInv, CodesInv
<1>4. CASE Claim(p)
  <2>1. /\ pc[p] = "claim" /\ pc'[p] = "disableRows" /\ code'[p] = code[p] /\ code[p] \in Codes
        /\ erased' = erased /\ DataShrinks
    BY <1>0, <1>4 DEF Claim, B!CallDisableOwner, B!Goto, B!TypeOK, unitVars, dataVars, DataShrinks, CodesOf
  <2>2. request'[code[p]] = "consumed"
    BY <1>0, <1>4, <2>1 DEF Claim, Spendable, TypeOK
  <2>3. GoneInv'
    BY <1>0, <2>1, StaysGone DEF DataInv
  <2>4. ProgressOf(p)' /\ CodesOf(p)'
    BY <2>1, <2>2 DEF ProgressOf, CodesOf
  <2>5. QED
    BY <1>0, <2>1, <2>3, <2>4, EraserWrites DEF Erasing, DataInv
<1>5. CASE \/ DeleteAlerts(p) \/ \E m \in Items : UnlinkFile(p, m)
           \/ AllUnlinked(p) \/ \E batch \in SUBSET Items : DeleteMediaBatch(p, batch)
           \/ AllMediaDeleted(p) \/ Sweep(p) \/ DeleteMessages(p)
  <2>1. /\ Erasing(p) /\ pc[p] # "claim" /\ pc'[p] \notin Busy \cup {"awaitConfirm", "complete"}
        /\ code'[p] = code[p] /\ UNCHANGED <<request, erased>>
    BY <1>0, <1>5
    DEF DeleteAlerts, UnlinkFile, AllUnlinked, DeleteMediaBatch, AllMediaDeleted, Sweep, DeleteMessages,
        Goto, B!Leave, B!Goto, B!TypeOK, unitVars, codeVars, Erasing
  <2>2. DataShrinks
    BY <1>0, <1>5
    DEF DeleteAlerts, UnlinkFile, AllUnlinked, DeleteMediaBatch, AllMediaDeleted, Sweep, DeleteMessages,
        dataVars, DataShrinks, TypeOK
  <2>3. ProgressOf(p)'
    BY <1>0, <1>5, <2>2
    DEF DeleteAlerts, UnlinkFile, AllUnlinked, DeleteMediaBatch, AllMediaDeleted, Sweep, DeleteMessages,
        Goto, B!Leave, B!Goto, B!TypeOK, ProgressOf, dataVars, DataShrinks
  <2>4. CodesOf(p)'
    BY <1>0, <2>1 DEF CodesOf, Erasing
  <2>5. GoneInv'
    BY <1>0, <2>1, <2>2, StaysGone DEF DataInv
  <2>6. QED
    BY <1>0, <2>1, <2>3, <2>4, <2>5, EraserWrites DEF DataInv
<1>6. CASE DeleteOthers(p)
  <2>1. /\ pc[p] = "deleteOthers" /\ pc'[p] = "complete" /\ code'[p] = code[p]
        /\ erased' = erased /\ UNCHANGED dataVars
        /\ request' = [k \in Codes |-> IF k = code[p] THEN request[k] ELSE "none"]
    BY <1>0, <1>6 DEF DeleteOthers, Goto, B!Leave, B!Goto, B!TypeOK, unitVars
  <2>2. ProgressOf(p)' /\ CodesOf(p)'
    BY <1>0, <2>1 DEF ProgressOf, CodesOf, Erasing, dataVars
  <2>3. GoneInv'
    BY <1>0, <2>1, StaysGone DEF DataInv, DataShrinks, dataVars
  <2>4. QED
    BY <1>0, <2>1, <2>2, <2>3, EraserWrites DEF Erasing, DataInv
<1>7. CASE Complete(p)
  <2>1. /\ pc[p] = "complete" /\ pc'[p] = "idle" /\ UNCHANGED dataVars
        /\ erased' = (Owner \in turnedOff)
    BY <1>0, <1>7 DEF Complete, ReleaseAndReturn, Return, B!Leave, B!Goto, B!TypeOK
  <2>2. ProgressOf(p)' /\ CodesOf(p)'
    BY <2>1 DEF ProgressOf, CodesOf, Erasing
  <2>3. \A q \in Procs : pc'[q] \notin Busy
    <3>1. \A q \in Procs \ {p} : ~Working(q)
      BY <2>1, Alone DEF Erasing
    <3>2. QED
      BY <1>0, <2>1, <3>1 DEF Working, UnitLabels, OthersStay
  <2>4. GoneInv'
    BY <1>0, <2>1, <2>3 DEF GoneInv, TenantIsEmpty, ProgressOf, dataVars
  <2>5. QED
    BY <1>0, <2>1, <2>2, <2>4, EraserWrites DEF Erasing, DataInv
<1>8. QED
  BY <1>1, <1>2, <1>3, <1>4, <1>5, <1>6, <1>7 DEF ErasureStep

\* Nothing is erased and nothing is being erased.
LEMMA DataInit == Init => DataInv
  BY DEF Init, B!InitWith, DataInv, ProgressInv, ProgressOf, CodesInv, CodesOf, GoneInv, Erasing, EraseLabels

\* Every step keeps what the erasure did, for whom, and what it promised.
LEMMA DataStep == TypeInv /\ ExclusionInv /\ OffInv /\ DataInv /\ [Next]_vars => DataInv'
<1> SUFFICES ASSUME TypeInv, ExclusionInv, OffInv, DataInv, [Next]_vars PROVE DataInv'
  OBVIOUS
<1>1. CASE UNCHANGED vars \/ CacheExpires \/ \E k \in Codes : ExpireCode(k)
  <2>1. UNCHANGED <<pc, code, request, dataVars, erased, turnedOff>>
    BY <1>1
    DEF vars, bizVars, callVars, codeVars, unitVars, CacheExpires, B!Expire, B!callVars, B!dbVars, ExpireCode
  <2>2. QED
    BY <2>1
    DEF dataVars, DataInv, ProgressInv, ProgressOf, CodesInv, CodesOf, GoneInv, TenantIsEmpty, Erasing
<1>2. ASSUME NEW p \in Procs,
             HandlerStep(p) \/ ErasureStep(p) \/ FetcherStep(p) \/ WorkerStep(p) \/ UnitFails(p)
      PROVE  DataInv'
  BY <1>2, HandlerData, ErasureData, LoopData
<1>3. ASSUME NEW p \in Procs, BusinessStep(p) PROVE DataInv'
  <2>1. CallMoves(p) /\ erased' = (erased /\ Owner \in turnedOff')
    BY <1>3, CallsMove DEF BusinessStep, StillErased
  <2>2. /\ pc'[p] \notin Busy \cup {"awaitConfirm"}
        /\ pc'[p] \in EraseLabels => pc[p] \in EraseLabels /\ pc[p] # "claim"
        /\ pc'[p] \in EraseLabels => pc'[p] \in {"disableCache", "deleteAlerts"}
    BY <2>1 DEF CallMoves, TypeInv, CallsInv, Busy, EraseLabels, Resolving
  <2>3. ASSUME NEW q \in Procs PROVE ProgressOf(q)' /\ CodesOf(q)'
    <3>1. ProgressOf(q) /\ CodesOf(q)
      BY DEF DataInv, ProgressInv, CodesInv
    <3>2. CASE q = p
      BY <2>1, <2>2, <3>1, <3>2 DEF CallMoves, ProgressOf, CodesOf, Erasing, EraseLabels, codeVars
    <3>3. CASE q # p
      BY <2>1, <3>1, <3>3 DEF CallMoves, ProgressOf, CodesOf, Erasing, OthersStay, dataVars, codeVars
    <3>4. QED
      BY <3>2, <3>3
  <2>4. GoneInv'
    BY <2>1, <2>2 DEF CallMoves, DataInv, GoneInv, TenantIsEmpty, OthersStay, Busy, dataVars
  <2>5. QED
    BY <2>3, <2>4 DEF DataInv, ProgressInv, CodesInv
<1>4. CASE Crash
  <2>1. \A q \in Procs : pc'[q] = "idle"
    BY <1>4 DEF Crash, B!Restart
  <2>2. ProgressInv' /\ CodesInv'
    BY <2>1 DEF ProgressInv, ProgressOf, CodesInv, CodesOf, Erasing, EraseLabels
  <2>3. GoneInv'
    BY <1>4, <2>1 DEF Crash, B!Restart, DataInv, GoneInv, TenantIsEmpty, dataVars
  <2>4. QED
    BY <2>2, <2>3 DEF DataInv
<1>5. QED
  BY <1>1, <1>2, <1>3, <1>4 DEF Next, Procs

-------------------------------------------------------------------------------
(* Theorems *)

\* The types of the tables, of the guard and of what every goroutine carries
\* from the update to the save or the erasure.
THEOREM ErasureTypesHold == Spec => []TypeOK
<1>1. TypeInv => TypeOK
  BY DEF TypeInv
<1>2. QED
  BY <1>1, TypeInit, TypeStep, PTL DEF Spec

\* Confirm runs "under the tenant's exclusive exclusion": no other erasure
\* and no unit of work of the tenant runs beside it.
THEOREM ErasureOneEraser == Spec => []OneEraserAtATime
<1>1. ExclusionInv => OneEraserAtATime
  <2>1. ASSUME ExclusionInv, NEW p \in Procs, NEW q \in Procs,
               pc[p] \in EraseLabels, pc[q] \in EraseLabels \cup UnitLabels
        PROVE  p = q
    BY <2>1, Alone DEF Erasing, Working
  <2>2. QED
    BY <2>1 DEF OneEraserAtATime
<1>2. QED
  BY <1>1, TypeInit, TypeStep, ExclusionInit, ExclusionStep, PTL DEF Spec

\* The confirmation message is true: from the completion of an erasure to the
\* next enabled report nothing of the tenant is stored or on its way out.
THEOREM ErasureIsComplete == Spec => []ErasedMeansGone
<1>1. DataInv => ErasedMeansGone
  BY DEF DataInv, GoneInv, ErasedMeansGone
<1>2. QED
  BY <1>1, TypeInit, TypeStep, ExclusionInit, ExclusionStep, OffInit, OffStep, DataInit, DataStep, PTL
  DEF Spec

\* Challenges.Complete: no code issued or claimed by another update survives
\* a completed request.
THEOREM ErasureLeavesTheReceipt == Spec => CompletionLeavesOnlyTheReceipt
<1>1. TypeInv /\ DataInv /\ [Next]_vars =>
        [\A k \in Codes : request[k] # "completed" /\ request'[k] = "completed"
             => \A j \in Codes \ {k} : request'[j] = "none"]_vars
  <2> SUFFICES ASSUME TypeInv, DataInv, Next,
                      NEW k \in Codes, request[k] # "completed", request'[k] = "completed"
               PROVE  \A j \in Codes \ {k} : request'[j] = "none"
    OBVIOUS
  <2>0. request \in [Codes -> RequestStatus]
    BY DEF TypeInv, TypeOK
  <2>1. \A p \in Procs : ~HandlerStep(p)
    BY DEF HandlerStep, ReceiveMessage, ReceiveEdit, ReceiveDeletion, ReceiveConfirmation, StartUpdate,
        Abandon, ControlConsumes, ControlConfirms, ControlRequests, ControlPasses, CaptureSkips,
        CaptureAdmitted, MarkAdmitted, GiveUp, EnterSave, RecheckSkips, Save, SaveMedia, AnswerNothing,
        AnswerRequests, MarkDeleted, codeVars
  <2>2. \A p \in Procs : ~(FetcherStep(p) \/ WorkerStep(p) \/ UnitFails(p) \/ BusinessStep(p))
    BY DEF FetcherStep, FetchStarts, Download, MarkStored, WorkerStep, ClaimAlert, Deliver, MarkSent,
        UnitFails, BusinessStep, codeVars
  <2>3. ~Crash /\ ~CacheExpires /\ \A c \in Codes : ~ExpireCode(c)
    BY DEF Crash, CacheExpires, ExpireCode, codeVars
  <2>4. PICK p \in Procs : ErasureStep(p)
    BY <2>1, <2>2, <2>3 DEF Next, Procs
  <2>5. Complete(p)
    <3>1. ~(\/ EnterRequest(p) \/ EnterConfirm(p) \/ ClaimRefused(p) \/ DeleteAlerts(p)
            \/ \E m \in Items : UnlinkFile(p, m)
            \/ AllUnlinked(p) \/ \E batch \in SUBSET Items : DeleteMediaBatch(p, batch)
            \/ AllMediaDeleted(p) \/ Sweep(p) \/ DeleteMessages(p))
      BY DEF EnterRequest, EnterConfirm, ClaimRefused, DeleteAlerts, UnlinkFile, AllUnlinked,
          DeleteMediaBatch, AllMediaDeleted, Sweep, DeleteMessages, codeVars
    <3>2. ~Claim(p) /\ ~DeleteOthers(p) /\ ~\E c \in Codes : Issue(p, c)
      BY <2>0 DEF Claim, DeleteOthers, Issue
    <3>3. QED
      BY <2>4, <3>1, <3>2 DEF ErasureStep
  <2>6. k = code[p] /\ \A j \in Codes \ {k} : request'[j] = request[j]
    BY <2>0, <2>5 DEF Complete
  <2>7. QED
    BY <2>5, <2>6 DEF Complete, DataInv, CodesInv, CodesOf
<1>2. QED
  BY <1>1, TypeInit, TypeStep, ExclusionInit, ExclusionStep, OffInit, OffStep, DataInit, DataStep, PTL
  DEF Spec, CompletionLeavesOnlyTheReceipt

\* "A replay deletes nothing": what disappears does so on behalf of a request
\* that was claimed and is not completed.
THEOREM ErasureDeletesOnRequest == Spec => OnlyAnUnfinishedErasureDeletes
<1>1. DataInv /\ [Next]_vars =>
        [(~ messages \subseteq messages' \/ ~ blobs \subseteq blobs')
             => \E p \in Procs : pc[p] \in EraseLabels /\ request[code[p]] = "consumed"]_vars
  <2> SUFFICES ASSUME DataInv, Next, ~ messages \subseteq messages' \/ ~ blobs \subseteq blobs'
               PROVE  \E p \in Procs : pc[p] \in EraseLabels /\ request[code[p]] = "consumed"
    OBVIOUS
  <2>1. \A p \in Procs : ~HandlerStep(p)
    BY DEF HandlerStep, ReceiveMessage, ReceiveEdit, ReceiveDeletion, ReceiveConfirmation, StartUpdate,
        Abandon, ControlConsumes, ControlConfirms, ControlRequests, ControlPasses, CaptureSkips,
        CaptureAdmitted, MarkAdmitted, GiveUp, EnterSave, RecheckSkips, Save, SaveMedia, AnswerNothing,
        AnswerRequests, MarkDeleted, dataVars
  <2>2. \A p \in Procs : ~(FetcherStep(p) \/ WorkerStep(p) \/ UnitFails(p) \/ BusinessStep(p))
    BY DEF FetcherStep, FetchStarts, Download, MarkStored, WorkerStep, ClaimAlert, Deliver, MarkSent,
        UnitFails, BusinessStep, dataVars
  <2>3. ~Crash /\ ~CacheExpires /\ \A c \in Codes : ~ExpireCode(c)
    BY DEF Crash, CacheExpires, ExpireCode, dataVars
  <2>4. PICK p \in Procs : ErasureStep(p)
    BY <2>1, <2>2, <2>3 DEF Next, Procs
  <2>5. Sweep(p) \/ DeleteMessages(p) \/ \E m \in Items : UnlinkFile(p, m)
    BY <2>4
    DEF ErasureStep, EnterRequest, Issue, EnterConfirm, Claim, ClaimRefused, DeleteAlerts, AllUnlinked,
        DeleteMediaBatch, AllMediaDeleted, DeleteOthers, Complete, dataVars
  <2>6. Erasing(p) /\ pc[p] # "claim"
    BY <2>5 DEF Sweep, DeleteMessages, UnlinkFile, Goto, Erasing, EraseLabels
  <2>7. QED
    BY <2>6 DEF DataInv, CodesInv, CodesOf, Erasing
<1>2. QED
  BY <1>1, TypeInit, TypeStep, ExclusionInit, ExclusionStep, OffInit, OffStep, DataInit, DataStep, PTL
  DEF Spec, OnlyAnUnfinishedErasureDeletes

================================================================================

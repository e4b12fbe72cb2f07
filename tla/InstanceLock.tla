----------------------------- MODULE InstanceLock -----------------------------
(***************************************************************************)
(* One bot per database: storage.InstanceLock and the boot and shutdown    *)
(* order of cmd/bot around it.  The exclusion of tenants, the outbox lease *)
(* and the erasure are sized for one process; the session advisory lock is *)
(* what makes it one.  The lock lives in a database session, and a session *)
(* can end without the process that opened it knowing, or outlive the      *)
(* connection the process has given up.                                    *)
(***************************************************************************)
EXTENDS Naturals

CONSTANTS
    Processes,
    NoSession,  \* nobody holds the advisory lock
    MaxDrops    \* bound: how many sessions break during a behaviour

ASSUME DropsAreCounted == MaxDrops \in Nat
ASSUME NoSessionIsNone == NoSession \notin Processes \X {"live", "abandoned"}

VARIABLES
    pc,     \* run: "down", "waiting" for the lock, "working", "stopping"
            \* (ctx cancelled, the loops finish) or "closed" (pool closed)
    hold,   \* the goroutine of Hold: "none", "checking", "retaking", "returned"
    conn,   \* l.conn as the process sees it: "nil", "open", or "broken" when
            \* the session behind it is gone and nobody has noticed
    holder, \* the session that holds the lock, on the server
    drops

vars == <<pc, hold, conn, holder, drops>>

(* The session behind l.conn, and one that the process has abandoned and   *)
(* the server not yet found dead.                                          *)
Session(p) == <<p, "live">>
Abandoned(p) == <<p, "abandoned">>

Active(p) == pc[p] \in {"working", "stopping"}
Holds(p) == holder = Session(p)

(* What becomes of the lock when p's connection ends: the server releases  *)
(* it, at once or when it finds out.                                       *)
SessionEnds(p) ==
    IF Holds(p) THEN holder' \in {NoSession, Abandoned(p)} ELSE UNCHANGED holder
(* Release, closeLocked: Close says so to the server. *)
SessionClosed(p) ==
    IF Holds(p) THEN holder' = NoSession ELSE UNCHANGED holder

-----------------------------------------------------------------------------
(* AcquireInstanceLock *)

Boot(p) ==
    /\ pc[p] = "down"
    /\ pc' = [pc EXCEPT ![p] = "waiting"]
    /\ UNCHANGED <<hold, conn, holder, drops>>

(* Mutant: a process that found the lock taken does not ask again. *)
AcquireOnce(p) ==
    /\ pc[p] = "waiting" /\ conn[p] = "nil"
    /\ holder = NoSession
    /\ holder' = Session(p)
    /\ conn' = [conn EXCEPT ![p] = "open"]
    /\ pc' = [pc EXCEPT ![p] = "working"]
    /\ hold' = [hold EXCEPT ![p] = "checking"]
    /\ UNCHANGED drops

(* tryLock grants: boot goes on, migrations first, and Hold is started.    *)
Acquire(p) ==
    /\ pc[p] = "waiting" /\ conn[p] # "broken"
    /\ holder = NoSession
    /\ holder' = Session(p)
    /\ conn' = [conn EXCEPT ![p] = "open"]
    /\ pc' = [pc EXCEPT ![p] = "working"]
    /\ hold' = [hold EXCEPT ![p] = "checking"]
    /\ UNCHANGED drops

(* Taken: the process waits and asks again, on the same session. *)
WaitForHolder(p) ==
    /\ pc[p] = "waiting" /\ conn[p] # "broken"
    /\ holder # NoSession
    /\ conn' = [conn EXCEPT ![p] = "open"]
    /\ UNCHANGED <<pc, hold, holder, drops>>

(* No database, or a signal while waiting. *)
GiveUpWaiting(p) ==
    /\ pc[p] = "waiting"
    /\ pc' = [pc EXCEPT ![p] = "down"]
    /\ conn' = [conn EXCEPT ![p] = "nil"]
    /\ UNCHANGED <<hold, holder, drops>>

-----------------------------------------------------------------------------
(* Hold *)

(* alive: the ping of a session that has ended fails. *)
CheckFails(p) ==
    /\ hold[p] = "checking" /\ conn[p] = "broken"
    /\ conn' = [conn EXCEPT ![p] = "nil"]
    /\ hold' = [hold EXCEPT ![p] = "retaking"]
    /\ UNCHANGED <<pc, holder, drops>>

(* A ping that takes too long closes a session that was still there. *)
CheckTimesOut(p) ==
    /\ hold[p] = "checking" /\ conn[p] = "open" /\ drops < MaxDrops
    /\ conn' = [conn EXCEPT ![p] = "nil"]
    /\ SessionEnds(p)
    /\ hold' = [hold EXCEPT ![p] = "retaking"]
    /\ drops' = drops + 1
    /\ UNCHANGED pc

(* retake; as long as the database does not answer it is tried again, and  *)
(* the process works on.                                                   *)
TakeBack(p) ==
    /\ hold[p] = "retaking" /\ holder = NoSession
    /\ holder' = Session(p)
    /\ conn' = [conn EXCEPT ![p] = "open"]
    /\ hold' = [hold EXCEPT ![p] = "checking"]
    /\ UNCHANGED <<pc, drops>>

(* Mutant: the error of Hold is logged and the process works on. *)
LockLostIgnored(p) ==
    /\ hold[p] = "retaking" /\ holder # NoSession
    /\ hold' = [hold EXCEPT ![p] = "returned"]
    /\ UNCHANGED <<pc, conn, holder, drops>>
(* Mutant: a lost lock is a state of its own that nothing leaves. *)
LockLostState(p) ==
    /\ hold[p] = "retaking" /\ holder # NoSession
    /\ hold' = [hold EXCEPT ![p] = "lost"]
    /\ pc' = [pc EXCEPT ![p] = "stopping"]
    /\ UNCHANGED <<conn, holder, drops>>

(* ErrInstanceLockLost: Hold returns, and its caller stops the process. *)
LockLost(p) ==
    /\ hold[p] = "retaking" /\ holder # NoSession
    /\ hold' = [hold EXCEPT ![p] = "returned"]
    /\ pc' = IF pc[p] = "working" THEN [pc EXCEPT ![p] = "stopping"] ELSE pc
    /\ UNCHANGED <<conn, holder, drops>>

(* Mutant: the lock is released at the signal. *)
StopReleases(p) ==
    /\ pc[p] = "working"
    /\ pc' = [pc EXCEPT ![p] = "stopping"]
    /\ hold' = [hold EXCEPT ![p] = "none"]
    /\ conn' = [conn EXCEPT ![p] = "nil"]
    /\ SessionClosed(p)
    /\ UNCHANGED drops

-----------------------------------------------------------------------------
(* The end of run: a signal, a failed boot step or the poller cancels ctx, *)
(* the loops finish their iteration and the pool is closed, and only then  *)
(* is Hold told to release the lock.                                       *)

Stop(p) ==
    /\ pc[p] = "working"
    /\ pc' = [pc EXCEPT ![p] = "stopping"]
    /\ UNCHANGED <<hold, conn, holder, drops>>

LoopsFinish(p) ==
    /\ pc[p] = "stopping"
    /\ pc' = [pc EXCEPT ![p] = "closed"]
    /\ UNCHANGED <<hold, conn, holder, drops>>

Release(p) ==
    /\ pc[p] = "closed"
    /\ SessionClosed(p)
    /\ conn' = [conn EXCEPT ![p] = "nil"]
    /\ hold' = [hold EXCEPT ![p] = "none"]
    /\ pc' = [pc EXCEPT ![p] = "down"]
    /\ UNCHANGED drops

-----------------------------------------------------------------------------
(* Faults *)

(* The database restarts or the network is cut. *)
SessionBreaks(p) ==
    /\ conn[p] = "open" /\ drops < MaxDrops
    /\ conn' = [conn EXCEPT ![p] = "broken"]
    /\ SessionEnds(p)
    /\ drops' = drops + 1
    /\ UNCHANGED <<pc, hold>>

(* The server finds the peer of an abandoned session gone. *)
SessionReaped(p) ==
    /\ holder = Abandoned(p)
    /\ holder' = NoSession
    /\ UNCHANGED <<pc, hold, conn, drops>>

Crash(p) ==
    /\ pc[p] # "down" /\ drops < MaxDrops
    /\ pc' = [pc EXCEPT ![p] = "down"]
    /\ conn' = [conn EXCEPT ![p] = "nil"]
    /\ hold' = [hold EXCEPT ![p] = "none"]
    /\ SessionEnds(p)
    /\ drops' = drops + 1

-----------------------------------------------------------------------------
Init ==
    /\ pc = [p \in Processes |-> "down"]
    /\ hold = [p \in Processes |-> "none"]
    /\ conn = [p \in Processes |-> "nil"]
    /\ holder = NoSession
    /\ drops = 0

Next ==
    \E p \in Processes :
        \/ Boot(p) \/ Acquire(p) \/ WaitForHolder(p) \/ GiveUpWaiting(p)
        \/ CheckFails(p) \/ CheckTimesOut(p) \/ TakeBack(p) \/ LockLost(p)
        \/ Stop(p) \/ LoopsFinish(p) \/ Release(p)
        \/ SessionBreaks(p) \/ SessionReaped(p) \/ Crash(p)

(* Hold's ticker fires, a reconnection succeeds in the end, the loops and  *)
(* the deferred calls end, the server's keepalive finds a dead peer, and a *)
(* process that waits for the lock asks for it again and again.            *)
Fairness ==
    \A p \in Processes :
        /\ WF_vars(CheckFails(p))
        /\ WF_vars(TakeBack(p) \/ LockLost(p))
        /\ WF_vars(LoopsFinish(p)) /\ WF_vars(Release(p))
        /\ WF_vars(SessionReaped(p))
        /\ WF_vars(Acquire(p)) /\ WF_vars(conn[p] = "broken" /\ GiveUpWaiting(p))

Spec == Init /\ [][Next]_vars /\ Fairness

-----------------------------------------------------------------------------
TypeOK ==
    /\ pc \in [Processes -> {"down", "waiting", "working", "stopping", "closed"}]
    /\ hold \in [Processes -> {"none", "checking", "retaking", "returned"}]
    /\ conn \in [Processes -> {"nil", "open", "broken"}]
    /\ holder \in {NoSession} \cup (Processes \X {"live", "abandoned"})
    /\ drops \in 0 .. MaxDrops

(* A process works only while it holds the lock or while Hold has not yet  *)
(* found out, or not yet heard, that it lost it; one that was told, or was *)
(* signalled, only finishes what it had begun, and gives the lock up after *)
(* that and not before (run, Hold).                                        *)
UnnoticedLoss(p) == (hold[p] = "checking" /\ conn[p] = "broken") \/ hold[p] = "retaking"
LockOrUnnoticedLoss ==
    \A p \in Processes :
        /\ pc[p] = "working" => Holds(p) \/ UnnoticedLoss(p)
        /\ pc[p] = "stopping" => Holds(p) \/ UnnoticedLoss(p) \/ hold[p] = "returned"

(* An overlap does not last: one of the processes gets the lock back or is *)
(* told that it lost it, and stops (Hold, retake).                         *)
Overlap == \E p, q \in Processes : p # q /\ Active(p) /\ Active(q)
OverlapEnds == Overlap ~> ~Overlap

(* A process that waits for the lock gets in, or another one does, once    *)
(* nobody works: neither a session the server has not yet found dead nor   *)
(* a first refusal keeps it out for ever (AcquireInstanceLock).            *)
Idle == \A p \in Processes : ~Active(p)
NobodyWaitsForTheDead ==
    \A q \in Processes : (pc[q] = "waiting" /\ Idle) ~> (~Idle \/ pc[q] # "waiting")
=============================================================================

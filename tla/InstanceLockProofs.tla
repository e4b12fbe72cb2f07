-------------------------- MODULE InstanceLockProofs --------------------------
(***************************************************************************)
(* Theorems of InstanceLock, for any number of processes and of faults.    *)
(***************************************************************************)
EXTENDS InstanceLock, TLAPS

(***************************************************************************)
(* What the process believes and what the server knows, related: Hold runs *)
(* as long as the process works, it has a connection while it checks and   *)
(* none after it failed, and a connection that was not cut is the one that *)
(* holds the lock.  LockOrUnnoticedLoss alone is not inductive: it does    *)
(* not say that an open connection of a checking Hold still has the lock,  *)
(* nor that Hold returns only in a process that stops.                     *)
(***************************************************************************)
HoldRuns == \A p \in Processes :
    /\ pc[p] \in {"down", "waiting"} => hold[p] = "none"
    /\ pc[p] = "working" => hold[p] \in {"checking", "retaking"}
    /\ pc[p] = "stopping" => hold[p] # "none"
ConnOfHold == \A p \in Processes :
    /\ hold[p] = "checking" => conn[p] # "nil"
    /\ hold[p] \in {"retaking", "returned"} => conn[p] = "nil"
OpenIsLocked == \A p \in Processes :
    /\ hold[p] = "checking" /\ conn[p] = "open" => Holds(p)
    /\ Holds(p) => hold[p] = "checking" /\ conn[p] = "open"

LockInv == TypeOK /\ HoldRuns /\ ConnOfHold /\ OpenIsLocked

\* Sessions of different processes differ, and none of them is NoSession.
LEMMA SessionsDiffer ==
  ASSUME NEW p \in Processes
  PROVE  /\ Session(p) # NoSession /\ Abandoned(p) # NoSession
         /\ Session(p) \in Processes \X {"live", "abandoned"}
         /\ Abandoned(p) \in Processes \X {"live", "abandoned"}
         /\ \A q \in Processes : /\ Session(p) = Session(q) => p = q
                                 /\ Session(p) # Abandoned(q)
  BY NoSessionIsNone DEF Session, Abandoned

\* What a session's end does to the lock: it can only take it from p.
LEMMA EndOfSession ==
  ASSUME NEW p \in Processes, SessionEnds(p) \/ SessionClosed(p)
  PROVE  /\ holder' # Session(p)
         /\ \A q \in Processes : q # p => (holder' = Session(q) <=> holder = Session(q))
         /\ holder' \in {holder, NoSession} \cup (Processes \X {"live", "abandoned"})
  BY SessionsDiffer DEF SessionEnds, SessionClosed, Holds

\* Initially nobody works and nobody holds the lock.
LEMMA LockInit == Init => LockInv
  BY DropsAreCounted, SessionsDiffer
  DEF Init, LockInv, TypeOK, HoldRuns, ConnOfHold, OpenIsLocked, Holds

\* Every step keeps the types.
LEMMA TypeStep == TypeOK /\ [Next]_vars => TypeOK'
<1> SUFFICES ASSUME TypeOK, [Next]_vars PROVE TypeOK'
  OBVIOUS
<1> USE DropsAreCounted DEF TypeOK
<1>1. CASE UNCHANGED vars
  BY <1>1 DEF vars
<1>2. ASSUME NEW p \in Processes, Boot(p) PROVE TypeOK'
  BY <1>2 DEF Boot
<1>3. ASSUME NEW p \in Processes, Acquire(p) PROVE TypeOK'
  BY <1>3, SessionsDiffer DEF Acquire
<1>4. ASSUME NEW p \in Processes, WaitForHolder(p) PROVE TypeOK'
  BY <1>4 DEF WaitForHolder
<1>5. ASSUME NEW p \in Processes, GiveUpWaiting(p) PROVE TypeOK'
  BY <1>5 DEF GiveUpWaiting
<1>6. ASSUME NEW p \in Processes, CheckFails(p) PROVE TypeOK'
  BY <1>6 DEF CheckFails
<1>7. ASSUME NEW p \in Processes, CheckTimesOut(p) PROVE TypeOK'
  BY <1>7, EndOfSession DEF CheckTimesOut
<1>8. ASSUME NEW p \in Processes, TakeBack(p) PROVE TypeOK'
  BY <1>8, SessionsDiffer DEF TakeBack
<1>9. ASSUME NEW p \in Processes, LockLost(p) PROVE TypeOK'
  BY <1>9 DEF LockLost
<1>10. ASSUME NEW p \in Processes, Stop(p) PROVE TypeOK'
  BY <1>10 DEF Stop
<1>11. ASSUME NEW p \in Processes, LoopsFinish(p) PROVE TypeOK'
  BY <1>11 DEF LoopsFinish
<1>12. ASSUME NEW p \in Processes, Release(p) PROVE TypeOK'
  BY <1>12, EndOfSession DEF Release
<1>13. ASSUME NEW p \in Processes, SessionBreaks(p) PROVE TypeOK'
  BY <1>13, EndOfSession DEF SessionBreaks
<1>14. ASSUME NEW p \in Processes, SessionReaped(p) PROVE TypeOK'
  BY <1>14 DEF SessionReaped
<1>15. ASSUME NEW p \in Processes, Crash(p) PROVE TypeOK'
  BY <1>15, EndOfSession DEF Crash
<1>16. QED
  BY <1>1, <1>2, <1>3, <1>4, <1>5, <1>6, <1>7, <1>8, <1>9, <1>10, <1>11, <1>12,
     <1>13, <1>14, <1>15 DEF Next

\* Every step keeps the relation of belief and server.
LEMMA LockStep == LockInv /\ [Next]_vars => LockInv'
<1> SUFFICES ASSUME LockInv, [Next]_vars PROVE LockInv'
  OBVIOUS
<1>0. TypeOK'
  BY TypeStep DEF LockInv
<1> DEFINE Rest == HoldRuns /\ ConnOfHold /\ OpenIsLocked
<1> USE <1>0 DEF LockInv, TypeOK, HoldRuns, ConnOfHold, OpenIsLocked, Holds
<1>1. CASE UNCHANGED vars
  BY <1>1 DEF vars
<1>2. ASSUME NEW p \in Processes, Boot(p) PROVE Rest'
  BY <1>2 DEF Boot
<1>3. ASSUME NEW p \in Processes, Acquire(p) PROVE Rest'
  BY <1>3, SessionsDiffer DEF Acquire
<1>4. ASSUME NEW p \in Processes, WaitForHolder(p) PROVE Rest'
  BY <1>4 DEF WaitForHolder
<1>5. ASSUME NEW p \in Processes, GiveUpWaiting(p) PROVE Rest'
  BY <1>5 DEF GiveUpWaiting
<1>6. ASSUME NEW p \in Processes, CheckFails(p) PROVE Rest'
  BY <1>6 DEF CheckFails
<1>7. ASSUME NEW p \in Processes, CheckTimesOut(p) PROVE Rest'
  BY <1>7, EndOfSession DEF CheckTimesOut
<1>8. ASSUME NEW p \in Processes, TakeBack(p) PROVE Rest'
  BY <1>8, SessionsDiffer DEF TakeBack
<1>9. ASSUME NEW p \in Processes, LockLost(p) PROVE Rest'
  BY <1>9 DEF LockLost
<1>10. ASSUME NEW p \in Processes, Stop(p) PROVE Rest'
  BY <1>10 DEF Stop
<1>11. ASSUME NEW p \in Processes, LoopsFinish(p) PROVE Rest'
  BY <1>11 DEF LoopsFinish
<1>12. ASSUME NEW p \in Processes, Release(p) PROVE Rest'
  BY <1>12, EndOfSession DEF Release
<1>13. ASSUME NEW p \in Processes, SessionBreaks(p) PROVE Rest'
  BY <1>13, EndOfSession DEF SessionBreaks
<1>14. ASSUME NEW p \in Processes, SessionReaped(p) PROVE Rest'
  BY <1>14, SessionsDiffer DEF SessionReaped
<1>15. ASSUME NEW p \in Processes, Crash(p) PROVE Rest'
  BY <1>15, EndOfSession DEF Crash
<1>16. QED
  BY <1>0, <1>1, <1>2, <1>3, <1>4, <1>5, <1>6, <1>7, <1>8, <1>9, <1>10, <1>11, <1>12,
     <1>13, <1>14, <1>15 DEF Next

\* The invariant in every state.
LEMMA LockInvariant == Spec => []LockInv
<1>1. Init => LockInv
  BY LockInit
<1>2. LockInv /\ [Next]_vars => LockInv'
  BY LockStep
<1>3. QED
  BY <1>1, <1>2, PTL DEF Spec

\* The states of the processes, of Hold, of the connections and of the lock.
THEOREM InstanceLockTypes == Spec => []TypeOK
<1>1. LockInv => TypeOK
  BY DEF LockInv
<1>2. QED
  BY <1>1, LockInvariant, PTL

(***************************************************************************)
(* However many processes start and however sessions break, a process that *)
(* works without the lock is one whose Hold has not found out yet.         *)
(***************************************************************************)
THEOREM WorksWithTheLock == Spec => []LockOrUnnoticedLoss
<1>1. LockInv => LockOrUnnoticedLoss
  <2> SUFFICES ASSUME LockInv, NEW p \in Processes
               PROVE /\ pc[p] = "working" => Holds(p) \/ UnnoticedLoss(p)
                     /\ pc[p] = "stopping" => Holds(p) \/ UnnoticedLoss(p) \/ hold[p] = "returned"
    BY DEF LockOrUnnoticedLoss
  <2>1. hold[p] = "checking" => Holds(p) \/ UnnoticedLoss(p)
    BY DEF LockInv, TypeOK, ConnOfHold, OpenIsLocked, UnnoticedLoss
  <2>2. hold[p] = "retaking" => UnnoticedLoss(p)
    BY DEF UnnoticedLoss
  <2>3. QED
    BY <2>1, <2>2 DEF LockInv, TypeOK, HoldRuns
<1>2. QED
  BY <1>1, LockInvariant, PTL
===============================================================================

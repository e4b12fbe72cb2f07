----------------------------- MODULE OutboxProofs -----------------------------
(***************************************************************************)
(* Theorems of Outbox, for any number of workers, messages and chunks, any *)
(* budget and any bound on the faults.                                     *)
(***************************************************************************)
EXTENDS Outbox, FiniteSetTheorems, TLAPS

Before(q, r) == q[1] = r[1] /\ q[2] < r[2]

\* The row was delivered, or parked at least once.
Done(q) == q \in delivered \/ q \in everFailed

\* A worker between two ProcessOne has no job; the attempts of a row stay
\* below the budget while it waits, and a leaseholder knows their number.
JobsAreRows == \A w \in Workers : stage[w] # "idle" => job[w] \in Rows
BudgetLeft == \A r \in Rows :
    status[r] \in {"absent", "pending", "processing"} => attempts[r] < maxDeliveryAttempts
TriesAreAttempts == \A w \in Workers :
    stage[w] # "idle" /\ HoldsLease(w) => tries[w] = attempts[job[w]]

\* What an outcome in hand, or on record, stands for.
OutcomesAreReal ==
    /\ \A w \in Workers : stage[w] = "accepted" => job[w] \in delivered
    /\ \A r \in Rows : status[r] = "sent" => r \in delivered
    /\ \A r \in Rows \ MediaRows : status[r] = "failed" => r \in everFailed

\* A text row precedes the later rows of its alert into the table, and a
\* worker that has one of those in hand got past it.
TextFirst == \A q, r \in Rows :
    Before(q, r) /\ q \notin MediaRows /\ status[r] # "absent" /\ status[q] = "absent" => Done(q)
ClaimedInOrder == \A q \in Rows, w \in Workers :
    stage[w] # "idle" /\ Before(q, job[w]) /\ q \notin MediaRows => Done(q)

\* The workers whose next call to Telegram may be the first to deliver.
Starting(r) == {w \in Workers : stage[w] \in {"sending", "fallback"} /\ job[w] = r}

\* A delivery that nothing has paid for: the row is through with or erased, or
\* the current lease is running and its worker's first delivery is free.
Leased(r) == \E w \in Workers :
    /\ job[w] = r /\ status[r] = "processing" /\ token[r] = w /\ locked[r]
    /\ stage[w] \in {"sending", "rest", "fallback", "accepted"}
Through(r) == \/ LedgerOf(r) \in {"settled", "gone"}
              \/ status[r] = "absent" /\ r[1] \in erased
Free(r) == IF Leased(r) \/ Through(r) THEN 1 ELSE 0
Balance == \A r \in Rows :
    begun[r] + Cardinality(Starting(r)) <= faults[r] + requeued[r[1]] + Free(r)

-------------------------------------------------------------------------------
(* Types *)

TypeInv == TypeOK /\ JobsAreRows /\ BudgetLeft /\ TriesAreAttempts

\* What the constants give the prover.
LEMMA Constants ==
  /\ maxDeliveryAttempts \in Nat /\ 0 < maxDeliveryAttempts /\ MaxFaults \in Nat
  /\ IsFiniteSet(Workers) /\ NoOne \notin Workers
  BY OutboxAssumption

\* A row belongs to a message, and each message may have rows.
LEMMA RowsOfMessages ==
  /\ \A r \in Rows : r[1] \in Messages
  /\ \A m \in Messages : \E r \in Rows : r[1] = m
<1>1. \A m \in Messages : <<m, 0>> \in Rows /\ <<m, 0>>[1] = m
  BY OutboxAssumption DEF Rows
<1>2. QED
  BY <1>1 DEF Rows

\* The bound on faults and requeues holds after one more of them.
LEMMA FaultBounded ==
  ASSUME TypeOK, NEW r \in Rows, Fault(r)
  PROVE  faults' \in [Rows -> 0..MaxFaults]
<1>1. faults[r] \in Nat /\ requeued[r[1]] \in Nat /\ faults[r] + requeued[r[1]] < MaxFaults
  BY RowsOfMessages DEF TypeOK, Fault, Spare
<1>2. faults[r] + 1 \in 0..MaxFaults
  BY <1>1, Constants
<1>3. QED
  BY <1>2 DEF TypeOK, Fault

\* The same for an alert that is queued again.
LEMMA RequeueBounded ==
  ASSUME TypeOK, NEW m \in Messages, Requeue(m)
  PROVE  erased' \subseteq Messages /\ requeued' \in [Messages -> 0..MaxFaults]
<1>1. PICK r \in Rows : r[1] = m
  BY RowsOfMessages
<1>2. faults[r] \in Nat /\ requeued[m] \in Nat /\ requeued[m] <= MaxFaults
  BY Constants DEF TypeOK
<1>3. m \in erased => faults[r] + requeued[m] < MaxFaults
  BY <1>1 DEF Requeue, Spare
<1>4. m \in erased => requeued[m] + 1 \in 0..MaxFaults
  BY <1>2, <1>3, Constants
<1>5. QED
  BY <1>4 DEF TypeOK, Requeue

\* Nothing is written and nobody works.
LEMMA TypeInit == Init => TypeInv
  BY OutboxAssumption, Constants
  DEF Init, TypeInv, TypeOK, JobsAreRows, BudgetLeft, TriesAreAttempts, Statuses, Stages

\* Every step keeps the types and the count of attempts.
LEMMA TypeStep == TypeInv /\ [Next]_vars => TypeInv'
<1> SUFFICES ASSUME TypeInv, [Next]_vars PROVE TypeInv'
  OBVIOUS
<1> USE Constants DEF TypeInv, TypeOK, JobsAreRows, BudgetLeft, TriesAreAttempts, HoldsLease,
                      Statuses, Stages
<1>1. CASE UNCHANGED vars
  BY <1>1 DEF vars, rowVars, jobVars, histVars, erasureVars
<1>2. ASSUME NEW v \in Workers, NEW m \in Messages, MarkDeleted(v, m) PROVE TypeInv'
  BY <1>2, RequeueBounded DEF MarkDeleted, rowVars, jobVars, histVars, erasureVars
<1>3. ASSUME NEW m \in Messages, Expire(m) PROVE TypeInv'
  BY <1>3 DEF Expire, rowVars, jobVars, histVars, erasureVars
<1>4. ASSUME NEW w \in Workers, NEW r \in Rows, Claim(w, r) PROVE TypeInv'
  BY <1>4 DEF Claim, Claimable, ClaimedAttempts, rowVars, jobVars, histVars, erasureVars
<1>5. ASSUME NEW w \in Workers, BatchAccepted(w) PROVE TypeInv'
  BY <1>5 DEF BatchAccepted, Goes, rowVars, jobVars, histVars, erasureVars
<1>6. ASSUME NEW w \in Workers, Accept(w) PROVE TypeInv'
  BY <1>6 DEF Accept, Received, Goes, rowVars, jobVars, histVars, erasureVars
<1>7. ASSUME NEW w \in Workers, AcceptLost(w) PROVE TypeInv'
  <2>1. job[w] \in Rows
    BY <1>7 DEF AcceptLost, Received
  <2>2. faults' \in [Rows -> 0..MaxFaults]
    BY <1>7, <2>1, FaultBounded DEF AcceptLost
  <2>3. TypeOK'
    <3>1. begun' \in [Rows -> Nat] /\ delivered' \subseteq Rows
      BY <1>7, <2>1 DEF AcceptLost, Received
    <3>2. stage' \in [Workers -> Stages]
      BY <1>7 DEF AcceptLost, Goes
    <3>3. QED
      BY <1>7, <2>2, <3>1, <3>2 DEF AcceptLost, rowVars, erasureVars
  <2>4. JobsAreRows' /\ BudgetLeft' /\ TriesAreAttempts'
    BY <1>7, <2>1 DEF AcceptLost, Received, Goes, rowVars, jobVars, histVars, erasureVars
  <2>5. QED
    BY <2>3, <2>4
<1>8. ASSUME NEW w \in Workers, MediaHopeless(w) PROVE TypeInv'
  BY <1>8 DEF MediaHopeless, Goes, rowVars, jobVars, histVars, erasureVars
<1>9. ASSUME NEW w \in Workers, SendFails(w) PROVE TypeInv'
  BY <1>9 DEF SendFails, Goes, rowVars, jobVars, histVars, erasureVars
<1>10. ASSUME NEW w \in Workers, AlbumBreaks(w) PROVE TypeInv'
  <2>1. job[w] \in Rows
    BY <1>10 DEF AlbumBreaks
  <2>2. faults' \in [Rows -> 0..MaxFaults]
    BY <1>10, <2>1, FaultBounded DEF AlbumBreaks
  <2>3. QED
    BY <1>10, <2>1, <2>2 DEF AlbumBreaks, Goes, rowVars, jobVars, histVars, erasureVars
<1>11. ASSUME NEW w \in Workers, Refuse(w) PROVE TypeInv'
  BY <1>11 DEF Refuse, Goes, rowVars, jobVars, histVars, erasureVars
<1>12. ASSUME NEW w \in Workers, MarkSent(w) PROVE TypeInv'
  BY <1>12 DEF MarkSent, Settle, Leave, HoldsLease, rowVars, jobVars, histVars, erasureVars
<1>13. ASSUME NEW w \in Workers, MarkFailed(w) PROVE TypeInv'
  BY <1>13 DEF MarkFailed, Settle, Leave, HoldsLease, rowVars, jobVars, histVars, erasureVars
<1>14. ASSUME NEW w \in Workers, MarkRetry(w) PROVE TypeInv'
  BY <1>14 DEF MarkRetry, Settle, Leave, HoldsLease, rowVars, jobVars, histVars, erasureVars
<1>15. ASSUME NEW w \in Workers, LeaseLost(w) PROVE TypeInv'
  BY <1>15 DEF LeaseLost, Leave, rowVars, jobVars, histVars, erasureVars
<1>16. ASSUME NEW w \in Workers, Interrupt(w) PROVE TypeInv'
  <2>1. job[w] \in Rows
    BY <1>16 DEF Interrupt
  <2>2. faults' \in [Rows -> 0..MaxFaults]
    BY <1>16, <2>1, FaultBounded DEF Interrupt
  <2>3. QED
    BY <1>16, <2>1, <2>2 DEF Interrupt, Leave, rowVars, jobVars, histVars, erasureVars
<1>17. ASSUME NEW w \in Workers, DeleteAlerts(w) PROVE TypeInv'
  BY <1>17, RowsOfMessages DEF DeleteAlerts, Delete, rowVars, jobVars, histVars, erasureVars
<1>18. ASSUME NEW r \in Rows, LeaseExpires(r) PROVE TypeInv'
  <2>1. faults' \in [Rows -> 0..MaxFaults]
    BY <1>18, FaultBounded DEF LeaseExpires
  <2>2. QED
    BY <1>18, <2>1 DEF LeaseExpires, rowVars, jobVars, histVars, erasureVars
<1>19. CASE PurgeExpired
  BY <1>19 DEF PurgeExpired, Delete, Purgeable, rowVars, jobVars, histVars, erasureVars
<1>20. ASSUME NEW w \in Workers, StopErasing(w) PROVE TypeInv'
  BY <1>20 DEF StopErasing, rowVars, jobVars, histVars, erasureVars
<1>21. ASSUME NEW w \in Workers, DeleteMessages(w) PROVE TypeInv'
  BY <1>21 DEF DeleteMessages, rowVars, jobVars, histVars, erasureVars
<1>22. QED
  BY <1>1, <1>2, <1>3, <1>4, <1>5, <1>6, <1>7, <1>8, <1>9, <1>10,
     <1>11, <1>12, <1>13, <1>14, <1>15, <1>16, <1>17, <1>18, <1>19, <1>20, <1>21
  DEF Next, Deliver, Mark, Erase

\* The types and counts hold in every state.
LEMMA TypeInvariant == Spec => []TypeInv
<1>1. QED
  BY TypeInit, TypeStep, PTL DEF Spec

\* Every variable keeps its type, and the attempts of a row stay within the
\* budget, for any number of workers, rows, attempts and faults (Repository.Claim,
\* MarkRetry, MarkFailed).
THEOREM OutboxTypes == Spec => []TypeOK
<1>1. TypeInv => TypeOK
  BY DEF TypeInv
<1>2. QED
  BY <1>1, TypeInvariant, PTL

-------------------------------------------------------------------------------
(* What is recorded happened *)

\* Nothing is recorded yet.
LEMMA OutcomesInit == Init => OutcomesAreReal
  BY DEF Init, OutcomesAreReal

\* An outcome is recorded from what its worker saw, whoever has the row by then.
LEMMA OutcomesStep == TypeInv /\ OutcomesAreReal /\ [Next]_vars => OutcomesAreReal'
<1> SUFFICES ASSUME TypeInv, OutcomesAreReal, [Next]_vars PROVE OutcomesAreReal'
  OBVIOUS
<1> USE DEF TypeInv, TypeOK, JobsAreRows, OutcomesAreReal
<1>1. CASE UNCHANGED vars
  BY <1>1 DEF vars, rowVars, jobVars, histVars, erasureVars
<1>2. ASSUME NEW v \in Workers, NEW m \in Messages, MarkDeleted(v, m) PROVE OutcomesAreReal'
  BY <1>2 DEF MarkDeleted, Requeue, rowVars, jobVars, histVars, erasureVars
<1>3. ASSUME NEW m \in Messages, Expire(m) PROVE OutcomesAreReal'
  BY <1>3 DEF Expire, rowVars, jobVars, histVars, erasureVars
<1>4. ASSUME NEW w \in Workers, NEW r \in Rows, Claim(w, r) PROVE OutcomesAreReal'
  BY <1>4 DEF Claim, Claimable, ClaimedAttempts, rowVars, jobVars, histVars, erasureVars
<1>5. ASSUME NEW w \in Workers, BatchAccepted(w) PROVE OutcomesAreReal'
  BY <1>5 DEF BatchAccepted, Goes, rowVars, jobVars, histVars, erasureVars
<1>6. ASSUME NEW w \in Workers, Accept(w) PROVE OutcomesAreReal'
  BY <1>6 DEF Accept, Received, Goes, rowVars, jobVars, histVars, erasureVars
<1>7. ASSUME NEW w \in Workers, AcceptLost(w) PROVE OutcomesAreReal'
  BY <1>7 DEF AcceptLost, Received, Fault, Spare, Goes, rowVars, jobVars, histVars, erasureVars
<1>8. ASSUME NEW w \in Workers, MediaHopeless(w) PROVE OutcomesAreReal'
  BY <1>8 DEF MediaHopeless, Goes, rowVars, jobVars, histVars, erasureVars
<1>9. ASSUME NEW w \in Workers, SendFails(w) PROVE OutcomesAreReal'
  BY <1>9 DEF SendFails, Goes, rowVars, jobVars, histVars, erasureVars
<1>10. ASSUME NEW w \in Workers, AlbumBreaks(w) PROVE OutcomesAreReal'
  BY <1>10 DEF AlbumBreaks, Fault, Spare, Goes, rowVars, jobVars, histVars, erasureVars
<1>11. ASSUME NEW w \in Workers, Refuse(w) PROVE OutcomesAreReal'
  BY <1>11 DEF Refuse, Goes, rowVars, jobVars, histVars, erasureVars
<1>12. ASSUME NEW w \in Workers, MarkSent(w) PROVE OutcomesAreReal'
  BY <1>12 DEF MarkSent, Settle, Leave, HoldsLease, rowVars, jobVars, histVars, erasureVars
<1>13. ASSUME NEW w \in Workers, MarkFailed(w) PROVE OutcomesAreReal'
  BY <1>13 DEF MarkFailed, Settle, Leave, HoldsLease, rowVars, jobVars, histVars, erasureVars
<1>14. ASSUME NEW w \in Workers, MarkRetry(w) PROVE OutcomesAreReal'
  BY <1>14 DEF MarkRetry, Settle, Leave, HoldsLease, rowVars, jobVars, histVars, erasureVars
<1>15. ASSUME NEW w \in Workers, LeaseLost(w) PROVE OutcomesAreReal'
  BY <1>15 DEF LeaseLost, Leave, rowVars, jobVars, histVars, erasureVars
<1>16. ASSUME NEW w \in Workers, Interrupt(w) PROVE OutcomesAreReal'
  BY <1>16 DEF Interrupt, Fault, Spare, Leave, rowVars, jobVars, histVars, erasureVars
<1>17. ASSUME NEW w \in Workers, DeleteAlerts(w) PROVE OutcomesAreReal'
  BY <1>17 DEF DeleteAlerts, Delete, rowVars, jobVars, histVars, erasureVars
<1>18. ASSUME NEW r \in Rows, LeaseExpires(r) PROVE OutcomesAreReal'
  BY <1>18 DEF LeaseExpires, Fault, Spare, rowVars, jobVars, histVars, erasureVars
<1>19. CASE PurgeExpired
  BY <1>19 DEF PurgeExpired, Delete, Purgeable, rowVars, jobVars, histVars, erasureVars
<1>20. ASSUME NEW w \in Workers, StopErasing(w) PROVE OutcomesAreReal'
  BY <1>20 DEF StopErasing, rowVars, jobVars, histVars, erasureVars
<1>21. ASSUME NEW w \in Workers, DeleteMessages(w) PROVE OutcomesAreReal'
  BY <1>21 DEF DeleteMessages, rowVars, jobVars, histVars, erasureVars
<1>22. QED
  BY <1>1, <1>2, <1>3, <1>4, <1>5, <1>6, <1>7, <1>8, <1>9, <1>10,
     <1>11, <1>12, <1>13, <1>14, <1>15, <1>16, <1>17, <1>18, <1>19, <1>20, <1>21
  DEF Next, Deliver, Mark, Erase

\* Every record and every outcome in hand is true in every state.
LEMMA OutcomesInvariant == Spec => [](TypeInv /\ OutcomesAreReal)
<1>1. TypeInv /\ OutcomesAreReal /\ [Next]_vars => (TypeInv /\ OutcomesAreReal)'
  BY TypeStep, OutcomesStep
<1>2. QED
  BY <1>1, TypeInit, OutcomesInit, PTL DEF Spec

(***************************************************************************)
(* A row recorded as sent was accepted by Telegram, whatever leases were   *)
(* lost, answers late or budgets spent (Worker.ProcessOne).                *)
(***************************************************************************)
THEOREM OutboxSentWasDelivered == Spec => []SentWasDelivered
<1>1. OutcomesAreReal => SentWasDelivered
  BY DEF OutcomesAreReal, SentWasDelivered
<1>2. QED
  BY <1>1, OutcomesInvariant, PTL

-------------------------------------------------------------------------------
(* The order of an alert *)

OrderInv == TextFirst /\ ClaimedInOrder /\ ChunksInOrder

\* No row exists and none was delivered.
LEMMA OrderInit == Init => OrderInv
  BY DEF Init, OrderInv, TextFirst, ClaimedInOrder, ChunksInOrder

\* What was done stays done.
LEMMA DoneStays ==
  ASSUME TypeInv, [Next]_vars, NEW q, Done(q)
  PROVE  Done(q)'
<1> USE DEF Done
<1>1. CASE UNCHANGED vars
  BY <1>1 DEF vars, rowVars, jobVars, histVars, erasureVars
<1>2. ASSUME NEW v \in Workers, NEW m \in Messages, MarkDeleted(v, m) PROVE Done(q)'
  BY <1>2 DEF MarkDeleted, Requeue, rowVars, jobVars, histVars, erasureVars
<1>3. ASSUME NEW m \in Messages, Expire(m) PROVE Done(q)'
  BY <1>3 DEF Expire, rowVars, jobVars, histVars, erasureVars
<1>4. ASSUME NEW w \in Workers, NEW r \in Rows, Claim(w, r) PROVE Done(q)'
  BY <1>4 DEF Claim, Claimable, ClaimedAttempts, rowVars, jobVars, histVars, erasureVars
<1>5. ASSUME NEW w \in Workers, BatchAccepted(w) PROVE Done(q)'
  BY <1>5 DEF BatchAccepted, Goes, rowVars, jobVars, histVars, erasureVars
<1>6. ASSUME NEW w \in Workers, Accept(w) PROVE Done(q)'
  BY <1>6 DEF Accept, Received, Goes, rowVars, jobVars, histVars, erasureVars
<1>7. ASSUME NEW w \in Workers, AcceptLost(w) PROVE Done(q)'
  BY <1>7 DEF AcceptLost, Received, Fault, Spare, Goes, rowVars, jobVars, histVars, erasureVars
<1>8. ASSUME NEW w \in Workers, MediaHopeless(w) PROVE Done(q)'
  BY <1>8 DEF MediaHopeless, Goes, rowVars, jobVars, histVars, erasureVars
<1>9. ASSUME NEW w \in Workers, SendFails(w) PROVE Done(q)'
  BY <1>9 DEF SendFails, Goes, rowVars, jobVars, histVars, erasureVars
<1>10. ASSUME NEW w \in Workers, AlbumBreaks(w) PROVE Done(q)'
  BY <1>10 DEF AlbumBreaks, Fault, Spare, Goes, rowVars, jobVars, histVars, erasureVars
<1>11. ASSUME NEW w \in Workers, Refuse(w) PROVE Done(q)'
  BY <1>11 DEF Refuse, Goes, rowVars, jobVars, histVars, erasureVars
<1>12. ASSUME NEW w \in Workers, MarkSent(w) PROVE Done(q)'
  BY <1>12 DEF MarkSent, Settle, Leave, HoldsLease, rowVars, jobVars, histVars, erasureVars
<1>13. ASSUME NEW w \in Workers, MarkFailed(w) PROVE Done(q)'
  BY <1>13 DEF MarkFailed, Settle, Leave, HoldsLease, rowVars, jobVars, histVars, erasureVars
<1>14. ASSUME NEW w \in Workers, MarkRetry(w) PROVE Done(q)'
  BY <1>14 DEF MarkRetry, Settle, Leave, HoldsLease, rowVars, jobVars, histVars, erasureVars
<1>15. ASSUME NEW w \in Workers, LeaseLost(w) PROVE Done(q)'
  BY <1>15 DEF LeaseLost, Leave, rowVars, jobVars, histVars, erasureVars
<1>16. ASSUME NEW w \in Workers, Interrupt(w) PROVE Done(q)'
  BY <1>16 DEF Interrupt, Fault, Spare, Leave, rowVars, jobVars, histVars, erasureVars
<1>17. ASSUME NEW w \in Workers, DeleteAlerts(w) PROVE Done(q)'
  BY <1>17 DEF DeleteAlerts, Delete, rowVars, jobVars, histVars, erasureVars
<1>18. ASSUME NEW r \in Rows, LeaseExpires(r) PROVE Done(q)'
  BY <1>18 DEF LeaseExpires, Fault, Spare, rowVars, jobVars, histVars, erasureVars
<1>19. CASE PurgeExpired
  BY <1>19 DEF PurgeExpired, Delete, Purgeable, rowVars, jobVars, histVars, erasureVars
<1>20. ASSUME NEW w \in Workers, StopErasing(w) PROVE Done(q)'
  BY <1>20 DEF StopErasing, rowVars, jobVars, histVars, erasureVars
<1>21. ASSUME NEW w \in Workers, DeleteMessages(w) PROVE Done(q)'
  BY <1>21 DEF DeleteMessages, rowVars, jobVars, histVars, erasureVars
<1>22. QED
  BY <1>1, <1>2, <1>3, <1>4, <1>5, <1>6, <1>7, <1>8, <1>9, <1>10,
     <1>11, <1>12, <1>13, <1>14, <1>15, <1>16, <1>17, <1>18, <1>19, <1>20, <1>21
  DEF Next, Deliver, Mark, Erase

\* Every step keeps the order.
LEMMA OrderStep == TypeInv /\ OutcomesAreReal /\ OrderInv /\ [Next]_vars => OrderInv'
<1> SUFFICES ASSUME TypeInv, OutcomesAreReal, OrderInv, [Next]_vars PROVE OrderInv'
  OBVIOUS
<1>0. \A q \in Rows : Done(q) => Done(q)'
  BY DoneStays
<1> USE <1>0 DEF TypeInv, TypeOK, JobsAreRows, OutcomesAreReal, OrderInv, TextFirst,
                 ClaimedInOrder, ChunksInOrder, Before, Done
<1>1. CASE UNCHANGED vars
  BY <1>1 DEF vars, rowVars, jobVars, histVars, erasureVars
<1>2. ASSUME NEW v \in Workers, NEW m \in Messages, MarkDeleted(v, m) PROVE OrderInv'
  BY <1>2 DEF MarkDeleted, Requeue, rowVars, jobVars, histVars, erasureVars
<1>3. ASSUME NEW m \in Messages, Expire(m) PROVE OrderInv'
  BY <1>3 DEF Expire, rowVars, jobVars, histVars, erasureVars
<1>4. ASSUME NEW w \in Workers, NEW r \in Rows, Claim(w, r) PROVE OrderInv'
  BY <1>4 DEF Claim, Claimable, NoPriorWaiting, histVars
<1>5. ASSUME NEW w \in Workers, BatchAccepted(w) PROVE OrderInv'
  BY <1>5 DEF BatchAccepted, Goes, rowVars, jobVars, histVars, erasureVars
<1>6. ASSUME NEW w \in Workers, Accept(w) PROVE OrderInv'
  BY <1>6 DEF Accept, Received, Goes, rowVars, jobVars, histVars, erasureVars
<1>7. ASSUME NEW w \in Workers, AcceptLost(w) PROVE OrderInv'
  BY <1>7 DEF AcceptLost, Received, Fault, Spare, Goes, rowVars, jobVars, histVars, erasureVars
<1>8. ASSUME NEW w \in Workers, MediaHopeless(w) PROVE OrderInv'
  BY <1>8 DEF MediaHopeless, Goes, rowVars, jobVars, histVars, erasureVars
<1>9. ASSUME NEW w \in Workers, SendFails(w) PROVE OrderInv'
  BY <1>9 DEF SendFails, Goes, rowVars, jobVars, histVars, erasureVars
<1>10. ASSUME NEW w \in Workers, AlbumBreaks(w) PROVE OrderInv'
  BY <1>10 DEF AlbumBreaks, Fault, Spare, Goes, rowVars, jobVars, histVars, erasureVars
<1>11. ASSUME NEW w \in Workers, Refuse(w) PROVE OrderInv'
  BY <1>11 DEF Refuse, Goes, rowVars, jobVars, histVars, erasureVars
<1>12. ASSUME NEW w \in Workers, MarkSent(w) PROVE OrderInv'
  BY <1>12 DEF MarkSent, Settle, Leave, HoldsLease, rowVars, jobVars, histVars, erasureVars
<1>13. ASSUME NEW w \in Workers, MarkFailed(w) PROVE OrderInv'
  BY <1>13 DEF MarkFailed, Settle, Leave, HoldsLease, rowVars, jobVars, histVars, erasureVars
<1>14. ASSUME NEW w \in Workers, MarkRetry(w) PROVE OrderInv'
  BY <1>14 DEF MarkRetry, Settle, Leave, HoldsLease, rowVars, jobVars, histVars, erasureVars
<1>15. ASSUME NEW w \in Workers, LeaseLost(w) PROVE OrderInv'
  BY <1>15 DEF LeaseLost, Leave, rowVars, jobVars, histVars, erasureVars
<1>16. ASSUME NEW w \in Workers, Interrupt(w) PROVE OrderInv'
  BY <1>16 DEF Interrupt, Fault, Spare, Leave, rowVars, jobVars, histVars, erasureVars
<1>17. ASSUME NEW w \in Workers, DeleteAlerts(w) PROVE OrderInv'
  BY <1>17 DEF DeleteAlerts, Delete, rowVars, jobVars, histVars, erasureVars
<1>18. ASSUME NEW r \in Rows, LeaseExpires(r) PROVE OrderInv'
  BY <1>18 DEF LeaseExpires, Fault, Spare, rowVars, jobVars, histVars, erasureVars
<1>19. CASE PurgeExpired
  BY <1>19 DEF PurgeExpired, Delete, Purgeable, rowVars, jobVars, histVars, erasureVars
<1>20. ASSUME NEW w \in Workers, StopErasing(w) PROVE OrderInv'
  BY <1>20 DEF StopErasing, rowVars, jobVars, histVars, erasureVars
<1>21. ASSUME NEW w \in Workers, DeleteMessages(w) PROVE OrderInv'
  BY <1>21 DEF DeleteMessages, rowVars, jobVars, histVars, erasureVars
<1>22. QED
  BY <1>1, <1>2, <1>3, <1>4, <1>5, <1>6, <1>7, <1>8, <1>9, <1>10,
     <1>11, <1>12, <1>13, <1>14, <1>15, <1>16, <1>17, <1>18, <1>19, <1>20, <1>21
  DEF Next, Deliver, Mark, Erase

(***************************************************************************)
(* A chunk of an alert is delivered only when each text chunk before it    *)
(* was delivered or parked at least once (Repository.Claim, MarkDeleted).  *)
(***************************************************************************)
THEOREM OutboxChunksInOrder == Spec => []ChunksInOrder
<1>1. Init => TypeInv /\ OutcomesAreReal /\ OrderInv
  BY TypeInit, OutcomesInit, OrderInit
<1>2. TypeInv /\ OutcomesAreReal /\ OrderInv /\ [Next]_vars
        => (TypeInv /\ OutcomesAreReal /\ OrderInv)'
  BY TypeStep, OutcomesStep, OrderStep
<1>3. OrderInv => ChunksInOrder
  BY DEF OrderInv
<1>4. QED
  BY <1>1, <1>2, <1>3, PTL DEF Spec

-------------------------------------------------------------------------------
(* Duplicates *)

Balanced(r) == begun[r] + Cardinality(Starting(r)) <= faults[r] + requeued[r[1]] + Free(r)

IsStarting(w, r) == IF stage[w] \in {"sending", "fallback"} /\ job[w] = r THEN 1 ELSE 0

\* A step of one worker changes at most its own part of the count.
LEMMA OneWorkerMoves ==
  ASSUME TypeInv, TypeInv', NEW w \in Workers, NEW r \in Rows,
         \A v \in Workers \ {w} : stage'[v] = stage[v] /\ job'[v] = job[v]
  PROVE  Cardinality(Starting(r))' = Cardinality(Starting(r)) - IsStarting(w, r) + IsStarting(w, r)'
<1>1. IsFiniteSet(Starting(r)) /\ IsFiniteSet(Starting(r))'
  BY Constants, FS_Subset DEF Starting
<1>2. Cardinality(Starting(r)) \in Nat
  BY <1>1, FS_CardinalityType
<1>3. CASE w \in Starting(r)'
  <2>1. Starting(r)' = Starting(r) \cup {w}
    BY <1>3 DEF Starting
  <2>2. Cardinality(Starting(r))' = IF w \in Starting(r) THEN Cardinality(Starting(r))
                                                         ELSE Cardinality(Starting(r)) + 1
    BY <1>1, <2>1, FS_AddElement
  <2>3. QED
    BY <1>2, <1>3, <2>2 DEF Starting, IsStarting
<1>4. CASE w \notin Starting(r)'
  <2>1. Starting(r)' = Starting(r) \ {w}
    BY <1>4 DEF Starting
  <2>2. Cardinality(Starting(r))' = IF w \in Starting(r) THEN Cardinality(Starting(r)) - 1
                                                         ELSE Cardinality(Starting(r))
    BY <1>1, <2>1, FS_RemoveElement
  <2>3. QED
    BY <1>2, <1>4, <2>2 DEF Starting, IsStarting
<1>5. QED
  BY <1>3, <1>4

\* Every step keeps the balance of deliveries and faults.
LEMMA BalanceStep == TypeInv /\ Balance /\ [Next]_vars => Balance'
<1> SUFFICES ASSUME TypeInv, Balance, [Next]_vars, NEW r \in Rows PROVE Balanced(r)'
  BY DEF Balance, Balanced
<1>0. /\ TypeInv' /\ Balanced(r) /\ Cardinality(Starting(r)) \in Nat
      /\ r[1] \in Messages /\ requeued[r[1]] \in Nat /\ faults[r] \in Nat /\ begun[r] \in Nat
  <2>1. IsFiniteSet(Starting(r))
    BY Constants, FS_Subset DEF Starting
  <2>2. Cardinality(Starting(r)) \in Nat
    BY <2>1, FS_CardinalityType
  <2>3. TypeInv' /\ Balanced(r)
    BY TypeStep DEF Balance, Balanced
  <2>4. r[1] \in Messages
    BY RowsOfMessages
  <2>5. requeued[r[1]] \in Nat /\ faults[r] \in Nat /\ begun[r] \in Nat
    BY <2>4, Constants DEF TypeInv, TypeOK
  <2>6. QED
    BY <2>2, <2>3, <2>4, <2>5
<1> USE <1>0 DEF TypeInv, TypeOK, JobsAreRows, Balanced, Free, Leased, Through
<1>1. CASE UNCHANGED vars
  <2>1. Starting(r)' = Starting(r) /\ Free(r)' = Free(r)
    BY <1>1 DEF vars, rowVars, jobVars, erasureVars, Starting, LedgerOf
  <2>2. QED
    BY <1>1, <2>1 DEF vars, histVars, erasureVars
<1>2. ASSUME NEW v \in Workers, NEW m \in Messages, MarkDeleted(v, m) PROVE Balanced(r)'
  <2>1. Starting(r)' = Starting(r)
    BY <1>2 DEF MarkDeleted, Requeue, jobVars, Starting
  <2>2. QED
    BY <1>2, <2>1 DEF MarkDeleted, Requeue, rowVars, jobVars, histVars, erasureVars, LedgerOf
<1>3. ASSUME NEW m \in Messages, Expire(m) PROVE Balanced(r)'
  <2>1. Starting(r)' = Starting(r)
    BY <1>3 DEF Expire, jobVars, Starting
  <2>2. QED
    BY <1>3, <2>1 DEF Expire, rowVars, jobVars, histVars, erasureVars, LedgerOf
<1>4. ASSUME NEW w \in Workers, NEW x \in Rows, Claim(w, x) PROVE Balanced(r)'
  <2>1. Cardinality(Starting(r))' = Cardinality(Starting(r)) - IsStarting(w, r) + IsStarting(w, r)'
    BY <1>4, OneWorkerMoves DEF Claim, Claimable, ClaimedAttempts
  <2>2. QED
    BY <1>4, <2>1 DEF Claim, Claimable, ClaimedAttempts, rowVars, jobVars, histVars, erasureVars,
      IsStarting, LedgerOf
<1>5. ASSUME NEW w \in Workers, BatchAccepted(w) PROVE Balanced(r)'
  <2>1. Cardinality(Starting(r))' = Cardinality(Starting(r)) - IsStarting(w, r) + IsStarting(w, r)'
    BY <1>5, OneWorkerMoves DEF BatchAccepted, Goes
  <2>2. QED
    BY <1>5, <2>1 DEF BatchAccepted, Goes, rowVars, jobVars, histVars, erasureVars,
      IsStarting, LedgerOf
<1>6. ASSUME NEW w \in Workers, Accept(w) PROVE Balanced(r)'
  <2>1. Cardinality(Starting(r))' = Cardinality(Starting(r)) - IsStarting(w, r) + IsStarting(w, r)'
    BY <1>6, OneWorkerMoves DEF Accept, Received, Goes
  <2>2. QED
    BY <1>6, <2>1 DEF Accept, Received, Goes, rowVars, jobVars, histVars, erasureVars,
      IsStarting, LedgerOf
<1>7. ASSUME NEW w \in Workers, AcceptLost(w) PROVE Balanced(r)'
  <2>1. Cardinality(Starting(r))' = Cardinality(Starting(r)) - IsStarting(w, r) + IsStarting(w, r)'
    BY <1>7, OneWorkerMoves DEF AcceptLost, Received, Fault, Goes
  <2>2. QED
    BY <1>7, <2>1 DEF AcceptLost, Received, Fault, Goes, rowVars, jobVars, histVars, erasureVars,
      IsStarting, LedgerOf
<1>8. ASSUME NEW w \in Workers, MediaHopeless(w) PROVE Balanced(r)'
  <2>1. Cardinality(Starting(r))' = Cardinality(Starting(r)) - IsStarting(w, r) + IsStarting(w, r)'
    BY <1>8, OneWorkerMoves DEF MediaHopeless, Goes
  <2>2. QED
    BY <1>8, <2>1 DEF MediaHopeless, Goes, rowVars, jobVars, histVars, erasureVars,
      IsStarting, LedgerOf
<1>9. ASSUME NEW w \in Workers, SendFails(w) PROVE Balanced(r)'
  <2>1. Cardinality(Starting(r))' = Cardinality(Starting(r)) - IsStarting(w, r) + IsStarting(w, r)'
    BY <1>9, OneWorkerMoves DEF SendFails, Goes
  <2>2. QED
    BY <1>9, <2>1 DEF SendFails, Goes, rowVars, jobVars, histVars, erasureVars,
      IsStarting, LedgerOf
<1>10. ASSUME NEW w \in Workers, AlbumBreaks(w) PROVE Balanced(r)'
  <2>1. Cardinality(Starting(r))' = Cardinality(Starting(r)) - IsStarting(w, r) + IsStarting(w, r)'
    BY <1>10, OneWorkerMoves DEF AlbumBreaks, Fault, Goes
  <2>2. QED
    BY <1>10, <2>1 DEF AlbumBreaks, Fault, Goes, rowVars, jobVars, histVars, erasureVars,
      IsStarting, LedgerOf
<1>11. ASSUME NEW w \in Workers, Refuse(w) PROVE Balanced(r)'
  <2>1. Cardinality(Starting(r))' = Cardinality(Starting(r)) - IsStarting(w, r) + IsStarting(w, r)'
    BY <1>11, OneWorkerMoves DEF Refuse, Goes
  <2>2. QED
    BY <1>11, <2>1 DEF Refuse, Goes, rowVars, jobVars, histVars, erasureVars,
      IsStarting, LedgerOf
<1>12. ASSUME NEW w \in Workers, MarkSent(w) PROVE Balanced(r)'
  <2>1. Cardinality(Starting(r))' = Cardinality(Starting(r)) - IsStarting(w, r) + IsStarting(w, r)'
    BY <1>12, OneWorkerMoves DEF MarkSent, Settle, Leave, HoldsLease
  <2>2. QED
    BY <1>12, <2>1 DEF MarkSent, Settle, Leave, HoldsLease, rowVars, jobVars, histVars, erasureVars,
      IsStarting, LedgerOf
<1>13. ASSUME NEW w \in Workers, MarkFailed(w) PROVE Balanced(r)'
  <2>1. Cardinality(Starting(r))' = Cardinality(Starting(r)) - IsStarting(w, r) + IsStarting(w, r)'
    BY <1>13, OneWorkerMoves DEF MarkFailed, Settle, Leave, HoldsLease
  <2>2. QED
    BY <1>13, <2>1 DEF MarkFailed, Settle, Leave, HoldsLease, rowVars, jobVars, histVars, erasureVars,
      IsStarting, LedgerOf
<1>14. ASSUME NEW w \in Workers, MarkRetry(w) PROVE Balanced(r)'
  <2>1. Cardinality(Starting(r))' = Cardinality(Starting(r)) - IsStarting(w, r) + IsStarting(w, r)'
    BY <1>14, OneWorkerMoves DEF MarkRetry, Settle, Leave, HoldsLease
  <2>2. QED
    BY <1>14, <2>1 DEF MarkRetry, Settle, Leave, HoldsLease, rowVars, jobVars, histVars, erasureVars,
      IsStarting, LedgerOf
<1>15. ASSUME NEW w \in Workers, LeaseLost(w) PROVE Balanced(r)'
  <2>1. Cardinality(Starting(r))' = Cardinality(Starting(r)) - IsStarting(w, r) + IsStarting(w, r)'
    BY <1>15, OneWorkerMoves DEF LeaseLost, Leave, HoldsLease
  <2>2. QED
    BY <1>15, <2>1 DEF LeaseLost, Leave, HoldsLease, rowVars, jobVars, histVars, erasureVars,
      IsStarting, LedgerOf
<1>16. ASSUME NEW w \in Workers, Interrupt(w) PROVE Balanced(r)'
  <2>1. Cardinality(Starting(r))' = Cardinality(Starting(r)) - IsStarting(w, r) + IsStarting(w, r)'
    BY <1>16, OneWorkerMoves DEF Interrupt, Fault, Leave
  <2>2. QED
    BY <1>16, <2>1 DEF Interrupt, Fault, Leave, rowVars, jobVars, histVars, erasureVars,
      IsStarting, LedgerOf
<1>17. ASSUME NEW w \in Workers, DeleteAlerts(w) PROVE Balanced(r)'
  <2>1. Starting(r)' = Starting(r)
    BY <1>17 DEF DeleteAlerts, Delete, jobVars, Starting
  <2>2. QED
    BY <1>17, <2>1 DEF DeleteAlerts, Delete, rowVars, jobVars, histVars, erasureVars, LedgerOf
<1>18. ASSUME NEW x \in Rows, LeaseExpires(x) PROVE Balanced(r)'
  <2>1. Starting(r)' = Starting(r)
    BY <1>18 DEF LeaseExpires, Fault, jobVars, Starting
  <2>2. QED
    BY <1>18, <2>1 DEF LeaseExpires, Fault, rowVars, jobVars, histVars, erasureVars, LedgerOf
<1>19. CASE PurgeExpired
  <2>1. Starting(r)' = Starting(r)
    BY <1>19 DEF PurgeExpired, Delete, Purgeable, jobVars, Starting
  <2>2. QED
    BY <1>19, <2>1 DEF PurgeExpired, Delete, Purgeable, rowVars, jobVars, histVars, erasureVars, LedgerOf
<1>20. ASSUME NEW w \in Workers, StopErasing(w) PROVE Balanced(r)'
  <2>1. Starting(r)' = Starting(r)
    BY <1>20 DEF StopErasing, jobVars, Starting
  <2>2. QED
    BY <1>20, <2>1 DEF StopErasing, rowVars, jobVars, histVars, LedgerOf
<1>21. ASSUME NEW w \in Workers, DeleteMessages(w) PROVE Balanced(r)'
  <2>1. Starting(r)' = Starting(r)
    BY <1>21 DEF DeleteMessages, jobVars, Starting
  <2>2. QED
    BY <1>21, <2>1 DEF DeleteMessages, rowVars, jobVars, histVars, LedgerOf
<1>22. QED
  BY <1>1, <1>2, <1>3, <1>4, <1>5, <1>6, <1>7, <1>8, <1>9, <1>10,
     <1>11, <1>12, <1>13, <1>14, <1>15, <1>16, <1>17, <1>18, <1>19, <1>20, <1>21
  DEF Next, Deliver, Mark, Erase

\* Nothing was delivered and nobody is about to.
LEMMA BalanceInit == Init => Balance
<1> SUFFICES ASSUME Init, NEW r \in Rows PROVE Balanced(r)
  BY DEF Balance, Balanced
<1>1. Starting(r) = {} /\ begun[r] = 0 /\ faults[r] = 0 /\ requeued[r[1]] = 0
  BY DEF Init, Starting, Rows
<1>2. Cardinality(Starting(r)) = 0
  BY <1>1, FS_EmptySet
<1>3. Free(r) \in {0, 1}
  BY DEF Free
<1>4. QED
  BY <1>1, <1>2, <1>3 DEF Balanced

(***************************************************************************)
(* Telegram accepts a row, or the first files of an album, at most once    *)
(* more often than faults hit the row and its alert was queued again after *)
(* an erasure of the alerts alone, for any number of workers and of either *)
(* (Worker.ProcessOne, Client.SendMediaOnce, MarkDeleted).                 *)
(***************************************************************************)
THEOREM OutboxDuplicatesArePaidFor == Spec => []DuplicatesArePaidFor
<1>1. Init => TypeInv /\ Balance
  BY TypeInit, BalanceInit
<1>2. TypeInv /\ Balance /\ [Next]_vars => (TypeInv /\ Balance)'
  BY TypeStep, BalanceStep
<1>3. TypeInv /\ Balance => DuplicatesArePaidFor
  <2> SUFFICES ASSUME TypeInv, Balance, NEW r \in Rows
               PROVE  begun[r] <= 1 + faults[r] + requeued[r[1]]
    BY DEF DuplicatesArePaidFor
  <2>1. Cardinality(Starting(r)) \in Nat
    BY Constants, FS_Subset, FS_CardinalityType DEF Starting
  <2>2. begun[r] + Cardinality(Starting(r)) <= faults[r] + requeued[r[1]] + Free(r)
    BY DEF Balance
  <2>3. Free(r) \in {0, 1}
    BY DEF Free
  <2>4. begun[r] \in Nat /\ faults[r] \in Nat /\ requeued[r[1]] \in Nat
    BY Constants DEF TypeInv, TypeOK, Rows
  <2>5. QED
    BY <2>1, <2>2, <2>3, <2>4
<1>4. QED
  BY <1>1, <1>2, <1>3, PTL DEF Spec

-------------------------------------------------------------------------------
(* The abstract queue *)

\* A change of every row's place, read as a move of the abstract ledger.
LEMMA LedgerMoves ==
  ASSUME NEW S, NEW to, \A r \in Rows : LedgerOf(r)' = IF r \in S THEN to ELSE LedgerOf(r)
  PROVE  Queue!Move(S, to)
  BY DEF Queue!Move

\* The table is empty and every message may still be deleted.
LEMMA QueueInit == Init => Queue!Init
  BY DEF Init, Queue!Init, LedgerOf, Rows

\* Each step is a step of the queue, or none of its business.
LEMMA QueueStep == TypeInv /\ OutcomesAreReal /\ [Next]_vars => [Queue!Next]_(Queue!vars)
<1> SUFFICES ASSUME TypeInv, OutcomesAreReal, [Next]_vars
             PROVE  Queue!Next \/ UNCHANGED Queue!vars
  OBVIOUS
<1> USE DEF TypeInv, TypeOK, JobsAreRows, OutcomesAreReal
<1>1. CASE UNCHANGED vars
  <2>1. \A r \in Rows : LedgerOf(r)' = LedgerOf(r)
    BY <1>1 DEF vars, rowVars, histVars, LedgerOf
  <2>2. QED
    BY <1>1, <2>1 DEF vars, histVars, Queue!vars
<1>2. ASSUME NEW v \in Workers, NEW m \in Messages, MarkDeleted(v, m) PROVE Queue!Next \/ UNCHANGED Queue!vars
  <2>1. PICK media \in SUBSET MediaRows :
          LET new == {r \in Rows : /\ r[1] = m /\ status[r] = "absent"
                                   /\ r \in MediaRows => r \in media}
          IN  /\ m \in stored /\ m \notin expired
              /\ status' = [r \in Rows |-> IF r \in new THEN "pending" ELSE status[r]]
    BY <1>2 DEF MarkDeleted
  <2> DEFINE new == {r \in Rows : /\ r[1] = m /\ status[r] = "absent"
                                  /\ r \in MediaRows => r \in media}
  <2>2. /\ new \subseteq Rows
        /\ \A r \in Rows : LedgerOf(r)' = IF r \in new THEN "owed" ELSE LedgerOf(r)
        /\ \A r \in new : LedgerOf(r) = "none"
    BY <1>2, <2>1 DEF MarkDeleted, Requeue, LedgerOf
  <2> HIDE DEF new
  <2>3. Queue!Owe(new)
    BY <1>2, <2>2, LedgerMoves DEF MarkDeleted, Requeue, histVars, Queue!Owe, Queue!In
  <2>4. QED
    BY <2>2, <2>3 DEF Queue!Next
<1>3. ASSUME NEW m \in Messages, Expire(m) PROVE Queue!Next \/ UNCHANGED Queue!vars
  <2> DEFINE S == {r \in Rows : r[1] = m /\ LedgerOf(r) = "none"}
  <2>1. /\ S \subseteq Rows
        /\ \A r \in Rows : LedgerOf(r)' = IF r \in S THEN "gone" ELSE LedgerOf(r)
        /\ \A r \in S : LedgerOf(r) \in {"none", "parked", "settled"}
    BY <1>3 DEF Expire, rowVars, histVars, LedgerOf
  <2> HIDE DEF S
  <2>2. Queue!Retire(S)
    BY <1>3, <2>1, LedgerMoves DEF Expire, histVars, Queue!Retire, Queue!In
  <2>3. QED
    BY <2>1, <2>2 DEF Queue!Next
<1>4. ASSUME NEW w \in Workers, NEW x \in Rows, Claim(w, x) PROVE Queue!Next \/ UNCHANGED Queue!vars
  <2>1. CASE status[x] = "failed"
    <3>1. /\ \A r \in Rows : LedgerOf(r)' = IF r \in {x} THEN "owed" ELSE LedgerOf(r)
          /\ LedgerOf(x) = "parked"
      BY <1>4, <2>1 DEF Claim, Claimable, ClaimedAttempts, LedgerOf
    <3>2. Queue!Resume(x)
      BY <1>4, <3>1, LedgerMoves DEF Claim, Claimable, ClaimedAttempts, histVars, Queue!Resume
    <3>3. QED
      BY <3>2 DEF Queue!Next
  <2>2. CASE status[x] # "failed"
    <3>1. \A r \in Rows : LedgerOf(r)' = LedgerOf(r)
      BY <1>4, <2>2 DEF Claim, Claimable, ClaimedAttempts, LedgerOf
    <3>2. QED
      BY <1>4, <3>1 DEF Claim, Claimable, ClaimedAttempts, histVars, Queue!vars
  <2>3. QED
    BY <2>1, <2>2
<1>5. ASSUME NEW w \in Workers, BatchAccepted(w) PROVE Queue!Next \/ UNCHANGED Queue!vars
  <2>1. \A r \in Rows : LedgerOf(r)' = LedgerOf(r)
    BY <1>5 DEF BatchAccepted, Goes, rowVars, histVars, LedgerOf
  <2>2. QED
    BY <1>5, <2>1 DEF BatchAccepted, Goes, histVars, Queue!vars
<1>6. ASSUME NEW w \in Workers, Accept(w) PROVE Queue!Next \/ UNCHANGED Queue!vars
  <2>1. \A r \in Rows : LedgerOf(r)' = LedgerOf(r)
    BY <1>6 DEF Accept, Received, Goes, rowVars, histVars, LedgerOf
  <2>2. Queue!Receive(job[w])
    BY <1>6, <2>1 DEF Accept, Received, Goes, Queue!Receive
  <2>3. QED
    BY <1>6, <2>2 DEF Accept, Received, Queue!Next
<1>7. ASSUME NEW w \in Workers, AcceptLost(w) PROVE Queue!Next \/ UNCHANGED Queue!vars
  <2>1. \A r \in Rows : LedgerOf(r)' = LedgerOf(r)
    BY <1>7 DEF AcceptLost, Received, Fault, Spare, Goes, rowVars, histVars, LedgerOf
  <2>2. Queue!Receive(job[w])
    BY <1>7, <2>1 DEF AcceptLost, Received, Fault, Spare, Goes, Queue!Receive
  <2>3. QED
    BY <1>7, <2>2 DEF AcceptLost, Received, Queue!Next
<1>8. ASSUME NEW w \in Workers, MediaHopeless(w) PROVE Queue!Next \/ UNCHANGED Queue!vars
  <2>1. \A r \in Rows : LedgerOf(r)' = LedgerOf(r)
    BY <1>8 DEF MediaHopeless, Goes, rowVars, histVars, LedgerOf
  <2>2. QED
    BY <1>8, <2>1 DEF MediaHopeless, Goes, histVars, Queue!vars
<1>9. ASSUME NEW w \in Workers, SendFails(w) PROVE Queue!Next \/ UNCHANGED Queue!vars
  <2>1. \A r \in Rows : LedgerOf(r)' = LedgerOf(r)
    BY <1>9 DEF SendFails, Goes, rowVars, histVars, LedgerOf
  <2>2. QED
    BY <1>9, <2>1 DEF SendFails, Goes, histVars, Queue!vars
<1>10. ASSUME NEW w \in Workers, AlbumBreaks(w) PROVE Queue!Next \/ UNCHANGED Queue!vars
  <2>1. \A r \in Rows : LedgerOf(r)' = LedgerOf(r)
    BY <1>10 DEF AlbumBreaks, Fault, Spare, Goes, rowVars, histVars, LedgerOf
  <2>2. QED
    BY <1>10, <2>1 DEF AlbumBreaks, Fault, Spare, Goes, histVars, Queue!vars
<1>11. ASSUME NEW w \in Workers, Refuse(w) PROVE Queue!Next \/ UNCHANGED Queue!vars
  <2>1. \A r \in Rows : LedgerOf(r)' = LedgerOf(r)
    BY <1>11 DEF Refuse, Goes, rowVars, histVars, LedgerOf
  <2>2. QED
    BY <1>11, <2>1 DEF Refuse, Goes, histVars, Queue!vars
<1>12. ASSUME NEW w \in Workers, MarkSent(w) PROVE Queue!Next \/ UNCHANGED Queue!vars
  <2>1. /\ \A r \in Rows : LedgerOf(r)' = IF r \in {job[w]} THEN "settled" ELSE LedgerOf(r)
       /\ LedgerOf(job[w]) = "owed"
    BY <1>12 DEF MarkSent, Settle, Leave, HoldsLease, rowVars, histVars, LedgerOf
  <2>2. Queue!StrikeOff(job[w])
    BY <1>12, <2>1, LedgerMoves DEF MarkSent, Settle, Leave, HoldsLease, rowVars, histVars, Queue!StrikeOff
  <2>3. QED
    BY <1>12, <2>2 DEF MarkSent, Queue!Next
<1>13. ASSUME NEW w \in Workers, MarkFailed(w) PROVE Queue!Next \/ UNCHANGED Queue!vars
  <2>1. /\ \A r \in Rows : LedgerOf(r)' = IF r \in {job[w]} THEN "parked" ELSE LedgerOf(r)
       /\ LedgerOf(job[w]) = "owed"
    BY <1>13 DEF MarkFailed, Settle, Leave, HoldsLease, rowVars, histVars, LedgerOf
  <2>2. Queue!Park(job[w])
    BY <1>13, <2>1, LedgerMoves DEF MarkFailed, Settle, Leave, HoldsLease, rowVars, histVars, Queue!Park
  <2>3. QED
    BY <1>13, <2>2 DEF MarkFailed, Queue!Next
<1>14. ASSUME NEW w \in Workers, MarkRetry(w) PROVE Queue!Next \/ UNCHANGED Queue!vars
  <2>1. \A r \in Rows : LedgerOf(r)' = LedgerOf(r)
    BY <1>14 DEF MarkRetry, Settle, Leave, HoldsLease, rowVars, histVars, LedgerOf
  <2>2. QED
    BY <1>14, <2>1 DEF MarkRetry, Settle, Leave, HoldsLease, histVars, Queue!vars
<1>15. ASSUME NEW w \in Workers, LeaseLost(w) PROVE Queue!Next \/ UNCHANGED Queue!vars
  <2>1. \A r \in Rows : LedgerOf(r)' = LedgerOf(r)
    BY <1>15 DEF LeaseLost, Leave, HoldsLease, rowVars, histVars, LedgerOf
  <2>2. QED
    BY <1>15, <2>1 DEF LeaseLost, Leave, HoldsLease, histVars, Queue!vars
<1>16. ASSUME NEW w \in Workers, Interrupt(w) PROVE Queue!Next \/ UNCHANGED Queue!vars
  <2>1. \A r \in Rows : LedgerOf(r)' = LedgerOf(r)
    BY <1>16 DEF Interrupt, Fault, Spare, Leave, rowVars, histVars, LedgerOf
  <2>2. QED
    BY <1>16, <2>1 DEF Interrupt, Fault, Spare, Leave, histVars, Queue!vars
<1>17. ASSUME NEW w \in Workers, DeleteAlerts(w) PROVE Queue!Next \/ UNCHANGED Queue!vars
  <2> DEFINE S == {r \in Rows : r[1] \notin stored \ expired}
  <2>1. /\ S \subseteq Rows
        /\ \A r \in Rows : LedgerOf(r)' = IF LedgerOf(r) \notin {"owed", "parked", "settled"}
                                          THEN LedgerOf(r)
                                          ELSE IF r \in S THEN "gone" ELSE "none"
    BY <1>17 DEF DeleteAlerts, Delete, rowVars, LedgerOf, Statuses
  <2> HIDE DEF S
  <2>2. Queue!Erase(S)
    BY <1>17, <2>1 DEF DeleteAlerts, histVars, Queue!Erase
  <2>3. QED
    BY <2>1, <2>2 DEF Queue!Next
<1>18. ASSUME NEW x \in Rows, LeaseExpires(x) PROVE Queue!Next \/ UNCHANGED Queue!vars
  <2>1. \A r \in Rows : LedgerOf(r)' = LedgerOf(r)
    BY <1>18 DEF LeaseExpires, Fault, Spare, rowVars, histVars, LedgerOf
  <2>2. QED
    BY <1>18, <2>1 DEF LeaseExpires, Fault, Spare, histVars, Queue!vars
<1>19. CASE PurgeExpired
  <2> DEFINE S == {r \in Rows : Purgeable(r)}
  <2>1. /\ S \subseteq Rows
        /\ \A r \in Rows : LedgerOf(r)' = IF r \in S THEN "gone" ELSE LedgerOf(r)
        /\ \A r \in S : LedgerOf(r) \in {"none", "parked", "settled"}
    BY <1>19 DEF PurgeExpired, Delete, Purgeable, rowVars, histVars, LedgerOf
  <2> HIDE DEF S
  <2>2. Queue!Retire(S)
    BY <1>19, <2>1, LedgerMoves DEF PurgeExpired, Delete, Purgeable, histVars, Queue!Retire, Queue!In
  <2>3. QED
    BY <2>1, <2>2 DEF Queue!Next
<1>20. ASSUME NEW w \in Workers, StopErasing(w) PROVE Queue!Next \/ UNCHANGED Queue!vars
  <2>1. \A r \in Rows : LedgerOf(r)' = LedgerOf(r)
    BY <1>20 DEF StopErasing, rowVars, LedgerOf
  <2>2. QED
    BY <1>20, <2>1 DEF StopErasing, histVars, Queue!vars
<1>21. ASSUME NEW w \in Workers, DeleteMessages(w) PROVE Queue!Next \/ UNCHANGED Queue!vars
  <2> DEFINE S == {r \in Rows : LedgerOf(r) = "none"}
  <2>1. /\ S \subseteq Rows
        /\ \A r \in Rows : LedgerOf(r)' = IF r \in S THEN "gone" ELSE LedgerOf(r)
        /\ \A r \in S : LedgerOf(r) \in {"none", "parked", "settled"}
    BY <1>21 DEF DeleteMessages, rowVars, LedgerOf
  <2> HIDE DEF S
  <2>2. Queue!Retire(S)
    BY <1>21, <2>1, LedgerMoves DEF DeleteMessages, histVars, Queue!Retire, Queue!In
  <2>3. QED
    BY <2>1, <2>2 DEF Queue!Next
<1>22. QED
  BY <1>1, <1>2, <1>3, <1>4, <1>5, <1>6, <1>7, <1>8, <1>9, <1>10,
     <1>11, <1>12, <1>13, <1>14, <1>15, <1>16, <1>17, <1>18, <1>19, <1>20, <1>21
  DEF Next, Deliver, Mark, Erase

(***************************************************************************)
(* The outbox implements AlertQueue, for any number of workers, messages   *)
(* and chunks: nothing owed is dropped, nothing gone comes back, only what *)
(* Telegram has is struck off, and what was erased is owed again only      *)
(* while its message is stored (Repository.Claim, the Mark statements,     *)
(* PurgeExpired, the two DeleteTenant, MarkDeleted).                       *)
(***************************************************************************)
THEOREM OutboxImplementsAlertQueue == Spec => ImplementsAlertQueue
<1>1. Init => Queue!Init
  BY QueueInit
<1>2. TypeInv /\ OutcomesAreReal /\ [Next]_vars => [Queue!Next]_(Queue!vars)
  BY QueueStep
<1>3. QED
  BY <1>1, <1>2, OutcomesInvariant, PTL DEF Spec, ImplementsAlertQueue, Queue!Spec
===============================================================================

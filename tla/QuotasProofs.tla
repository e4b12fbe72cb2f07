----------------------------- MODULE QuotasProofs -----------------------------
(***************************************************************************)
(* Theorems of Quotas: its types, that no drop is silent, and how far a    *)
(* table gets past its limit, for any number of goroutines and any limits. *)
(***************************************************************************)
EXTENDS Quotas, FiniteSetTheorems, TLAPS

\* What is assumed of the constants, the checks of Validate spelled out.
LEMMA ValidConstants ==
  /\ {"messages", "media_bytes"} \subseteq Quotas
  /\ Limit \in [Quotas -> Nat \ {0}]
  /\ CapturesPerMinute \in Nat \ {0}
  /\ WarnPercent \in 1..99
  /\ MaxOpen \in Nat
  BY QuotasAssumption DEF Validate

\* The quotient and the remainder of the division by one hundred.
LEMMA Hundreds ==
  ASSUME NEW n \in Nat
  PROVE  /\ n \div 100 \in Nat /\ n % 100 \in Nat
         /\ n = 100 * (n \div 100) + (n % 100)
  OBVIOUS

\* A percentage of at most one hundred, rounded down, is no more than the whole.
LEMMA ShareIsLess ==
  ASSUME NEW n \in Nat, NEW p \in 1..99
  PROVE  n * p <= n * 100 /\ (n * p) \div 100 <= n /\ (n * p) \div 100 \in Nat
<1>1. n * p \in Nat /\ n * p <= n * 100
  OBVIOUS
<1>2. QED
  BY <1>1

\* The alert comes no later than the limit, whatever the rounding.
LEMMA ThresholdWithinLimit ==
  ASSUME NEW limit \in Nat
  PROVE  warnThreshold(limit) \in Nat /\ warnThreshold(limit) <= limit
<1> DEFINE q == limit \div 100
           r == limit % 100
<1>1. q \in Nat /\ r \in Nat /\ limit = 100 * q + r
  BY Hundreds
<1>2. q * WarnPercent <= q * 100
  BY <1>1, ShareIsLess, ValidConstants
<1>3. (r * WarnPercent) \div 100 <= r /\ (r * WarnPercent) \div 100 \in Nat
  BY <1>1, ShareIsLess, ValidConstants
<1>4. q * WarnPercent \in Nat
  BY <1>1, ValidConstants
<1>5. warnThreshold(limit) = q * WarnPercent + (r * WarnPercent) \div 100
  BY DEF warnThreshold
<1> HIDE DEF q, r
<1>6. QED
  BY <1>1, <1>2, <1>3, <1>4, <1>5

\* The quotas a call may be about.
LEMMA SomeKindIsAQuota == SomeKind \in Quotas
  BY ValidConstants DEF SomeKind

\* An empty ledger is a ledger.
LEMMA ZeroIsUsage == Zero \in [Quotas -> Nat]
  BY DEF Zero

\* A granted admission keeps the types.
LEMMA AllowTypeOK ==
  ASSUME TypeOK, NEW w \in Workers, NEW k \in Quotas, Allow(w, k),
         known' = TRUE, blocked' \subseteq Quotas
  PROVE  TypeOK'
<1> USE ValidConstants DEF TypeOK, Allow, Continue, Goto
<1>1. used' \in [Quotas -> Nat]
  OBVIOUS
<1>2. warned' \subseteq Quotas
  OBVIOUS
<1>3. open' \in 0..MaxOpen
  OBVIOUS
<1>4. pc' \in [Workers -> Labels]
  BY DEF Labels
<1>5. QED
  BY <1>1, <1>2, <1>3, <1>4

\* Every step keeps the types, and the bounds of the window and of `open'.
LEMMA StepTypeOK == TypeOK /\ [Next]_vars => TypeOK'
<1> SUFFICES ASSUME TypeOK, [Next]_vars PROVE TypeOK'
  OBVIOUS
<1> USE ValidConstants, SomeKindIsAQuota, ZeroIsUsage
    DEF TypeOK, Labels, ledgerVars, callVars,
        Goto, Return, Continue, StartResync
<1>1. ASSUME NEW w \in Workers, AdmitCapture(w) PROVE TypeOK'
  BY <1>1 DEF AdmitCapture
<1>2. ASSUME NEW w \in Workers, NeedsSeed(w) PROVE TypeOK'
  BY <1>2 DEF NeedsSeed
<1>3. ASSUME NEW w \in Workers, Admit(w) PROVE TypeOK'
  BY <1>3, AllowTypeOK DEF Admit
<1>4. ASSUME NEW w \in Workers, RefuseMemoised(w) PROVE TypeOK'
  BY <1>4 DEF RefuseMemoised
<1>5. ASSUME NEW w \in Workers, Verify(w) PROVE TypeOK'
  BY <1>5 DEF Verify
<1>6. ASSUME NEW w \in Workers, AdmitVerified(w) PROVE TypeOK'
  BY <1>6, AllowTypeOK DEF AdmitVerified
<1>7. ASSUME NEW w \in Workers, RefuseVerified(w) PROVE TypeOK'
  BY <1>7 DEF RefuseVerified
<1>8. ASSUME NEW w \in Workers, Count(w) PROVE TypeOK'
  BY <1>8 DEF Count, UsageSource
<1>9. ASSUME NEW w \in Workers, CountFails(w) PROVE TypeOK'
  BY <1>9 DEF CountFails
<1>10. ASSUME NEW w \in Workers, Apply(w) PROVE TypeOK'
  <2>1. read[w] \in [Quotas -> Nat]
    OBVIOUS
  <2>2. StillBlocked(read[w]) \subseteq Quotas /\ StillWarned(read[w]) \subseteq Quotas
    BY DEF StillBlocked, StillWarned
  <2>3. pc' \in [Workers -> Labels] /\ read' \in [Workers -> [Quotas -> Nat]]
    BY <1>10 DEF Apply
  <2>4. CASE known
    BY <1>10, <2>1, <2>2, <2>3, <2>4 DEF Apply, Reconciled
  <2>5. CASE ~known
    BY <1>10, <2>3, <2>5 DEF Apply
  <2>6. QED
    BY <2>4, <2>5
<1>11. ASSUME NEW w \in Workers, Write(w) PROVE TypeOK'
  <2>1. rows' \in [Quotas -> Nat]
    <3>1. kind[w] \in Quotas
      OBVIOUS
    <3> DEFINE k == kind[w]
    <3>2. rows[k] \in Nat
      BY <3>1
    <3>3. rows' = [rows EXCEPT ![kind[w]] = rows[kind[w]] + 1]
      BY <1>11 DEF Write
    <3>4. QED
      BY <3>1, <3>2, <3>3
  <2>2. CASE w = Fetcher
    BY <1>11, <2>1, <2>2 DEF Write
  <2>3. CASE w # Fetcher
    <3>1. Return(w) /\ UNCHANGED <<ledgerVars, open>>
      BY <1>11, <2>3 DEF Write
    <3>2. QED
      BY <2>1, <3>1
  <2>4. QED
    BY <2>2, <2>3
<1>12. ASSUME NEW w \in Workers, WriteNothing(w) PROVE TypeOK'
  BY <1>12 DEF WriteNothing
<1>13. ASSUME NEW w \in Workers, StartAdd(w) PROVE TypeOK'
  BY <1>13 DEF StartAdd
<1>14. ASSUME NEW w \in Workers, AddMediaBytes(w) PROVE TypeOK'
  BY <1>14 DEF AddMediaBytes
<1>15. ASSUME NEW w \in Workers, NEW k \in Quotas, AdmitMedia(w, k) PROVE TypeOK'
  BY <1>15 DEF AdmitMedia
<1>16. ASSUME Prune PROVE TypeOK'
  BY <1>16 DEF Prune
<1>17. ASSUME NEW k \in Quotas, NEW n \in 0..rows[k], Shrink(k, n) PROVE TypeOK'
  BY <1>17 DEF Shrink
<1>18. ASSUME Evict PROVE TypeOK'
  <2>1. used' = Zero /\ used' \in [Quotas -> Nat] /\ ~seeded' /\ rate' = 0
    BY <1>18 DEF Evict, Forget
  <2>2. UNCHANGED <<rows, pc, kind, resume, read, open>>
    BY <1>18 DEF Evict
  <2>3. known' = FALSE /\ seeded' = FALSE /\ warned' = {} /\ blocked' = {}
    BY <1>18 DEF Evict, Forget
  <2>4. (~known => ~seeded /\ used = Zero)'
    BY <2>1, <2>3
  <2>5. rate' \in 0..CapturesPerMinute
    BY <2>1
  <2>6. QED
    BY <2>1, <2>2, <2>3, <2>4, <2>5
<1>19. ASSUME Restart PROVE TypeOK'
  <2>1. used' = Zero /\ used' \in [Quotas -> Nat] /\ ~seeded' /\ rate' = 0
    BY <1>19 DEF Restart, Forget
  <2>2. known' = FALSE /\ seeded' = FALSE /\ warned' = {} /\ blocked' = {}
    BY <1>19 DEF Restart, Forget
  <2>3. /\ pc' \in [Workers -> Labels] /\ kind' \in [Workers -> Quotas]
        /\ resume' \in [Workers -> {"idle", "decide", "recheck", "add"}]
        /\ read' \in [Workers -> [Quotas -> Nat]]
    BY <1>19 DEF Restart
  <2>4. UNCHANGED <<rows, open>>
    BY <1>19 DEF Restart
  <2>5. (~known => ~seeded /\ used = Zero)'
    BY <2>1, <2>2
  <2>6. rate' \in 0..CapturesPerMinute
    BY <2>1
  <2>7. QED
    BY <2>1, <2>2, <2>3, <2>4, <2>5, <2>6
<1>20. ASSUME UNCHANGED vars PROVE TypeOK'
  BY <1>20 DEF vars
<1>21. QED
  BY <1>1, <1>2, <1>3, <1>4, <1>5, <1>6, <1>7, <1>8, <1>9, <1>10,
     <1>11, <1>12, <1>13, <1>14, <1>15, <1>16, <1>17, <1>18, <1>19, <1>20
  DEF Next, Asks, Proceeds

(***************************************************************************)
(* The ledger, the tables, the window and the calls keep their types, for  *)
(* any number of shards and any limits; the window never exceeds           *)
(* CapturesPerMinute and a tenant that is not in the map has no usage.     *)
(***************************************************************************)
THEOREM QuotasTypes == Spec => []TypeOK
<1>1. Init => TypeOK
  <2> SUFFICES ASSUME Init PROVE TypeOK
    OBVIOUS
  <2>1. /\ pc \in [Workers -> Labels] /\ kind \in [Workers -> Quotas]
        /\ resume \in [Workers -> {"idle", "decide", "recheck", "add"}]
        /\ read \in [Workers -> [Quotas -> Nat]]
    BY SomeKindIsAQuota, ZeroIsUsage DEF Init, Labels
  <2>2. rows \in [Quotas -> Nat] /\ used \in [Quotas -> Nat]
    BY ZeroIsUsage DEF Init
  <2>3. rate \in 0..CapturesPerMinute /\ open \in 0..MaxOpen
    BY ValidConstants DEF Init
  <2>4. QED
    BY <2>1, <2>2, <2>3 DEF Init, TypeOK
<1>2. QED
  BY <1>1, StepTypeOK, PTL DEF Spec

\* A refusal that survives a resync keeps its alert.
LEMMA BlockedStaysWarned ==
  ASSUME NEW n \in [Quotas -> Nat], TypeOK, NoSilentDrop
  PROVE  StillBlocked(n) \subseteq StillWarned(n)
<1> SUFFICES ASSUME NEW k \in StillBlocked(n), blocked \subseteq warned
             PROVE k \in StillWarned(n)
  BY DEF NoSilentDrop
<1>1. k \in warned /\ k \in Quotas
  BY DEF StillBlocked, TypeOK
<1>2. AtThreshold(k, n[k])
  <2> SUFFICES n[k] >= warnThreshold(Limit[k])
    BY DEF AtThreshold
  <2>1. Limit[k] \in Nat /\ n[k] \in Nat /\ n[k] >= Limit[k]
    BY <1>1, ValidConstants DEF StillBlocked
  <2>2. warnThreshold(Limit[k]) <= Limit[k] /\ warnThreshold(Limit[k]) \in Nat
    BY <2>1, ThresholdWithinLimit
  <2>3. QED
    BY <2>1, <2>2
<1>3. QED
  BY <1>1, <1>2 DEF StillWarned

\* An admission may only add an alert.
LEMMA AllowKeepsAlerts ==
  ASSUME NEW w, NEW k, Allow(w, k)
  PROVE  warned \subseteq warned'
  BY DEF Allow

\* Every step keeps each memoised refusal alerted.
LEMMA StepNoSilentDrop == TypeOK /\ NoSilentDrop /\ [Next]_vars => NoSilentDrop'
<1> SUFFICES ASSUME TypeOK, NoSilentDrop, [Next]_vars PROVE NoSilentDrop'
  OBVIOUS
<1> USE DEF NoSilentDrop
<1>1. ASSUME NEW w \in Workers, Admit(w) PROVE NoSilentDrop'
  BY <1>1, AllowKeepsAlerts DEF Admit
<1>2. ASSUME NEW w \in Workers, AdmitVerified(w) PROVE NoSilentDrop'
  BY <1>2, AllowKeepsAlerts DEF AdmitVerified
<1>3. ASSUME NEW w \in Workers, RefuseVerified(w) PROVE NoSilentDrop'
  BY <1>3 DEF RefuseVerified
<1>4. ASSUME NEW w \in Workers, Apply(w) PROVE NoSilentDrop'
  <2>1. CASE known
    <3>1. read[w] \in [Quotas -> Nat]
      BY DEF TypeOK
    <3>2. blocked' = StillBlocked(read[w]) /\ warned' = StillWarned(read[w])
      BY <1>4, <2>1 DEF Apply, Reconciled
    <3>3. QED
      BY <3>1, <3>2, BlockedStaysWarned
  <2>2. CASE ~known
    BY <1>4, <2>2 DEF Apply
  <2>3. QED
    BY <2>1, <2>2
<1>5. ASSUME NEW w \in Workers, AddMediaBytes(w) PROVE NoSilentDrop'
  BY <1>5 DEF AddMediaBytes
<1>6. ASSUME Evict \/ Restart PROVE NoSilentDrop'
  BY <1>6 DEF Evict, Restart, Forget
<1>7. ASSUME NEW w \in Workers,
             \/ AdmitCapture(w) \/ \E k \in Quotas : AdmitMedia(w, k)
             \/ NeedsSeed(w) \/ RefuseMemoised(w) \/ Verify(w)
             \/ Count(w) \/ CountFails(w)
             \/ Write(w) \/ WriteNothing(w) \/ StartAdd(w)
      PROVE NoSilentDrop'
  BY <1>7 DEF AdmitCapture, AdmitMedia, NeedsSeed, RefuseMemoised, Verify, Count,
     CountFails, Write, WriteNothing, StartAdd, ledgerVars
<1>8. ASSUME Prune \/ (\E k \in Quotas : \E n \in 0..rows[k] : Shrink(k, n))
             \/ UNCHANGED vars
      PROVE NoSilentDrop'
  BY <1>8 DEF Prune, Shrink, vars, ledgerVars
<1>9. QED
  BY <1>1, <1>2, <1>3, <1>4, <1>5, <1>6, <1>7, <1>8 DEF Next, Asks, Proceeds

(***************************************************************************)
(* While captures of a tenant are dropped without a word, on the strength  *)
(* of a memoised refusal, its alert stands: for any limits, any percentage *)
(* and any number of goroutines, whatever resync, eviction or a failing    *)
(* source did in between.  It rests on warnThreshold never exceeding the   *)
(* limit it is a percentage of.                                            *)
(***************************************************************************)
THEOREM QuotasNoSilentDrop == Spec => []NoSilentDrop
<1>1. Init => NoSilentDrop
  BY DEF Init, NoSilentDrop
<1>2. QED
  BY <1>1, StepNoSilentDrop, QuotasTypes, PTL DEF Spec

-------------------------------------------------------------------------------
(* How far past a limit: the bound is an area, one column per goroutine *)

\* The area under a function, as a set of unit squares.
Area(W, n, f) == {x \in W \X (1..n) : x[2] <= f[x[1]]}

\* A column of n squares.
LEMMA ColumnSize ==
  ASSUME NEW w, NEW n \in Nat
  PROVE  IsFiniteSet({w} \X (1..n)) /\ Cardinality({w} \X (1..n)) = n
<1>1. IsFiniteSet({w}) /\ Cardinality({w}) = 1
  BY FS_Singleton
<1>2. IsFiniteSet(1..n) /\ Cardinality(1..n) = n
  BY FS_Interval
<1>3. /\ IsFiniteSet({w} \X (1..n))
      /\ Cardinality({w} \X (1..n)) = Cardinality({w}) * Cardinality(1..n)
  BY <1>1, <1>2, FS_Product
<1>4. 1 * n = n
  OBVIOUS
<1>5. QED
  BY <1>1, <1>2, <1>3, <1>4

\* An area lies within its rectangle.
LEMMA AreaSize ==
  ASSUME NEW W, IsFiniteSet(W), NEW n \in Nat, NEW f
  PROVE  /\ IsFiniteSet(Area(W, n, f))
         /\ Cardinality(Area(W, n, f)) \in Nat
         /\ Cardinality(Area(W, n, f)) <= Cardinality(W) * n
<1>1. IsFiniteSet(1..n) /\ Cardinality(1..n) = n
  BY FS_Interval
<1>2. IsFiniteSet(W \X (1..n)) /\ Cardinality(W \X (1..n)) = Cardinality(W) * n
  BY <1>1, FS_Product
<1>3. Area(W, n, f) \in SUBSET (W \X (1..n))
  BY DEF Area
<1>4. IsFiniteSet(Area(W, n, f)) /\ Cardinality(Area(W, n, f)) <= Cardinality(W \X (1..n))
  BY <1>2, <1>3, FS_Subset
<1>5. QED
  BY <1>2, <1>4, FS_CardinalityType

\* ... and is the sum of one column and of the rest.
LEMMA AreaSplit ==
  ASSUME NEW W, IsFiniteSet(W), NEW n \in Nat, NEW f, NEW w \in W, f[w] \in 0..n
  PROVE  Cardinality(Area(W, n, f)) = Cardinality(Area(W \ {w}, n, f)) + f[w]
<1> DEFINE rest == Area(W \ {w}, n, f)
           column == {w} \X (1..f[w])
<1>1. IsFiniteSet(column) /\ Cardinality(column) = f[w]
  <2>1. f[w] \in Nat
    OBVIOUS
  <2>2. QED
    BY <2>1, ColumnSize
<1>2. IsFiniteSet(rest) /\ Cardinality(rest) \in Nat
  <2>1. IsFiniteSet(W \ {w})
    BY FS_RemoveElement
  <2>2. QED
    BY <2>1, AreaSize
<1>3. Area(W, n, f) = rest \cup column
  <2>1. ASSUME NEW x \in Area(W, n, f) PROVE x \in rest \cup column
    BY <2>1 DEF Area
  <2>2. ASSUME NEW x \in rest \cup column PROVE x \in Area(W, n, f)
    BY <2>2 DEF Area
  <2>3. QED
    BY <2>1, <2>2
<1>4. rest \cap column = {}
  BY DEF Area
<1> HIDE DEF rest, column
<1>5. Cardinality(rest \cup column) = Cardinality(rest) + Cardinality(column) - Cardinality({})
  BY <1>1, <1>2, <1>4, FS_Union
<1>6. QED
  BY <1>1, <1>2, <1>3, <1>5, FS_EmptySet DEF rest

\* Only what the function says of W counts.
LEMMA AreaSame ==
  ASSUME NEW W, NEW n \in Nat, NEW f, NEW g, \A w \in W : f[w] = g[w]
  PROVE  Area(W, n, f) = Area(W, n, g)
  BY DEF Area

\* A column that changes.
LEMMA AreaChange ==
  ASSUME NEW W, IsFiniteSet(W), NEW n \in Nat, NEW f, NEW g, NEW w \in W,
         f[w] \in 0..n, g[w] \in 0..n, \A v \in W \ {w} : f[v] = g[v]
  PROVE  Cardinality(Area(W, n, g)) = Cardinality(Area(W, n, f)) - f[w] + g[w]
<1>1. Area(W \ {w}, n, f) = Area(W \ {w}, n, g)
  BY AreaSame
<1>2. IsFiniteSet(W \ {w})
  BY FS_RemoveElement
<1>3. Cardinality(Area(W \ {w}, n, f)) \in Nat
  BY <1>2, AreaSize
<1>4. QED
  BY <1>1, <1>3, AreaSplit

\* A row of a rectangle less.
LEMMA OneLess ==
  ASSUME NEW W, IsFiniteSet(W), NEW w \in W, NEW n \in Nat
  PROVE  /\ IsFiniteSet(W \ {w}) /\ Cardinality(W) * n \in Nat
         /\ Cardinality(W \ {w}) * n = Cardinality(W) * n - n
<1>1. /\ IsFiniteSet(W \ {w}) /\ Cardinality(W) \in Nat /\ Cardinality(W \ {w}) \in Nat
      /\ Cardinality(W \ {w}) = Cardinality(W) - 1
  BY FS_RemoveElement, FS_CardinalityType
<1>2. \A m \in Nat : m * n \in Nat /\ (m - 1) * n = m * n - n
  OBVIOUS
<1>3. QED
  BY <1>1, <1>2

-------------------------------------------------------------------------------
(* How far past a limit: who may still add what *)

\* What a goroutine may still add to a table on its own account: the unit it
\* was granted and has not written, or what the count it has read, once it
\* overwrites the ledger, would let through.
ShareOf(k, w) ==
    IF pc[w] = "admitted" /\ kind[w] = k THEN 1
    ELSE IF pc[w] = "apply" /\ read[w][k] < Limit[k] THEN Limit[k] - read[w][k]
    ELSE 0
Shares(k) == [w \in Workers |-> ShareOf(k, w)]

\* The fetcher was granted a file that AddMediaBytes has not accounted for.
Unaccounted(k) ==
    IF k = "media_bytes"
       /\ \/ pc[Fetcher] \in {"admitted", "stored", "add"}
          \/ pc[Fetcher] \in {"count", "apply"} /\ resume[Fetcher] = "add"
    THEN 1 ELSE 0

\* What the ledger as it stands would let through ...
Slack(k) ==
    IF seeded /\ used[k] + Unaccounted(k) < Limit[k]
    THEN Limit[k] - used[k] - Unaccounted(k) ELSE 0

\* ... unless every goroutine has a count to apply: then nobody asks it before
\* the next one overwrites it.
Room(k) == IF \E w \in Workers : pc[w] # "apply" THEN Slack(k) ELSE 0

\* Only the fetcher asks for bytes.
KindInv == \A w \in Workers : pc[w] # "idle" => (kind[w] = "media_bytes" <=> w = Fetcher)

Squares(k) == Cardinality(Area(Workers, Limit[k], Shares(k)))

Bounded(k) ==
    rows[k] + Squares(k) + Room(k) <= Cardinality(Workers) * Limit[k] + 1 + open

BoundInv == \A k \in Quotas : Bounded(k)

LEMMA FiniteWorkers ==
  /\ IsFiniteSet(Workers) /\ Cardinality(Workers) \in Nat
  /\ Fetcher \in Workers
<1>1. IsFiniteSet(Workers)
  BY QuotasAssumption, FS_AddElement DEF Workers
<1>2. QED
  BY <1>1, FS_CardinalityType DEF Workers

LEMMA LimitIsPositive == \A k \in Quotas : Limit[k] \in Nat /\ Limit[k] >= 1
  BY ValidConstants

\* A goroutine has at most one column, and the ledger another.
LEMMA ShareRange ==
  TypeOK => \A k \in Quotas : \A w \in Workers :
               ShareOf(k, w) \in 0..Limit[k] /\ Shares(k)[w] = ShareOf(k, w)
<1> SUFFICES ASSUME TypeOK, NEW k \in Quotas, NEW w \in Workers
             PROVE ShareOf(k, w) \in 0..Limit[k] /\ Shares(k)[w] = ShareOf(k, w)
  OBVIOUS
<1>1. read[w][k] \in Nat /\ Limit[k] \in Nat /\ Limit[k] >= 1
  BY LimitIsPositive DEF TypeOK
<1>2. QED
  BY <1>1 DEF ShareOf, Shares

LEMMA ShareRangeNext ==
  TypeOK' => \A k \in Quotas : \A w \in Workers :
               ShareOf(k, w)' \in 0..Limit[k] /\ Shares(k)'[w] = ShareOf(k, w)'
<1> SUFFICES ASSUME TypeOK', NEW k \in Quotas, NEW w \in Workers
             PROVE ShareOf(k, w)' \in 0..Limit[k] /\ Shares(k)'[w] = ShareOf(k, w)'
  OBVIOUS
<1>1. read'[w][k] \in Nat /\ Limit[k] \in Nat /\ Limit[k] >= 1
  BY LimitIsPositive DEF TypeOK
<1>2. QED
  BY <1>1 DEF ShareOf, Shares

\* What the ledger lets through is within the limit.
RoomTypes(k) ==
    /\ Unaccounted(k) \in 0..1 /\ used[k] \in Nat /\ rows[k] \in Nat /\ open \in Nat
    /\ Slack(k) \in 0..Limit[k] /\ Room(k) \in 0..Limit[k] /\ Room(k) <= Slack(k)

LEMMA RoomRange == ASSUME NEW k \in Quotas PROVE TypeOK => RoomTypes(k)
<1> SUFFICES ASSUME TypeOK PROVE RoomTypes(k)
  OBVIOUS
<1>1. used[k] \in Nat /\ rows[k] \in Nat /\ open \in Nat
  BY ValidConstants DEF TypeOK
<1>2. Unaccounted(k) \in 0..1
  BY DEF Unaccounted
<1>3. Slack(k) \in 0..Limit[k]
  BY <1>1, <1>2, LimitIsPositive DEF Slack
<1>4. QED
  BY <1>1, <1>2, <1>3, LimitIsPositive DEF Room, RoomTypes

LEMMA RoomRangeNext == ASSUME NEW k \in Quotas PROVE TypeOK' => RoomTypes(k)'
<1>1. TypeOK => RoomTypes(k)
  BY RoomRange
<1>2. QED
  BY <1>1, PTL

LEMMA SquaresRange == TypeOK => \A k \in Quotas : Squares(k) \in Nat
<1> SUFFICES ASSUME TypeOK, NEW k \in Quotas PROVE Squares(k) \in Nat
  OBVIOUS
<1>1. QED
  BY AreaSize, FiniteWorkers, LimitIsPositive DEF Squares

\* The bound of a quota: a natural number.
LEMMA BoundIsNat ==
  ASSUME NEW k \in Quotas
  PROVE  Cardinality(Workers) * Limit[k] \in Nat
<1>1. \A a, b \in Nat : a * b \in Nat
  OBVIOUS
<1>2. QED
  BY <1>1, FiniteWorkers, LimitIsPositive

\* One goroutine moves, and what it, the table and the ledger may still add
\* together grows no faster than `open'.
LEMMA Moves ==
  ASSUME TypeOK, TypeOK', NEW k \in Quotas, NEW w \in Workers, Bounded(k),
         \A v \in Workers \ {w} : ShareOf(k, v)' = ShareOf(k, v),
         rows'[k] + ShareOf(k, w)' + Room(k)' + open
             <= rows[k] + ShareOf(k, w) + Room(k) + open'
  PROVE  Bounded(k)'
<1> DEFINE f == Shares(k)
           g == Shares(k)'
           L == Limit[k]
<1>1. L \in Nat /\ IsFiniteSet(Workers)
  BY LimitIsPositive, FiniteWorkers
<1>2. f[w] = ShareOf(k, w) /\ g[w] = ShareOf(k, w)' /\ f[w] \in 0..L /\ g[w] \in 0..L
  BY ShareRange, ShareRangeNext
<1>3. \A v \in Workers \ {w} : f[v] = g[v]
  BY ShareRange, ShareRangeNext
<1>4. Squares(k)' = Cardinality(Area(Workers, L, g)) /\ Squares(k) = Cardinality(Area(Workers, L, f))
  BY DEF Squares
<1> HIDE DEF f, g, L
<1>5. Cardinality(Area(Workers, L, g)) = Cardinality(Area(Workers, L, f)) - f[w] + g[w]
  BY <1>1, <1>2, <1>3, AreaChange
<1>6. Squares(k)' = Squares(k) - ShareOf(k, w) + ShareOf(k, w)'
  BY <1>2, <1>4, <1>5
<1>7. /\ Squares(k) \in Nat /\ ShareOf(k, w) \in Nat /\ ShareOf(k, w)' \in Nat
      /\ rows[k] \in Nat /\ rows'[k] \in Nat /\ open \in Nat /\ open' \in Nat
      /\ Room(k) \in Nat /\ Room(k)' \in Nat
  BY <1>1, <1>2, SquaresRange, RoomRange, RoomRangeNext DEF L, RoomTypes
<1>8. Cardinality(Workers) * Limit[k] \in Nat
  BY BoundIsNat
<1>9. QED
  BY <1>6, <1>7, <1>8 DEF Bounded

-------------------------------------------------------------------------------
(* How far past a limit: one lemma per kind of step *)

\* A step of one goroutine leaves the others where they are.
OnlyMoves(w) ==
    \A v \in Workers \ {w} :
        pc'[v] = pc[v] /\ kind'[v] = kind[v] /\ resume'[v] = resume[v] /\ read'[v] = read[v]

LEMMA StepOfOne ==
  ASSUME TypeOK, NEW w \in Workers, Asks(w) \/ Proceeds(w)
  PROVE  OnlyMoves(w)
<1> USE DEF OnlyMoves, TypeOK, Goto, Return, Continue, StartResync
<1>1. CASE Asks(w)
  BY <1>1 DEF Asks, AdmitCapture, AdmitMedia
<1>2. CASE NeedsSeed(w) \/ RefuseMemoised(w) \/ Verify(w) \/ RefuseVerified(w)
  BY <1>2 DEF NeedsSeed, RefuseMemoised, Verify, RefuseVerified
<1>3. CASE Admit(w) \/ AdmitVerified(w)
  BY <1>3 DEF Admit, AdmitVerified, Allow
<1>4. CASE Count(w) \/ CountFails(w) \/ Apply(w)
  BY <1>4 DEF Count, CountFails, Apply
<1>5. CASE Write(w) \/ WriteNothing(w) \/ StartAdd(w) \/ AddMediaBytes(w)
  BY <1>5 DEF Write, WriteNothing, StartAdd, AddMediaBytes
<1>6. QED
  BY <1>1, <1>2, <1>3, <1>4, <1>5 DEF Proceeds

\* ... and so what the others may still add; the fetcher's file too.
LEMMA OthersKeep ==
  ASSUME NEW w \in Workers, OnlyMoves(w), NEW k \in Quotas
  PROVE  /\ \A v \in Workers \ {w} : ShareOf(k, v)' = ShareOf(k, v)
         /\ w # Fetcher => Unaccounted(k)' = Unaccounted(k)
<1>1. ASSUME NEW v \in Workers \ {w} PROVE ShareOf(k, v)' = ShareOf(k, v)
  BY <1>1 DEF OnlyMoves, ShareOf
<1>2. ASSUME w # Fetcher PROVE Unaccounted(k)' = Unaccounted(k)
  <2>1. Fetcher \in Workers \ {w}
    BY <1>2, FiniteWorkers
  <2>2. pc'[Fetcher] = pc[Fetcher] /\ resume'[Fetcher] = resume[Fetcher]
    BY <2>1 DEF OnlyMoves
  <2>3. QED
    BY <2>2 DEF Unaccounted
<1>3. QED
  BY <1>1, <1>2

\* A goroutine that was not about to overwrite the ledger: the ledger was open
\* for it.
LEMMA Advances ==
  ASSUME TypeOK, TypeOK', NEW k \in Quotas, NEW w \in Workers, Bounded(k),
         OnlyMoves(w), pc[w] # "apply",
         rows'[k] + ShareOf(k, w)' + Slack(k)' + open
             <= rows[k] + ShareOf(k, w) + Slack(k) + open'
  PROVE  Bounded(k)'
<1>1. Room(k) = Slack(k)
  BY DEF Room
<1>2. RoomTypes(k) /\ RoomTypes(k)'
  BY RoomRange, RoomRangeNext
<1>3. Room(k)' <= Slack(k)' /\ Room(k)' \in Nat /\ Slack(k)' \in Nat /\ Slack(k) \in Nat
  BY <1>2, LimitIsPositive DEF RoomTypes
<1>4. ShareOf(k, w) \in Nat /\ ShareOf(k, w)' \in Nat
  BY ShareRange, ShareRangeNext, LimitIsPositive
<1>5. /\ rows[k] \in Nat /\ rows'[k] \in Nat /\ open \in Nat /\ open' \in Nat
  BY <1>2 DEF RoomTypes
<1>6. rows'[k] + ShareOf(k, w)' + Room(k)' + open
         <= rows[k] + ShareOf(k, w) + Room(k) + open'
  BY <1>1, <1>3, <1>4, <1>5
<1>7. \A v \in Workers \ {w} : ShareOf(k, v)' = ShareOf(k, v)
  BY OthersKeep
<1>8. QED
  BY <1>6, <1>7, Moves

\* The ledger as it was lets through what it did.
LEMMA SlackSame ==
  ASSUME NEW k \in Quotas, used'[k] = used[k], seeded' = seeded,
         Unaccounted(k)' = Unaccounted(k)
  PROVE  Slack(k)' = Slack(k)
  BY DEF Slack

\* A goroutine outside an admission and a resync has nothing to add.
LEMMA NoShare ==
  ASSUME NEW k, NEW w, pc[w] \notin {"admitted", "apply"}
  PROVE  ShareOf(k, w) = 0
  BY DEF ShareOf

LEMMA NoShareNext ==
  ASSUME NEW k, NEW w, pc'[w] \notin {"admitted", "apply"}
  PROVE  ShareOf(k, w)' = 0
  BY DEF ShareOf

\* A call that only moves on: nothing granted, counted or written.
LEMMA Passes ==
  ASSUME TypeOK, TypeOK', NEW k \in Quotas, NEW w \in Workers, Bounded(k), OnlyMoves(w),
         pc[w] \notin {"admitted", "apply"}, pc'[w] \notin {"admitted", "apply"},
         rows'[k] = rows[k], used'[k] = used[k], seeded' = seeded, open' = open,
         Unaccounted(k)' = Unaccounted(k)
  PROVE  Bounded(k)'
<1>1. Slack(k)' = Slack(k)
  BY SlackSame
<1>2. ShareOf(k, w) = 0 /\ ShareOf(k, w)' = 0
  BY NoShare, NoShareNext
<1>3. RoomTypes(k)
  BY RoomRange
<1>4. Slack(k) \in Nat /\ rows[k] \in Nat /\ open \in Nat
  BY <1>3, LimitIsPositive DEF RoomTypes
<1>5. rows'[k] + ShareOf(k, w)' + Slack(k)' + open
         <= rows[k] + ShareOf(k, w) + Slack(k) + open'
  BY <1>1, <1>2, <1>4
<1>6. QED
  BY <1>5, Advances

\* Nothing of these steps touches a table, the ledger or what is granted.
LEMMA PassingCalls ==
  ASSUME TypeOK, TypeOK', NEW k \in Quotas, NEW w \in Workers, Bounded(k), OnlyMoves(w),
         \/ Asks(w) \/ NeedsSeed(w) \/ RefuseMemoised(w) \/ Verify(w) \/ RefuseVerified(w)
         \/ CountFails(w) \/ StartAdd(w)
  PROVE  Bounded(k)'
<1> USE DEF Goto, Return, Continue, StartResync, ledgerVars
<1>1. rows' = rows /\ used' = used /\ seeded' = seeded /\ open' = open
  BY DEF Asks, AdmitCapture, AdmitMedia, NeedsSeed, RefuseMemoised, Verify, RefuseVerified,
     CountFails, StartAdd
<1>2. pc \in [Workers -> Labels] /\ resume \in [Workers -> {"idle", "decide", "recheck", "add"}]
  BY DEF TypeOK
<1>3. CASE Asks(w)
  <2>1. pc[w] = "idle" /\ pc'[w] = "volume"
    BY <1>2, <1>3 DEF Asks, AdmitCapture, AdmitMedia
  <2>2. Unaccounted(k)' = Unaccounted(k)
    <3>1. CASE w = Fetcher
      BY <2>1, <3>1 DEF Unaccounted
    <3>2. QED
      BY <3>1, OthersKeep
  <2>3. QED
    BY <1>1, <2>1, <2>2, Passes
<1>4. CASE NeedsSeed(w) \/ Verify(w)
  <2>1. /\ pc[w] \in {"volume", "decide"} /\ pc'[w] = "count"
        /\ resume'[w] \in {"decide", "recheck"}
    BY <1>2, <1>4 DEF NeedsSeed, Verify, Over
  <2>2. Unaccounted(k)' = Unaccounted(k)
    <3>1. CASE w = Fetcher
      BY <2>1, <3>1 DEF Unaccounted
    <3>2. QED
      BY <3>1, OthersKeep
  <2>3. QED
    BY <1>1, <2>1, <2>2, Passes
<1>5. CASE RefuseMemoised(w) \/ RefuseVerified(w)
  <2>1. pc[w] \in {"volume", "decide", "recheck"} /\ pc'[w] = "idle"
    BY <1>2, <1>5 DEF RefuseMemoised, RefuseVerified, Over
  <2>2. Unaccounted(k)' = Unaccounted(k)
    <3>1. CASE w = Fetcher
      BY <2>1, <3>1 DEF Unaccounted
    <3>2. QED
      BY <3>1, OthersKeep
  <2>3. QED
    BY <1>1, <2>1, <2>2, Passes
<1>6. CASE CountFails(w)
  <2>1. /\ pc[w] = "count" /\ pc'[w] = resume[w] /\ resume'[w] = "idle"
        /\ resume[w] \in {"idle", "decide", "recheck", "add"}
    BY <1>2, <1>6 DEF CountFails
  <2>2. Unaccounted(k)' = Unaccounted(k)
    <3>1. CASE w = Fetcher
      BY <2>1, <3>1 DEF Unaccounted
    <3>2. QED
      BY <3>1, OthersKeep
  <2>3. QED
    BY <1>1, <2>1, <2>2, Passes
<1>7. CASE StartAdd(w)
  <2>1. /\ pc[w] = "stored"
        /\ pc'[w] = "add" \/ (pc'[w] = "count" /\ resume'[w] = "add")
    <3>1. CASE seeded
      BY <1>2, <1>7, <3>1 DEF StartAdd
    <3>2. CASE ~seeded
      BY <1>2, <1>7, <3>2 DEF StartAdd
    <3>3. QED
      BY <3>1, <3>2
  <2>2. Unaccounted(k)' = Unaccounted(k)
    <3>1. CASE w = Fetcher
      BY <2>1, <3>1 DEF Unaccounted
    <3>2. QED
      BY <3>1, OthersKeep
  <2>3. QED
    BY <1>1, <2>1, <2>2, Passes
<1>8. QED
  BY <1>3, <1>4, <1>5, <1>6, <1>7

\* A unit is granted: the ledger lets through one less, or `open' records that
\* it was not asked.
LEMMA GrantBounded ==
  ASSUME TypeOK, TypeOK', KindInv, NEW k \in Quotas, NEW w \in Workers, Bounded(k),
         OnlyMoves(w), pc[w] \in {"volume", "decide", "recheck"},
         ~seeded \/ used[kind[w]] < Limit[kind[w]], Allow(w, kind[w])
  PROVE  Bounded(k)'
<1> DEFINE q == kind[w]
<1>1. /\ pc \in [Workers -> Labels] /\ used \in [Quotas -> Nat] /\ q \in Quotas
      /\ open \in Nat
  BY ValidConstants DEF TypeOK
<1>2. /\ pc'[w] = "admitted" /\ kind'[w] = q /\ rows' = rows /\ seeded' = seeded
  BY <1>1 DEF Allow, Continue, Goto
<1>3. open' = IF seeded THEN open ELSE open + 1
  BY DEF Allow
<1>4. /\ q = "media_bytes" => used' = used
      /\ q # "media_bytes" => used'[q] = used[q] + 1
      /\ \A j \in Quotas \ {q} : used'[j] = used[j]
  BY <1>1 DEF Allow
<1>5. q = "media_bytes" <=> w = Fetcher
  BY DEF KindInv
<1>6. ShareOf(k, w) = 0
  BY NoShare
<1>7. RoomTypes(k) /\ RoomTypes(k)' /\ Limit[k] \in Nat
  BY RoomRange, RoomRangeNext, LimitIsPositive
<1>8. /\ Slack(k) \in Nat /\ Slack(k)' \in Nat /\ rows[k] \in Nat /\ used[k] \in Nat
      /\ used'[k] \in Nat
  BY <1>7 DEF RoomTypes
<1>9. CASE k = q
  <2>1. ShareOf(k, w)' = 1
    BY <1>2, <1>9 DEF ShareOf
  <2>2. Unaccounted(k) = 0
    <3>1. CASE k = "media_bytes"
      BY <3>1, <1>5, <1>9 DEF Unaccounted
    <3>2. QED
      BY <3>1 DEF Unaccounted
  <2>3. used'[k] + Unaccounted(k)' = used[k] + 1
    <3>1. CASE k = "media_bytes"
      <4>1. Unaccounted(k)' = 1
        BY <3>1, <1>2, <1>5, <1>9 DEF Unaccounted
      <4>2. QED
        BY <4>1, <3>1, <1>4, <1>9, <1>8
    <3>2. CASE k # "media_bytes"
      <4>1. Unaccounted(k)' = 0
        BY <3>2 DEF Unaccounted
      <4>2. QED
        BY <4>1, <3>2, <1>4, <1>9, <1>8
    <3>3. QED
      BY <3>1, <3>2
  <2>4. CASE seeded
    <3>1. Slack(k) = Limit[k] - used[k] /\ used[k] < Limit[k]
      BY <2>2, <2>4, <1>7, <1>8, <1>9 DEF Slack
    <3>2. Unaccounted(k)' \in Nat
      BY <1>7 DEF RoomTypes
    <3>3. Slack(k)' = Limit[k] - used[k] - 1
      BY <2>3, <2>4, <3>1, <3>2, <1>2, <1>7, <1>8 DEF Slack
    <3>4. rows'[k] + ShareOf(k, w)' + Slack(k)' + open
             <= rows[k] + ShareOf(k, w) + Slack(k) + open'
      BY <3>1, <3>3, <2>1, <2>4, <1>1, <1>2, <1>3, <1>6, <1>7, <1>8
    <3>5. QED
      BY <3>4, Advances
  <2>5. CASE ~seeded
    <3>1. Slack(k) = 0 /\ Slack(k)' = 0 /\ open' = open + 1
      BY <2>5, <1>2, <1>3 DEF Slack
    <3>2. rows'[k] + ShareOf(k, w)' + Slack(k)' + open
             <= rows[k] + ShareOf(k, w) + Slack(k) + open'
      BY <3>1, <2>1, <1>1, <1>2, <1>6, <1>8
    <3>3. QED
      BY <3>2, Advances
  <2>6. QED
    BY <2>4, <2>5
<1>10. CASE k # q
  <2>1. ShareOf(k, w)' = 0
    BY <1>2, <1>10 DEF ShareOf
  <2>2. Unaccounted(k)' = Unaccounted(k)
    <3>1. CASE w = Fetcher
      BY <3>1, <1>5, <1>10 DEF Unaccounted
    <3>2. QED
      BY <3>1, OthersKeep
  <2>3. Slack(k)' = Slack(k)
    BY <2>2, <1>2, <1>4, <1>10, SlackSame
  <2>4. open <= open' /\ open' \in Nat
    BY <1>1, <1>3
  <2>5. rows'[k] + ShareOf(k, w)' + Slack(k)' + open
           <= rows[k] + ShareOf(k, w) + Slack(k) + open'
    BY <2>1, <2>3, <2>4, <1>1, <1>2, <1>6, <1>8
  <2>6. QED
    BY <2>5, Advances
<1>11. QED
  BY <1>9, <1>10

\* A granted unit is written, or nothing is: the share of the goroutine pays.
LEMMA WriteBounded ==
  ASSUME TypeOK, TypeOK', KindInv, NEW k \in Quotas, NEW w \in Workers, Bounded(k),
         OnlyMoves(w), Write(w) \/ WriteNothing(w)
  PROVE  Bounded(k)'
<1> USE DEF Goto, Return, Continue, ledgerVars
<1>1. pc \in [Workers -> Labels] /\ rows \in [Quotas -> Nat] /\ kind[w] \in Quotas
  BY DEF TypeOK
<1>2. /\ pc[w] = "admitted" /\ pc'[w] \in {"idle", "stored"}
      /\ used' = used /\ seeded' = seeded /\ open' = open
  <2>1. CASE Write(w) /\ w = Fetcher
    BY <1>1, <2>1 DEF Write
  <2>2. CASE Write(w) /\ w # Fetcher
    BY <1>1, <2>2 DEF Write
  <2>3. CASE WriteNothing(w)
    BY <1>1, <2>3 DEF WriteNothing
  <2>4. QED
    BY <2>1, <2>2, <2>3
<1>3. kind[w] = "media_bytes" <=> w = Fetcher
  BY <1>2 DEF KindInv
<1>4. RoomTypes(k) /\ RoomTypes(k)' /\ Limit[k] \in Nat
  BY RoomRange, RoomRangeNext, LimitIsPositive
<1>5. /\ Slack(k) \in Nat /\ Slack(k)' \in Nat /\ rows[k] \in Nat /\ used[k] \in Nat
      /\ open \in Nat /\ Unaccounted(k) \in 0..1 /\ Unaccounted(k)' \in 0..1
  BY <1>4 DEF RoomTypes
<1>6. ShareOf(k, w)' = 0
  BY <1>2, NoShareNext
<1>7. CASE k = kind[w]
  <2>1. ShareOf(k, w) = 1
    BY <1>2, <1>7 DEF ShareOf
  <2>2. CASE Write(w)
    <3>1. rows'[k] = rows[k] + 1
      BY <1>1, <1>7, <2>2 DEF Write
    <3>2. Unaccounted(k)' = Unaccounted(k)
      <4>1. CASE w = Fetcher
        <5>1. pc'[w] = "stored"
          BY <1>1, <2>2, <4>1 DEF Write
        <5>2. QED
          BY <1>2, <5>1, <4>1 DEF Unaccounted
      <4>2. QED
        BY <4>1, OthersKeep
    <3>3. Slack(k)' = Slack(k)
      BY <1>2, <3>2, SlackSame
    <3>4. rows'[k] + ShareOf(k, w)' + Slack(k)' + open
             <= rows[k] + ShareOf(k, w) + Slack(k) + open'
      BY <3>1, <3>3, <1>2, <1>5, <1>6, <2>1
    <3>5. QED
      BY <1>2, <3>4, Advances
  <2>3. CASE WriteNothing(w)
    <3>1. rows' = rows
      BY <2>3 DEF WriteNothing
    <3>2. Slack(k)' <= Slack(k) + 1
      BY <1>2, <1>4, <1>5 DEF Slack
    <3>3. rows'[k] + ShareOf(k, w)' + Slack(k)' + open
             <= rows[k] + ShareOf(k, w) + Slack(k) + open'
      BY <3>1, <3>2, <1>2, <1>5, <1>6, <2>1
    <3>4. QED
      BY <1>2, <3>3, Advances
  <2>4. QED
    BY <2>2, <2>3
<1>8. CASE k # kind[w]
  <2>1. rows'[k] = rows[k]
    BY <1>1, <1>8 DEF Write, WriteNothing
  <2>2. Unaccounted(k)' = Unaccounted(k)
    <3>1. CASE w = Fetcher
      BY <3>1, <1>3, <1>8 DEF Unaccounted
    <3>2. QED
      BY <3>1, OthersKeep
  <2>3. Slack(k)' = Slack(k)
    BY <1>2, <2>2, SlackSame
  <2>4. ShareOf(k, w) = 0
    BY <1>2, <1>8 DEF ShareOf
  <2>5. rows'[k] + ShareOf(k, w)' + Slack(k)' + open
           <= rows[k] + ShareOf(k, w) + Slack(k) + open'
    BY <2>1, <2>3, <2>4, <1>2, <1>5, <1>6
  <2>6. QED
    BY <1>2, <2>5, Advances
<1>9. QED
  BY <1>7, <1>8

\* The bytes reach the ledger, and the file is accounted for.
LEMMA AddBounded ==
  ASSUME TypeOK, TypeOK', NEW k \in Quotas, NEW w \in Workers, Bounded(k),
         OnlyMoves(w), AddMediaBytes(w)
  PROVE  Bounded(k)'
<1> USE DEF Goto, Return
<1>1. pc \in [Workers -> Labels] /\ used \in [Quotas -> Nat] /\ "media_bytes" \in Quotas
  BY ValidConstants DEF TypeOK
<1>2. /\ pc[w] = "add" /\ pc'[w] = "idle"
      /\ rows' = rows /\ seeded' = seeded /\ open' = open
  BY <1>1 DEF AddMediaBytes
<1>3. /\ k = "media_bytes" => used'[k] = used[k] + 1
      /\ k # "media_bytes" => used'[k] = used[k]
  BY <1>1 DEF AddMediaBytes
<1>4. RoomTypes(k) /\ RoomTypes(k)' /\ Limit[k] \in Nat
  BY RoomRange, RoomRangeNext, LimitIsPositive
<1>5. /\ Slack(k) \in Nat /\ Slack(k)' \in Nat /\ rows[k] \in Nat /\ used[k] \in Nat
      /\ open \in Nat /\ Unaccounted(k) \in 0..1 /\ Unaccounted(k)' \in 0..1
  BY <1>4 DEF RoomTypes
<1>6. used[k] + Unaccounted(k) <= used'[k] + Unaccounted(k)' /\ used'[k] \in Nat
  <2>1. CASE k = "media_bytes"
    BY <2>1, <1>3, <1>5
  <2>2. CASE k # "media_bytes"
    <3>1. Unaccounted(k) = 0 /\ Unaccounted(k)' = 0
      BY <2>2 DEF Unaccounted
    <3>2. QED
      BY <3>1, <2>2, <1>3, <1>5
  <2>3. QED
    BY <2>1, <2>2
<1>7. Slack(k)' <= Slack(k)
  BY <1>2, <1>4, <1>5, <1>6 DEF Slack
<1>8. ShareOf(k, w) = 0 /\ ShareOf(k, w)' = 0
  BY <1>2, NoShare, NoShareNext
<1>9. rows'[k] + ShareOf(k, w)' + Slack(k)' + open
         <= rows[k] + ShareOf(k, w) + Slack(k) + open'
  BY <1>2, <1>5, <1>7, <1>8
<1>10. QED
  BY <1>2, <1>9, Advances

\* A count overwrites the ledger: what it lets through was the goroutine's.
LEMMA ApplyBounded ==
  ASSUME TypeOK, TypeOK', NEW k \in Quotas, NEW w \in Workers, Bounded(k),
         OnlyMoves(w), Apply(w)
  PROVE  Bounded(k)'
<1> USE DEF Goto
<1>1. /\ pc \in [Workers -> Labels] /\ read[w] \in [Quotas -> Nat]
      /\ resume[w] \in {"idle", "decide", "recheck", "add"}
      /\ ~known => ~seeded
  BY DEF TypeOK
<1>2. /\ pc[w] = "apply" /\ pc'[w] = resume[w] /\ rows' = rows /\ open' = open
  BY <1>1 DEF Apply
<1>3. RoomTypes(k) /\ RoomTypes(k)' /\ Limit[k] \in Nat
  BY RoomRange, RoomRangeNext, LimitIsPositive
<1>4. /\ Slack(k) \in Nat /\ Slack(k)' \in Nat /\ rows[k] \in Nat /\ used[k] \in Nat
      /\ open \in Nat /\ Unaccounted(k)' \in Nat /\ Room(k) \in Nat /\ Room(k)' \in Nat
      /\ Room(k)' <= Slack(k)'
  BY <1>3 DEF RoomTypes
<1>5. ShareOf(k, w)' = 0
  BY <1>1, <1>2, NoShareNext
<1>6. ShareOf(k, w) \in Nat
  BY ShareRange, <1>3
<1>7. Slack(k)' <= ShareOf(k, w)
  <2>1. CASE known
    <3>1. used' = read[w] /\ read[w][k] \in Nat
      BY <1>1, <2>1 DEF Apply, Reconciled
    <3>2. ShareOf(k, w) = IF read[w][k] < Limit[k] THEN Limit[k] - read[w][k] ELSE 0
      BY <1>2 DEF ShareOf
    <3>3. QED
      BY <3>1, <3>2, <1>3, <1>4 DEF Slack
  <2>2. CASE ~known
    <3>1. ~seeded'
      BY <2>2, <1>1 DEF Apply
    <3>2. Slack(k)' = 0
      BY <3>1 DEF Slack
    <3>3. QED
      BY <3>2, <1>6
  <2>3. QED
    BY <2>1, <2>2
<1>8. rows'[k] + ShareOf(k, w)' + Room(k)' + open
         <= rows[k] + ShareOf(k, w) + Room(k) + open'
  BY <1>2, <1>4, <1>5, <1>6, <1>7
<1>9. \A v \in Workers \ {w} : ShareOf(k, v)' = ShareOf(k, v)
  BY OthersKeep
<1>10. QED
  BY <1>8, <1>9, Moves

\* The rows are read.  Above the limit the count lets nothing through.  Below,
\* it may let through what is missing; but then all the others hold a count as
\* well and nobody asks the ledger, or one of them is not about to overwrite
\* it and has a unit at most.
LEMMA CountBounded ==
  ASSUME TypeOK, TypeOK', NEW k \in Quotas, NEW w \in Workers, Bounded(k),
         OnlyMoves(w), Count(w)
  PROVE  Bounded(k)'
<1> USE DEF Goto
<1>1. /\ pc \in [Workers -> Labels] /\ read \in [Workers -> [Quotas -> Nat]]
      /\ rows \in [Quotas -> Nat]
  BY DEF TypeOK
<1>2. /\ pc[w] = "count" /\ pc'[w] = "apply" /\ read'[w] = rows /\ resume' = resume
      /\ rows' = rows /\ open' = open /\ used' = used /\ seeded' = seeded
  BY <1>1 DEF Count, UsageSource, ledgerVars
<1>3. RoomTypes(k) /\ RoomTypes(k)' /\ Limit[k] \in Nat /\ Limit[k] >= 1
  BY RoomRange, RoomRangeNext, LimitIsPositive
<1>4. /\ Slack(k) \in Nat /\ Slack(k)' \in Nat /\ rows[k] \in Nat /\ open \in Nat
      /\ Room(k)' \in Nat /\ Room(k)' <= Limit[k]
  BY <1>3 DEF RoomTypes
<1>5. ShareOf(k, w) = 0
  BY <1>2, NoShare
<1>6. ShareOf(k, w)' = IF rows[k] < Limit[k] THEN Limit[k] - rows[k] ELSE 0
  BY <1>2 DEF ShareOf
<1>7. CASE rows[k] >= Limit[k]
  <2>1. ShareOf(k, w)' = 0
    BY <1>3, <1>4, <1>6, <1>7
  <2>2. Unaccounted(k)' = Unaccounted(k)
    <3>1. CASE w = Fetcher
      BY <1>2, <3>1 DEF Unaccounted
    <3>2. QED
      BY <3>1, OthersKeep
  <2>3. Slack(k)' = Slack(k)
    BY <1>2, <2>2, SlackSame
  <2>4. rows'[k] + ShareOf(k, w)' + Slack(k)' + open
           <= rows[k] + ShareOf(k, w) + Slack(k) + open'
    BY <1>2, <1>4, <1>5, <2>1, <2>3
  <2>5. QED
    BY <1>2, <2>4, Advances
<1>8. CASE rows[k] < Limit[k]
  <2> DEFINE g == Shares(k)'
             L == Limit[k]
             rest == Workers \ {w}
  <2>1. /\ L \in Nat /\ g[w] = L - rows[k] /\ g[w] \in 0..L
        /\ \A v \in Workers : g[v] = ShareOf(k, v)' /\ g[v] \in 0..L
    BY <1>3, <1>4, <1>6, <1>8, ShareRangeNext
  <2>2. Squares(k)' = Cardinality(Area(Workers, L, g))
    BY DEF Squares
  <2>3. /\ IsFiniteSet(Workers) /\ IsFiniteSet(rest) /\ Cardinality(Workers) * L \in Nat
        /\ Cardinality(rest) * L = Cardinality(Workers) * L - L
    BY <1>3, FiniteWorkers, OneLess
  <2>4. /\ Cardinality(Area(rest, L, g)) \in Nat
        /\ Cardinality(Area(rest, L, g)) <= Cardinality(rest) * L
    BY <2>1, <2>3, AreaSize
  <2>5. Cardinality(Area(Workers, L, g)) = Cardinality(Area(rest, L, g)) + g[w]
    BY <2>1, <2>3, AreaSplit
  <2>6. CASE \A v \in rest : pc[v] = "apply"
    <3>1. \A v \in Workers : pc'[v] = "apply"
      BY <1>2, <2>6 DEF OnlyMoves
    <3>2. Room(k)' = 0
      BY <3>1 DEF Room
    <3> HIDE DEF g, L, rest
    <3>3. rows[k] + Squares(k)' + 0 <= Cardinality(Workers) * L + 1 + open
      BY <1>4, <2>1, <2>2, <2>3, <2>4, <2>5
    <3>4. QED
      BY <1>2, <3>2, <3>3 DEF Bounded, L
  <2>7. CASE \E v \in rest : pc[v] # "apply"
    <3>1. PICK v \in rest : pc[v] # "apply"
      BY <2>7
    <3>2. pc'[v] = pc[v]
      BY <3>1 DEF OnlyMoves
    <3>3. ShareOf(k, v)' <= 1
      BY <3>1, <3>2 DEF ShareOf
    <3>4. g[v] \in 0..L /\ g[v] <= 1
      BY <2>1, <3>1, <3>3
    <3>5. Room(k)' <= L /\ Room(k)' \in Nat
      BY <1>4
    <3> HIDE DEF g, L
    <3>6. Cardinality(Area(rest, L, g)) = Cardinality(Area(rest \ {v}, L, g)) + g[v]
      BY <2>1, <2>3, <3>1, <3>4, AreaSplit
    <3>7. /\ IsFiniteSet(rest \ {v})
          /\ Cardinality(rest \ {v}) * L = Cardinality(rest) * L - L
      BY <2>1, <2>3, <3>1, OneLess
    <3>8. /\ Cardinality(Area(rest \ {v}, L, g)) \in Nat
          /\ Cardinality(Area(rest \ {v}, L, g)) <= Cardinality(rest \ {v}) * L
      BY <2>1, <3>7, AreaSize
    <3> HIDE DEF rest
    <3>9. rows[k] + Squares(k)' + Room(k)' <= Cardinality(Workers) * L + 1 + open
      BY <1>4, <2>1, <2>2, <2>3, <2>5, <3>4, <3>5, <3>6, <3>7, <3>8
    <3>10. QED
      BY <1>2, <3>9 DEF Bounded, L
  <2>8. QED
    BY <2>6, <2>7
<1>9. QED
  BY <1>3, <1>4, <1>7, <1>8

\* Without a call in flight nobody has anything to add.
Idle == \A w \in Workers : pc[w] = "idle"

LEMMA NoSquares == ASSUME NEW k \in Quotas PROVE Idle => Squares(k) = 0
<1> SUFFICES ASSUME Idle PROVE Squares(k) = 0
  OBVIOUS
<1>1. \A w \in Workers : Shares(k)[w] = 0
  BY DEF Shares, ShareOf, Idle
<1>2. Limit[k] \in Nat
  BY LimitIsPositive
<1>3. Area(Workers, Limit[k], Shares(k)) = {}
  BY <1>1, <1>2 DEF Area
<1>4. QED
  BY <1>3, FS_EmptySet DEF Squares

LEMMA NoSquaresNext == ASSUME NEW k \in Quotas, Idle' PROVE Squares(k)' = 0
<1>1. \A w \in Workers : Shares(k)'[w] = 0
  BY DEF Shares, ShareOf, Idle
<1>2. Limit[k] \in Nat
  BY LimitIsPositive
<1>3. Area(Workers, Limit[k], Shares(k)') = {}
  BY <1>1, <1>2 DEF Area
<1>4. QED
  BY <1>3, FS_EmptySet DEF Squares

\* Nobody moves, and neither the table nor the ledger gains.
LEMMA NobodyMoves ==
  ASSUME TypeOK, TypeOK', NEW k \in Quotas, Bounded(k),
         UNCHANGED callVars, open' = open, rows'[k] <= rows[k],
         ~seeded' \/ (seeded' = seeded /\ used' = used)
  PROVE  Bounded(k)'
<1>1. Squares(k)' = Squares(k)
  BY DEF Squares, Shares, ShareOf, callVars
<1>2. RoomTypes(k) /\ RoomTypes(k)' /\ Limit[k] \in Nat
  BY RoomRange, RoomRangeNext, LimitIsPositive
<1>3. Room(k)' <= Room(k)
  <2>1. CASE ~seeded'
    <3>1. Room(k)' = 0
      BY <2>1 DEF Room, Slack
    <3>2. QED
      BY <3>1, <1>2 DEF RoomTypes
  <2>2. CASE seeded' = seeded /\ used' = used
    <3>1. Room(k)' = Room(k)
      BY <2>2 DEF Room, Slack, Unaccounted, callVars
    <3>2. QED
      BY <3>1, <1>2 DEF RoomTypes
  <2>3. QED
    BY <2>1, <2>2
<1>4. /\ rows[k] \in Nat /\ rows'[k] \in Nat /\ open \in Nat /\ Squares(k) \in Nat
      /\ Room(k) \in Nat /\ Room(k)' \in Nat /\ Cardinality(Workers) * Limit[k] \in Nat
  BY <1>2, SquaresRange, BoundIsNat DEF RoomTypes
<1>5. QED
  BY <1>1, <1>3, <1>4 DEF Bounded

\* Every step keeps the fetcher alone with its quota.
LEMMA StepKind == TypeOK /\ KindInv /\ [Next]_vars => KindInv'
<1> SUFFICES ASSUME TypeOK, KindInv, [Next]_vars PROVE KindInv'
  OBVIOUS
<1> USE DEF Goto, Return, Continue, StartResync
<1>1. pc \in [Workers -> Labels] /\ kind \in [Workers -> Quotas]
  BY DEF TypeOK
<1>2. ASSUME NEW w \in Workers, Asks(w) \/ Proceeds(w) PROVE KindInv'
  <2>1. OnlyMoves(w)
    BY <1>2, StepOfOne
  <2>2. pc'[w] # "idle" => (kind'[w] = "media_bytes" <=> w = Fetcher)
    <3>1. CASE AdmitCapture(w)
      BY <1>1, <3>1, QuotasAssumption DEF AdmitCapture
    <3>2. ASSUME NEW q \in Quotas, AdmitMedia(w, q)
          PROVE (kind'[w] = "media_bytes" <=> w = Fetcher)
      BY <1>1, <3>2 DEF AdmitMedia
    <3>3. CASE \/ NeedsSeed(w) \/ Admit(w) \/ Verify(w) \/ AdmitVerified(w)
               \/ Count(w) \/ CountFails(w) \/ Apply(w) \/ StartAdd(w)
      <4>1. pc[w] # "idle" /\ kind' = kind
        BY <3>3 DEF NeedsSeed, Admit, Verify, AdmitVerified, Over, Allow, Count, CountFails,
           Apply, StartAdd
      <4>2. QED
        BY <4>1 DEF KindInv
    <3>4. CASE \/ RefuseMemoised(w) \/ RefuseVerified(w) \/ WriteNothing(w)
               \/ AddMediaBytes(w)
      BY <1>1, <3>4 DEF RefuseMemoised, RefuseVerified, WriteNothing, AddMediaBytes
    <3>5. CASE Write(w)
      <4>1. CASE w = Fetcher
        BY <1>1, <3>5, <4>1 DEF Write, KindInv
      <4>2. CASE w # Fetcher
        BY <1>1, <3>5, <4>2 DEF Write
      <4>3. QED
        BY <4>1, <4>2
    <3>6. QED
      BY <1>2, <3>1, <3>2, <3>3, <3>4, <3>5 DEF Asks, Proceeds
  <2>3. QED
    BY <2>1, <2>2 DEF OnlyMoves, KindInv
<1>3. CASE Restart
  BY <1>3 DEF Restart, KindInv
<1>4. CASE \/ Prune \/ (\E k \in Quotas : \E n \in 0..rows[k] : Shrink(k, n))
           \/ Evict \/ UNCHANGED vars
  BY <1>4 DEF Prune, Shrink, Evict, callVars, vars, KindInv
<1>5. QED
  BY <1>2, <1>3, <1>4 DEF Next

\* Every step keeps the bound of every quota.
LEMMA StepBounded == TypeOK /\ TypeOK' /\ KindInv /\ BoundInv /\ [Next]_vars => BoundInv'
<1> SUFFICES ASSUME TypeOK, TypeOK', KindInv, BoundInv, [Next]_vars, NEW k \in Quotas
             PROVE  Bounded(k)'
  BY DEF BoundInv
<1>1. Bounded(k)
  BY DEF BoundInv
<1>2. ASSUME NEW w \in Workers, Asks(w) \/ Proceeds(w) PROVE Bounded(k)'
  <2>1. OnlyMoves(w)
    BY <1>2, StepOfOne
  <2>2. CASE \/ Asks(w) \/ NeedsSeed(w) \/ RefuseMemoised(w) \/ Verify(w) \/ RefuseVerified(w)
             \/ CountFails(w) \/ StartAdd(w)
    BY <1>1, <2>1, <2>2, PassingCalls
  <2>3. CASE Admit(w)
    <3>1. /\ pc[w] \in {"volume", "decide", "recheck"} /\ Allow(w, kind[w])
          /\ ~seeded \/ used[kind[w]] < Limit[kind[w]]
      BY <2>3 DEF Admit
    <3>2. QED
      BY <1>1, <2>1, <3>1, GrantBounded
  <2>4. CASE AdmitVerified(w)
    <3>1. /\ pc[w] \in {"volume", "decide", "recheck"} /\ Allow(w, kind[w])
          /\ ~seeded \/ used[kind[w]] < Limit[kind[w]]
      BY <2>4 DEF AdmitVerified
    <3>2. QED
      BY <1>1, <2>1, <3>1, GrantBounded
  <2>5. CASE Write(w) \/ WriteNothing(w)
    BY <1>1, <2>1, <2>5, WriteBounded
  <2>6. CASE AddMediaBytes(w)
    BY <1>1, <2>1, <2>6, AddBounded
  <2>7. CASE Apply(w)
    BY <1>1, <2>1, <2>7, ApplyBounded
  <2>8. CASE Count(w)
    BY <1>1, <2>1, <2>8, CountBounded
  <2>9. QED
    BY <1>2, <2>2, <2>3, <2>4, <2>5, <2>6, <2>7, <2>8 DEF Proceeds
<1>3. CASE Prune \/ UNCHANGED vars
  <2>1. UNCHANGED callVars /\ rows' = rows /\ used' = used /\ seeded' = seeded /\ open' = open
    BY <1>3 DEF Prune, vars, ledgerVars, callVars
  <2>2. rows'[k] <= rows[k]
    BY <2>1 DEF TypeOK
  <2>3. QED
    BY <1>1, <2>1, <2>2, NobodyMoves
<1>4. ASSUME NEW q \in Quotas, NEW n \in 0..rows[q], Shrink(q, n) PROVE Bounded(k)'
  <2>1. UNCHANGED callVars /\ used' = used /\ seeded' = seeded /\ open' = open
    BY <1>4 DEF Shrink, ledgerVars
  <2>2. rows'[k] <= rows[k]
    BY <1>4 DEF Shrink, TypeOK
  <2>3. QED
    BY <1>1, <2>1, <2>2, NobodyMoves
<1>5. CASE Evict
  <2>1. UNCHANGED callVars /\ rows' = rows /\ ~seeded' /\ open' = open
    BY <1>5 DEF Evict, Forget
  <2>2. rows'[k] <= rows[k]
    BY <2>1 DEF TypeOK
  <2>3. QED
    BY <1>1, <2>1, <2>2, NobodyMoves
<1>6. CASE Restart
  <2>1. rows' = rows /\ ~seeded' /\ open' = open /\ Idle'
    BY <1>6 DEF Restart, Forget, Idle
  <2>2. Squares(k)' = 0
    BY <2>1, NoSquaresNext
  <2>3. Room(k)' = 0
    BY <2>1 DEF Room, Slack
  <2>4. RoomTypes(k) /\ Limit[k] \in Nat
    BY RoomRange, LimitIsPositive
  <2>5. /\ rows[k] \in Nat /\ open \in Nat /\ Squares(k) \in Nat /\ Room(k) \in Nat
        /\ Cardinality(Workers) * Limit[k] \in Nat
    BY <2>4, SquaresRange, BoundIsNat DEF RoomTypes
  <2>6. QED
    BY <1>1, <2>1, <2>2, <2>3, <2>5 DEF Bounded
<1>7. QED
  BY <1>2, <1>3, <1>4, <1>5, <1>6 DEF Next

(***************************************************************************)
(* How far a tenant gets past a limit: once the limit per goroutine, one   *)
(* unit, and what was granted without a seeded ledger, for any number of   *)
(* goroutines, any limits and any interleaving of admissions, counts read  *)
(* with the mutex released, evictions, failing queries and restarts.       *)
(***************************************************************************)
THEOREM QuotasOvershootBounded == Spec => []OvershootBounded
<1>1. Init => KindInv /\ BoundInv
  <2> SUFFICES ASSUME Init PROVE KindInv /\ BoundInv
    OBVIOUS
  <2>1. Idle
    BY DEF Init, Idle
  <2>2. ASSUME NEW k \in Quotas PROVE Bounded(k)
    <3>1. Squares(k) = 0
      BY <2>1, NoSquares
    <3>2. rows[k] = 0 /\ Room(k) = 0 /\ open = 0
      BY DEF Init, Zero, Room, Slack
    <3>3. QED
      BY <3>1, <3>2, BoundIsNat DEF Bounded
  <2>3. QED
    BY <2>1, <2>2 DEF Idle, KindInv, BoundInv
<1>2. TypeOK /\ BoundInv => OvershootBounded
  <2> SUFFICES ASSUME TypeOK, BoundInv, NEW k \in Quotas
               PROVE rows[k] <= Cardinality(Workers) * Limit[k] + 1 + open
    BY DEF OvershootBounded
  <2>1. Bounded(k) /\ RoomTypes(k) /\ Limit[k] \in Nat
    BY RoomRange, LimitIsPositive DEF BoundInv
  <2>2. /\ rows[k] \in Nat /\ open \in Nat /\ Squares(k) \in Nat /\ Room(k) \in Nat
        /\ Cardinality(Workers) * Limit[k] \in Nat
    BY <2>1, SquaresRange, BoundIsNat DEF RoomTypes
  <2>3. QED
    BY <2>1, <2>2 DEF Bounded
<1>3. QED
  BY <1>1, <1>2, QuotasTypes, StepTypeOK, StepKind, StepBounded, PTL DEF Spec
===============================================================================

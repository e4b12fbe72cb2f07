------------------------ MODULE MediaLifecycleProofs ------------------------
(***************************************************************************)
(* Theorems of MediaLifecycle, for any rows, contents, grace periods,      *)
(* batch sizes and number of failures.                                     *)
(***************************************************************************)
EXTENDS MediaLifecycle, FiniteSetTheorems, TLAPS

\* The part of TypeOK the other invariants need.
Typed ==
    /\ clock \in Time
    /\ retention \in Nat /\ pret \in Nat
    /\ rows \in [Rows -> RowType]
    /\ disk \in [Paths -> Time \cup {Gone}]
    /\ fpc \in {"idle", "temp", "mark"}
    /\ fqueue \subseteq [id : Rows, uid : Uids]
    /\ fpath \in Paths \cup {NoPath} /\ fbegin \in Time /\ ftemp \in BOOLEAN
    /\ leftover \subseteq Time
    /\ page \subseteq [id : Rows, path : Paths]
    /\ cand \subseteq Candidate

\* A row names a blob exactly while it is stored.
PathsOfRows == \A r \in Rows :
    /\ rows[r].st = "stored" => rows[r].path \in Paths
    /\ rows[r].st # "stored" => rows[r].path = NoPath
    /\ Exists(r) => rows[r].uid \in Uids

\* The batch holds each row once, and the row still waits for its download
\* or was deleted.
QueueInv == \A e \in fqueue :
    /\ rows[e.id].st \in {"pending", "deleted"}
    /\ \A f \in fqueue : f.id = e.id => f = e

\* The download in flight: what it writes is not there before, and it is young.
FlightInv ==
    /\ fpc # "idle" => fqueue # {} /\ fpath \in Paths
    /\ fpc # "idle" => fbegin <= clock /\ clock - fbegin <= MaxFlight
    /\ fpc = "temp" => ftemp /\ ~OnDisk(fpath)

\* The page in hand is still what the table says.
PageInv ==
    /\ ppc \in {"markPurged", "repair"} => page # {}
    /\ ppc \in {"idle", "stale", "purged", "disk", "sweep"} => page = {}
    /\ \A e \in page : /\ rows[e.id].st = "stored" /\ rows[e.id].path = e.path
                       /\ ppc \in {"expired", "markPurged"} => Expired(e.id, pret, clock)

\* The candidates of the sweep are the files that were seen, and those that
\* are to be unlinked are old, and older than any row that names them by now.
SweepInv ==
    /\ ppc \notin {"disk", "sweep"} => cand = {}
    /\ \A c \in cand : c.path # NoPath => disk[c.path] = c.at
    /\ ppc = "sweep" => \A c \in cand :
           /\ clock - c.at >= OrphanGrace
           /\ c.path # NoPath =>
                  \A r \in Rows : rows[r].path = c.path => rows[r].updated - c.at >= OrphanGrace

\* The rest of TypeOK, and what keeps a run within MaxFilesPerRun: the entries
\* of a page in hand are within it too.
Counters ==
    /\ retention \in Retentions \cup {DefaultRetention}
    /\ pret \in Retentions \cup {DefaultRetention, 0}
    /\ ppc \in {"idle", "expired", "markPurged", "stale", "purged", "rows", "repair",
                "disk", "sweep"}
    /\ pnow \in Time /\ more \in BOOLEAN
    /\ cur \in Nat /\ (ppc \notin {"disk", "sweep"} => cur \in Rows \cup {0})
    /\ rowCursor \in Rows \cup {0} /\ pathCursor \in Nat
    /\ events \in 0 .. MaxEvents
ScanInv ==
    /\ scan \in 0 .. MaxFilesPerRun
    /\ ppc \in {"rows", "repair"} =>
           IsFiniteSet(page) /\ scan + Cardinality(page) <= MaxFilesPerRun

Inv == Typed /\ PathsOfRows /\ QueueInv /\ FlightInv /\ PageInv /\ SweepInv
       /\ Counters /\ ScanInv

--------------------------------------------------------
(* Facts about the constants and the operators *)

\* What the constants give the prover.
LEMMA Constants ==
  /\ IsFiniteSet(Rows) /\ Rows \subseteq Nat /\ 0 \notin Rows
  /\ IsFiniteSet(Uids) /\ Uids \subseteq Nat /\ 0 \notin Uids
  /\ MaxTime \in Nat /\ TicksPerDay \in Nat /\ 0 < TicksPerDay
  /\ Retentions \subseteq Nat /\ DefaultRetention \in Nat
  /\ MaxFlight \in Nat /\ OrphanGrace \in Nat /\ MaxFlight < OrphanGrace
  /\ BatchSize \in Nat /\ MaxFilesPerRun \in Nat /\ 0 < MaxFilesPerRun
  /\ MaxEvents \in Nat /\ PendingMaxAge \in Nat /\ PurgedRowGrace \in Nat
  /\ Time \subseteq Nat /\ Gone \notin Time /\ 0 \in Time
<1>1. Cardinality(Uids) \in Nat
  BY IdsAreNumbers, FS_CardinalityType
<1>2. \A u \in Uids : u \in Nat /\ u # 0
  BY <1>1, IdsAreNumbers
<1>3. Rows \subseteq Nat /\ 0 \notin Rows
  BY IdsAreNumbers
<1>4. QED
  BY <1>2, <1>3, IdsAreNumbers, BoundsArePositive, GraceOutlastsADownload
  DEF Time, Gone

\* NoPath is no path, and a path of today is one.
LEMMA PathsExist ==
  /\ NoPath \notin Paths
  /\ \A u \in Uids, t \in Time : <<u, Day(t)>> \in Paths
<1>1. \A t \in Time : Day(t) \in Days
  BY Constants DEF Time, Days, Day
<1>2. QED
  BY <1>1, Constants DEF Paths, NoPath

NatLess == {ss \in Nat \X Nat : ss[1] < ss[2]}

\* A set of natural numbers has a least element.
LEMMA LeastElement ==
  ASSUME NEW S \in SUBSET Nat, S # {}
  PROVE  \E n \in S : \A m \in S : n <= m
<1>1. IsWellFoundedOn(NatLess, Nat)
  BY NatLessThanWellFounded, Zenon DEF OpToRel, NatLess
<1>2. PICK n \in S : \A m \in S : ~(<<m, n>> \in NatLess)
  BY <1>1, WFMin
<1>3. ASSUME NEW m \in S, m < n PROVE FALSE
  <2>1. <<m, n>> \in NatLess
    BY <1>3 DEF NatLess
  <2>2. QED
    BY <1>2, <2>1
<1>4. QED
  BY <1>3

\* The batch and the page in hand have a first entry.
LEMMA LowestById ==
  ASSUME NEW S, S # {}, \A e \in S : e.id \in Nat
  PROVE  Lowest(S, ById) \in S
<1>1. PICK n \in {e.id : e \in S} : \A m \in {e.id : e \in S} : n <= m
  <2>1. {e.id : e \in S} \in SUBSET Nat /\ {e.id : e \in S} # {}
    OBVIOUS
  <2>2. QED
    BY <2>1, LeastElement
<1>2. PICK e \in S : e.id = n
  OBVIOUS
<1>3. \A f \in S : ById(e) <= ById(f)
  BY <1>1, <1>2 DEF ById
<1>4. QED
  BY <1>3 DEF Lowest

\* FetchHead and PageHead are entries of what is in hand.
LEMMA Heads ==
  ASSUME Typed
  PROVE  /\ fqueue # {} => FetchHead \in fqueue
         /\ page # {} => PageHead \in page
  BY LowestById, Constants DEF Typed, FetchHead, PageHead

\* Row r is rewritten by an UPDATE that sets status and path.
Becomes(r, st, p) ==
    /\ rows' \in [Rows -> RowType]
    /\ \A q \in Rows : q # r => rows'[q] = rows[q]
    /\ rows'[r].st = st /\ rows'[r].path = p /\ rows'[r].updated = clock
    /\ rows'[r].uid = rows[r].uid /\ rows'[r].created = rows[r].created

\* Marked changes the status, the path and the update time of one row.
LEMMA MarkedRow ==
  ASSUME Typed, NEW r \in Rows, NEW st \in {"pending", "stored", "purged"},
         NEW p \in Paths \cup {NoPath}, rows' = Marked(r, st, p)
  PROVE  Becomes(r, st, p)
  BY DEF Typed, Marked, Becomes, RowType

\* What the statements by id do to a row that exists, and to one that does not.
LEMMA Statements ==
  ASSUME Typed, NEW r \in Rows
  PROVE  /\ ~Exists(r) /\ MarkPurged(r) => rows' = rows
         /\ Exists(r) /\ MarkPurged(r) => Becomes(r, "purged", NoPath)
         /\ ~Exists(r) /\ MarkPendingRetry(r) => rows' = rows
         /\ Exists(r) /\ MarkPendingRetry(r) => Becomes(r, "pending", NoPath)
         /\ \A p \in Paths :
                /\ ~Exists(r) /\ MarkStored(r, p) => rows' = rows
                /\ Exists(r) /\ MarkStored(r, p) => Becomes(r, "stored", p)
  BY MarkedRow DEF MarkPurged, MarkPendingRetry, MarkStored

\* A deleted row names nothing.
LEMMA DeletedRows ==
  ASSUME Typed, NEW S, Delete(S)
  PROVE  /\ rows' \in [Rows -> RowType]
         /\ \A r \in Rows : IF r \in S THEN rows'[r] = DeletedRow ELSE rows'[r] = rows[r]
         /\ DeletedRow.st = "deleted" /\ DeletedRow.path = NoPath
<1>1. DeletedRow \in RowType /\ DeletedRow.st = "deleted" /\ DeletedRow.path = NoPath
  BY Constants DEF DeletedRow, NoRow, RowType
<1>2. QED
  BY <1>1 DEF Typed, Delete

\* How purgeExpired and reconcileRows leave one entry of their page.
LEMMA ExpiredMoves ==
  ASSUME NEW rest, NEW full, NEW at, ExpiredGoesOn(rest, full, at)
  PROVE  /\ page' = rest /\ pret' = pret /\ cand' = cand
         /\ ppc' = "expired" \/ (ppc' = "stale" /\ page' = {})
  BY DEF ExpiredGoesOn, EnterStale

\* The same for a page of reconcileRows.
LEMMA RowsMoves ==
  ASSUME NEW rest, NEW full, NEW at, NEW n, RowsGoOn(rest, full, at, n)
  PROVE  /\ page' = rest /\ cand' = cand
         /\ pret' = pret \/ pret' = 0
         /\ ppc' = "rows" \/ (ppc' = "disk" /\ page' = {})
  BY DEF RowsGoOn, EnterDisk

-------------------------------------------------------------------------------
(* What the steps that write the table do *)

\* MarkStored and MarkPurged of the fetcher: the head of the batch is done.
LEMMA FetchMarkEffect ==
  ASSUME Typed, FlightInv, FetchMark
  PROVE  /\ FetchHead \in fqueue /\ fpath \in Paths
         /\ fqueue' = fqueue \ {FetchHead} /\ fpc' = "idle"
         /\ rows' = rows \/ (Exists(FetchHead.id) /\ Becomes(FetchHead.id, "stored", fpath))
<1>1. FetchHead \in fqueue /\ fpath \in Paths
  BY Heads DEF FetchMark, FlightInv
<1>2. FetchHead.id \in Rows
  BY <1>1 DEF Typed
<1>3. QED
  BY <1>1, <1>2, Statements DEF FetchMark, Dequeue, FetchVarsReset

\* A download given up for good writes off at most the first row of the batch.
LEMMA FetchGivesUpEffect ==
  ASSUME Typed, FetchGivesUp
  PROVE  /\ FetchHead \in fqueue
         /\ fqueue' \subseteq fqueue \ {FetchHead} /\ fpc' = "idle"
         /\ rows' = rows \/ (Exists(FetchHead.id) /\ Becomes(FetchHead.id, "purged", NoPath))
<1>1. FetchHead \in fqueue
  BY Heads DEF FetchGivesUp
<1>2. FetchHead.id \in Rows
  BY <1>1 DEF Typed
<1>3. QED
  BY <1>1, <1>2, Statements DEF FetchGivesUp, FetchVarsReset

\* The head of the page is written off, or requeued, and the phase goes on.
LEMMA MarkExpiredPurgedEffect ==
  ASSUME Typed, PageInv, MarkExpiredPurged
  PROVE  /\ PageHead \in page /\ Becomes(PageHead.id, "purged", NoPath)
         /\ page' = page \ {PageHead} /\ pret' = pret /\ cand' = cand
         /\ ppc' = "expired" \/ (ppc' = "stale" /\ page' = {})
<1>1. PageHead \in page
  BY Heads DEF MarkExpiredPurged, PageInv
<1>2. PageHead.id \in Rows /\ Exists(PageHead.id)
  BY <1>1 DEF Typed, PageInv, Exists
<1>3. QED
  BY <1>1, <1>2, Statements, ExpiredMoves DEF MarkExpiredPurged, PageTail

\* RepairRow writes off or requeues the first row of the page.
LEMMA RepairRowEffect ==
  ASSUME Typed, PageInv, RepairRow
  PROVE  /\ PageHead \in page
         /\ \/ Becomes(PageHead.id, "purged", NoPath)
            \/ Becomes(PageHead.id, "pending", NoPath)
         /\ page' = page \ {PageHead} /\ cand' = cand /\ pret' \in {pret, 0}
         /\ ppc' = "rows" \/ (ppc' = "disk" /\ page' = {})
<1>1. PageHead \in page
  BY Heads DEF RepairRow, PageInv
<1>2. PageHead.id \in Rows /\ Exists(PageHead.id)
  BY <1>1 DEF Typed, PageInv, Exists
<1>3. QED
  BY <1>1, <1>2, Statements, RowsMoves DEF RepairRow, PageTail

Seen(r) == [id |-> r, path |-> rows[r].path]

\* An entry of a page is a stored row as it is.
LEMMA ListedPages ==
  ASSUME Typed
  PROVE  /\ ListExpiredStored =>
               /\ page' \subseteq {Seen(r) : r \in {q \in Rows :
                                       rows[q].st = "stored" /\ Expired(q, pret, clock)}}
               /\ pret' = pret /\ cand' = cand
               /\ ppc' = "expired" \/ (ppc' = "stale" /\ page' = {})
         /\ ListStoredPage =>
               /\ page' \subseteq {Seen(r) : r \in {q \in Rows : rows[q].st = "stored"}}
               /\ pret' \in {pret, 0} /\ cand' = cand
               /\ ppc' = "rows" \/ (ppc' = "disk" /\ page' = {})
<1>1. ASSUME ListExpiredStored
      PROVE  \E P \in SUBSET {Seen(r) : r \in {q \in Rows :
                 rows[q].st = "stored" /\ Expired(q, pret, clock)}} :
                 ExpiredGoesOn(P, Cardinality(P) = BatchSize, cur)
  BY <1>1 DEF ListExpiredStored, First, PageOf, Seen
<1>2. ASSUME ListStoredPage
      PROVE  \E P \in SUBSET {Seen(r) : r \in {q \in Rows : rows[q].st = "stored"}} :
                 RowsGoOn(P, Cardinality(P) = Least(BatchSize, MaxFilesPerRun - scan), cur, scan)
  BY <1>2 DEF ListStoredPage, First, PageOf, Seen
<1>3. QED
  BY <1>1, <1>2, ExpiredMoves, RowsMoves

-------------------------------------------------------------------------------
(* LIMIT with ORDER BY *)

\* A finite set has an element with the greatest key.
LEMMA GreatestKey ==
  ASSUME NEW S, IsFiniteSet(S), S # {}, NEW K \in [S -> Nat]
  PROVE  \E x \in S : \A y \in S : K[y] <= K[x]
<1> DEFINE Above(x) == {y \in S : K[y] > K[x]}
<1>1. IsWellFoundedOn(StrictSubsetOrdering(S), SUBSET S)
  BY FS_StrictSubsetOrderingWellFounded, FS_FiniteSubsetsOfFinite
<1>2. PICK U \in {Above(x) : x \in S} :
          \A V \in {Above(x) : x \in S} : ~(<<V, U>> \in StrictSubsetOrdering(S))
  <2>1. \A x \in S : Above(x) \in SUBSET S
    OBVIOUS
  <2> HIDE DEF Above
  <2>2. QED
    <3>1. {Above(x) : x \in S} \subseteq SUBSET S /\ {Above(x) : x \in S} # {}
      BY <2>1
    <3>2. QED
      BY <1>1, <3>1, WFMin
<1>3. PICK x \in S : U = Above(x)
  OBVIOUS
<1>4. ASSUME NEW z \in S, K[z] > K[x] PROVE FALSE
  <2>1. Above(z) \subseteq Above(x) /\ z \in Above(x) /\ z \notin Above(z)
    BY <1>4
  <2>2. <<Above(z), Above(x)>> \in StrictSubsetOrdering(S)
    BY <2>1 DEF StrictSubsetOrdering
  <2>3. QED
    BY <1>2, <1>3, <2>2
<1>5. QED
  BY <1>4

\* LIMIT n returns at most n rows, if no two of them have the same key.
LEMMA LimitHolds ==
  ASSUME NEW S, IsFiniteSet(S), NEW K \in [S -> Nat], NEW n \in Nat,
         \A x, y \in S : K[x] = K[y] => x = y
  PROVE  LET F == {x \in S : Cardinality({y \in S : K[y] < K[x]}) < n}
         IN  IsFiniteSet(F) /\ Cardinality(F) <= n
<1> DEFINE Below(x) == {y \in S : K[y] < K[x]}
           F == {x \in S : Cardinality(Below(x)) < n}
<1>1. IsFiniteSet(F)
  BY FS_Subset
<1>2. CASE F = {}
  <2> HIDE DEF F
  <2>1. IsFiniteSet(F) /\ Cardinality(F) <= n
    BY <1>2, FS_EmptySet
  <2>2. QED
    BY <2>1 DEF F
<1>3. CASE F # {}
  <2>1. PICK x \in F : \A y \in F : K[y] <= K[x]
    <3> DEFINE G == [y \in F |-> K[y]]
    <3>1. G \in [F -> Nat]
      OBVIOUS
    <3>2. \E x \in F : \A y \in F : G[y] <= G[x]
      <4> HIDE DEF F, G
      <4>1. QED
        BY <1>1, <1>3, <3>1, GreatestKey
    <3>3. QED
      BY <3>2
  <2>2. F \ {x} \subseteq Below(x) /\ Below(x) \subseteq S
    <3>1. ASSUME NEW y \in F, y # x PROVE K[y] < K[x]
      BY <2>1, <3>1
    <3>2. QED
      BY <3>1
  <2>3. IsFiniteSet(Below(x)) /\ Cardinality(F \ {x}) <= Cardinality(Below(x))
    BY <2>2, FS_Subset
  <2>4. Cardinality(F) \in Nat /\ Cardinality(F \ {x}) = Cardinality(F) - 1
    <3> HIDE DEF F
    <3>1. QED
      BY <1>1, FS_RemoveElement, FS_CardinalityType
  <2>5. Cardinality(Below(x)) < n /\ Cardinality(Below(x)) \in Nat
    BY <2>1, <2>3, FS_CardinalityType
  <2>6. QED
    BY <1>1, <2>3, <2>4, <2>5
<1>4. QED
  BY <1>1, <1>2, <1>3

\* A number is determined by its two digits.
LEMMA Digits ==
  ASSUME NEW W \in Nat
  PROVE  \A a, b \in Nat : \A i, j \in 0 .. (W - 1) :
             a * W + i = b * W + j => a = b /\ i = j
<1>1. ASSUME NEW x \in Nat, NEW y \in Nat, x < y PROVE x * W + W <= y * W
  <2>1. y * W - (x * W + W) = (y - x - 1) * W
    BY <1>1
  <2>2. (y - x - 1) * W >= 0
    BY <1>1
  <2>3. QED
    BY <2>1, <2>2
<1>2. SUFFICES ASSUME NEW a \in Nat, NEW b \in Nat,
                      NEW i \in 0 .. (W - 1), NEW j \in 0 .. (W - 1), a * W + i = b * W + j
               PROVE  a = b /\ i = j
  OBVIOUS
<1>3. a = b
  BY <1>1, <1>2
<1>4. QED
  BY <1>2, <1>3

\* A page of the catalogue has at most as many entries as its limit.
LEMMA PageIsBounded ==
  ASSUME NEW Q \in SUBSET Rows, NEW k \in Nat
  PROVE  LET P == First(k, PageOf(Q), ById) IN IsFiniteSet(P) /\ Cardinality(P) <= k
<1> DEFINE S == PageOf(Q)
           K == [e \in S |-> e.id]
           f == [r \in Q |-> [id |-> r, path |-> rows[r].path]]
<1>1. IsFiniteSet(S)
  <2>1. IsFiniteSet(Q)
    BY Constants, FS_Subset
  <2>2. f \in Surjection(Q, S)
    BY DEF Surjection, PageOf
  <2>3. QED
    BY <2>1, <2>2, FS_Surjection
<1>2. K \in [S -> Nat] /\ \A x, y \in S : K[x] = K[y] => x = y
  BY Constants DEF PageOf
<1>3. First(k, S, ById) = {x \in S : Cardinality({y \in S : K[y] < K[x]}) < k}
  <2>1. \A x \in S : {y \in S : ById(y) < ById(x)} = {y \in S : K[y] < K[x]}
    BY DEF ById
  <2>2. QED
    BY <2>1 DEF First
<1> HIDE DEF S, K
<1>4. QED
  BY <1>1, <1>2, <1>3, LimitHolds DEF S

\* A day and a position within it determine a file of the tree.
LEMMA TreeIsTyped ==
  ASSUME Typed, NEW c \in Tree
  PROVE  /\ c.at \in Time /\ c.at \in Nat
         /\ c.path # NoPath => /\ c.path \in Paths /\ c.at = disk[c.path]
                              /\ c.path[1] \in Uids /\ c.path[2] \in Nat
         /\ c = [path |-> c.path, at |-> c.at]
<1>1. CASE c \in {[path |-> p, at |-> disk[p]] : p \in {q \in Paths : OnDisk(q)}}
  <2>1. PICK p \in Paths : OnDisk(p) /\ c = [path |-> p, at |-> disk[p]]
    BY <1>1
  <2>2. disk[p] \in Time /\ disk[p] \in Nat
    BY <2>1, Constants DEF Typed, OnDisk
  <2>3. p[1] \in Uids /\ p[2] \in Nat
    BY DEF Paths, Days
  <2>4. QED
    BY <2>1, <2>2, <2>3
<1>2. CASE c \in {[path |-> NoPath, at |-> t] : t \in Temps}
  <2>1. PICK t \in Temps : c = [path |-> NoPath, at |-> t]
    BY <1>2
  <2>2. t \in Time /\ t \in Nat
    BY Constants DEF Typed, Temps
  <2>3. QED
    BY <2>1, <2>2
<1>3. QED
  BY <1>1, <1>2 DEF Tree

\* The tree is finite, and no two files of it share a position of the walk.
LEMMA TreeIsOrdered ==
  ASSUME Typed
  PROVE  /\ IsFiniteSet(Tree)
         /\ \A c \in Tree : Position(c) \in Nat
         /\ \A c, d \in Tree : Position(c) = Position(d) => c = d
<1> DEFINE U == Cardinality(Uids)
           T == TicksPerDay
           day(c) == IF c.path = NoPath THEN Day(c.at) ELSE c.path[2]
           off(c) == IF c.path = NoPath THEN (c.at % T) + 1 ELSE T + c.path[1]
<1>1. U \in Nat /\ T \in Nat /\ 0 < T /\ DirWidth = T + U + 1 /\ DirWidth \in Nat
      /\ Uids = 1 .. U
  BY Constants, FS_CardinalityType, IdsAreNumbers DEF DirWidth
<1>2. ASSUME NEW c \in Tree
      PROVE  /\ day(c) \in Nat /\ off(c) \in 0 .. (DirWidth - 1)
             /\ Position(c) = day(c) * DirWidth + off(c)
             /\ c.path = NoPath <=> off(c) <= T
  <2>1. c.at \in Nat
    BY TreeIsTyped
  <2>2. CASE c.path = NoPath
    <3>1. c.at % T \in 0 .. (T - 1) /\ Day(c.at) \in Nat
      BY <1>1, <2>1 DEF Day
    <3>2. off(c) = (c.at % T) + 1 /\ day(c) = Day(c.at)
      BY <2>2
    <3>3. Position(c) = Day(c.at) * DirWidth + (c.at % T) + 1
      BY <2>2 DEF Position
    <3> HIDE DEF U, T, day, off
    <3>4. Day(c.at) * DirWidth \in Nat
      BY <1>1, <3>1
    <3>5. QED
      BY <1>1, <2>2, <3>1, <3>2, <3>3, <3>4
  <2>3. CASE c.path # NoPath
    <3>1. c.path[1] \in 1 .. U /\ c.path[2] \in Nat
      BY <1>1, <2>3, TreeIsTyped
    <3>2. off(c) = T + c.path[1] /\ day(c) = c.path[2]
      BY <2>3
    <3>3. Position(c) = c.path[2] * DirWidth + (T + c.path[1])
      BY <1>1, <2>3, <3>1 DEF Position
    <3> HIDE DEF U, T, day, off
    <3>4. QED
      BY <1>1, <2>3, <3>1, <3>2, <3>3
  <2>4. QED
    BY <2>2, <2>3
<1>3. ASSUME NEW c \in Tree, NEW d \in Tree, day(c) = day(d), off(c) = off(d)
      PROVE  c = d
  <2>1. CASE c.path = NoPath
    <3>1. d.path = NoPath
      BY <1>2, <1>3, <2>1
    <3>2. c.at \in Nat /\ d.at \in Nat
      BY TreeIsTyped
    <3>3. c.at \div T = d.at \div T /\ c.at % T = d.at % T
      <4>1. c.at % T \in Nat /\ d.at % T \in Nat
        BY <1>1, <3>2
      <4>2. QED
        BY <1>3, <2>1, <3>1, <4>1 DEF Day
    <3>4. \A t \in Nat : t = T * (t \div T) + (t % T)
      BY <1>1
    <3>5. c.at = d.at
      BY <3>2, <3>3, <3>4
    <3>6. QED
      BY <2>1, <3>1, <3>5, TreeIsTyped
  <2>2. CASE c.path # NoPath
    <3>1. d.path # NoPath
      BY <1>2, <1>3, <2>2
    <3>2. c.path \in Paths /\ d.path \in Paths /\ c.at = disk[c.path] /\ d.at = disk[d.path]
          /\ c.path[1] \in Nat /\ d.path[1] \in Nat
      BY <2>2, <3>1, TreeIsTyped, Constants
    <3>3. c.path[1] = d.path[1] /\ c.path[2] = d.path[2]
      BY <1>1, <1>3, <2>2, <3>1, <3>2
    <3>4. c.path = d.path
      BY <3>2, <3>3 DEF Paths
    <3>5. QED
      BY <3>2, <3>4, TreeIsTyped
  <2>3. QED
    BY <2>1, <2>2
<1>4. IsFiniteSet(Tree)
  <2>1. IsFiniteSet({[path |-> p, at |-> disk[p]] : p \in {q \in Paths : OnDisk(q)}})
    <3> DEFINE S == {q \in Paths : OnDisk(q)}
               f == [p \in S |-> [path |-> p, at |-> disk[p]]]
    <3>1. IsFiniteSet(Days)
      BY Constants, FS_Interval DEF Days
    <3>2. IsFiniteSet(S)
      BY <3>1, Constants, FS_Product, FS_Subset DEF Paths
    <3>3. f \in Surjection(S, {[path |-> p, at |-> disk[p]] : p \in S})
      BY DEF Surjection
    <3>4. QED
      BY <3>2, <3>3, FS_Surjection
  <2>2. IsFiniteSet({[path |-> NoPath, at |-> t] : t \in Temps})
    <3> DEFINE f == [t \in Temps |-> [path |-> NoPath, at |-> t]]
    <3>1. Temps \subseteq Time /\ IsFiniteSet(Time)
      BY Constants, FS_Interval DEF Temps, Time, Typed
    <3>2. IsFiniteSet(Temps)
      BY <3>1, FS_Subset
    <3>3. f \in Surjection(Temps, {[path |-> NoPath, at |-> t] : t \in Temps})
      BY DEF Surjection
    <3>4. QED
      BY <3>2, <3>3, FS_Surjection
  <2>3. QED
    BY <2>1, <2>2, FS_Union DEF Tree
<1> HIDE DEF U, T, day, off
<1>5. \A c \in Tree : Position(c) \in Nat
  <2>1. ASSUME NEW c \in Tree PROVE Position(c) \in Nat
    <3>1. /\ day(c) \in Nat /\ off(c) \in Nat
          /\ Position(c) = day(c) * DirWidth + off(c)
      BY <1>1, <1>2
    <3>2. QED
      BY <1>1, <3>1
  <2>2. QED
    BY <2>1
<1>6. ASSUME NEW c \in Tree, NEW d \in Tree, Position(c) = Position(d) PROVE c = d
  <2>1. /\ day(c) \in Nat /\ off(c) \in 0 .. (DirWidth - 1)
        /\ day(d) \in Nat /\ off(d) \in 0 .. (DirWidth - 1)
        /\ day(c) * DirWidth + off(c) = day(d) * DirWidth + off(d)
    BY <1>2, <1>6
  <2>2. day(c) = day(d) /\ off(c) = off(d)
    <3>1. DirWidth \in Nat
      BY <1>1
    <3>2. \A a, b \in Nat : \A i, j \in 0 .. (DirWidth - 1) :
              a * DirWidth + i = b * DirWidth + j => a = b /\ i = j
      BY <3>1, Digits
    <3>3. QED
      BY <2>1, <3>2
  <2>3. QED
    BY <1>3, <2>2
<1>7. QED
  BY <1>4, <1>5, <1>6

\* A batch of the walk has at most as many files as its limit, and a last one.
LEMMA WalkIsBounded ==
  ASSUME Typed, NEW k \in Nat
  PROVE  LET B == First(k, Ahead, Position)
         IN  /\ IsFiniteSet(B) /\ Cardinality(B) <= k
             /\ \A c \in B : Position(c) \in Nat
             /\ Ahead # {} /\ k > 0 =>
                    \E n \in {Position(c) : c \in B} : \A c \in B : n >= Position(c)
<1> DEFINE K == [c \in Ahead |-> Position(c)]
           B == First(k, Ahead, Position)
<1>1. IsFiniteSet(Ahead) /\ K \in [Ahead -> Nat] /\ \A x, y \in Ahead : K[x] = K[y] => x = y
  <2>1. Ahead \subseteq Tree
    BY DEF Ahead
  <2>2. QED
    BY <2>1, TreeIsOrdered, FS_Subset
<1>2. B = {x \in Ahead : Cardinality({y \in Ahead : K[y] < K[x]}) < k}
  <2>1. \A x \in Ahead : {y \in Ahead : Position(y) < Position(x)} = {y \in Ahead : K[y] < K[x]}
    OBVIOUS
  <2>2. QED
    BY <2>1 DEF First
<1>3. IsFiniteSet(B) /\ Cardinality(B) <= k
  <2> HIDE DEF K, B
  <2>1. LET F == {x \in Ahead : Cardinality({y \in Ahead : K[y] < K[x]}) < k}
        IN  IsFiniteSet(F) /\ Cardinality(F) <= k
    BY <1>1, LimitHolds
  <2>2. QED
    BY <1>2, <2>1
<1>4. ASSUME B # {}
      PROVE  \E n \in {Position(c) : c \in B} : \A c \in B : n >= Position(c)
  <2> DEFINE G == [c \in B |-> Position(c)]
  <2>1. B \subseteq Ahead
    BY DEF First
  <2>2. \A c \in B : Position(c) \in Nat
    BY <2>1, TreeIsOrdered DEF Ahead
  <2>3. \E x \in B : \A y \in B : G[y] <= G[x]
    <3>1. G \in [B -> Nat]
      BY <2>2
    <3> HIDE DEF B, G
    <3>2. QED
      BY <1>3, <1>4, <3>1, GreatestKey
  <2>4. PICK x \in B : \A y \in B : Position(y) <= Position(x)
    BY <2>3
  <2>5. QED
    BY <2>2, <2>4
<1>5. ASSUME Ahead # {}, k > 0 PROVE B # {}
  <2>1. {K[c] : c \in Ahead} \in SUBSET Nat /\ {K[c] : c \in Ahead} # {}
    BY <1>1, <1>5
  <2> HIDE DEF K, B
  <2>2. PICK n \in {K[c] : c \in Ahead} : \A m \in {K[c] : c \in Ahead} : n <= m
    BY <2>1, LeastElement
  <2>3. PICK x \in Ahead : K[x] = n
    BY <2>2
  <2>4. {y \in Ahead : K[y] < K[x]} = {}
    BY <1>1, <2>2, <2>3
  <2>5. QED
    BY <1>2, <1>5, <2>3, <2>4, FS_EmptySet
<1>6. \A c \in B : Position(c) \in Nat
  BY <1>1 DEF First
<1>7. QED
  BY <1>3, <1>4, <1>5, <1>6

-------------------------------------------------------------------------------
(* The invariant *)

\* The table and the disk are empty of what the invariant speaks of.
LEMMA InvInit == Init => Inv
<1> SUFFICES ASSUME Init PROVE Inv
  OBVIOUS
<1>1. \A r \in Rows : /\ rows[r] \in RowType /\ rows[r].path = NoPath
                      /\ rows[r].st \in {"none", "pending"}
                      /\ Exists(r) => rows[r].uid \in Uids
  BY Constants DEF Init, NoRow, NewRow, RowType, Exists
<1>2. Typed
  BY <1>1, Constants DEF Init, Typed
<1>3. PathsOfRows
  BY <1>1 DEF PathsOfRows
<1>4. Counters
  <2>1. /\ retention = DefaultRetention /\ pret = 0 /\ ppc = "idle" /\ pnow = 0
        /\ more = FALSE /\ cur = 0 /\ rowCursor = 0 /\ pathCursor = 0 /\ events = 0
    BY DEF Init
  <2>2. events \in 0 .. MaxEvents /\ pnow \in Time
    BY <2>1, Constants
  <2>3. QED
    BY <2>1, <2>2 DEF Counters
<1>5. ScanInv
  BY Constants DEF Init, ScanInv
<1>6. QED
  BY <1>2, <1>3, <1>4, <1>5
  DEF Init, Inv, QueueInv, FlightInv, PageInv, SweepInv

\* Every step keeps the types.
LEMMA TypedStep ==
  Typed /\ PathsOfRows /\ FlightInv /\ PageInv /\ [Next]_vars
  => Typed'
<1> SUFFICES ASSUME Typed, PathsOfRows, FlightInv, PageInv, [Next]_vars PROVE Typed'
  OBVIOUS
<1> USE Constants, PathsExist DEF Typed, PathsOfRows, FlightInv, PageInv, Exists
<1>1. CASE UNCHANGED vars
  BY <1>1 DEF vars, fetchVars, purgeVars, cursors
<1>2. ASSUME NEW r \in Rows, NEW u \in Uids, Save(r, u) PROVE Typed'
  BY <1>2 DEF Save, NewRow, RowType, fetchVars, purgeVars, cursors
<1>3. ASSUME NEW r \in Rows, NEW u \in Uids, SaveAgain(r, u) PROVE Typed'
  <2>1. rows' = [rows EXCEPT ![r] = [rows[r] EXCEPT !.uid = u, !.updated = clock]]
    BY <1>3 DEF SaveAgain
  <2>2. [rows[r] EXCEPT !.uid = u, !.updated = clock] \in RowType
    <3>1. rows[r] \in RowType /\ u \in Uids /\ clock \in Time
      BY DEF Typed
    <3>2. QED
      BY <3>1, Zenon DEF RowType
  <2>3. QED
    BY <1>3, <2>1, <2>2 DEF SaveAgain, fetchVars, purgeVars, cursors
<1>4. ASSUME NEW d \in Retentions, SetRetentionDays(d) PROVE Typed'
  BY <1>4 DEF SetRetentionDays, fetchVars, purgeVars, cursors
<1>5. CASE Tick
  <2>1. clock' \in Time
    BY <1>5 DEF Tick, Time
  <2>2. QED
    BY <1>5, <2>1 DEF Tick, fetchVars, purgeVars, cursors
<1>6. CASE FetchList
  BY <1>6 DEF FetchList, First, ById, Exists, fetchVars, purgeVars, cursors
<1>7. CASE FetchStart
  <2>1. FetchHead \in fqueue
    BY <1>7, Heads DEF FetchStart
  <2>2. fpath' \in Paths
    BY <1>7, <2>1 DEF FetchStart
  <2>3. QED
    BY <1>7, <2>2 DEF FetchStart, OnDisk, fetchVars, purgeVars, cursors
<1>8. CASE FetchPublish
  BY <1>8 DEF FetchPublish, OnDisk, fetchVars, purgeVars, cursors
<1>9. CASE FetchMark
  <2>1. rows' \in [Rows -> RowType]
    BY <1>9, FetchMarkEffect DEF Becomes
  <2>2. QED
    BY <1>9, <2>1
    DEF FetchMark, Dequeue, FetchVarsReset, fetchVars, purgeVars, cursors
<1>10. CASE FetchGivesUp
  <2>1. rows' \in [Rows -> RowType]
    BY <1>10, FetchGivesUpEffect DEF Becomes
  <2>2. QED
    BY <1>10, <2>1 DEF FetchGivesUp, FetchVarsReset, fetchVars, purgeVars, cursors
<1>11. CASE FetchPostponed
  BY <1>11
  DEF FetchPostponed, Dequeue, FetchVarsReset, fetchVars, purgeVars, cursors
<1>12. CASE ListTenantsForRetention
  BY <1>12 DEF ListTenantsForRetention, fetchVars, purgeVars, cursors
<1>13. CASE ListExpiredStored
  <2>1. page' \subseteq [id : Rows, path : Paths] /\ pret' = pret /\ cand' = cand
    BY <1>13, ListedPages DEF Seen
  <2>2. QED
    BY <1>13, <2>1 DEF ListExpiredStored, fetchVars, purgeVars, cursors
<1>14. CASE UnlinkExpired
  BY <1>14 DEF UnlinkExpired, fetchVars, purgeVars, cursors
<1>15. CASE MarkExpiredPurged
  <2>1. rows' \in [Rows -> RowType]
    BY <1>15, MarkExpiredPurgedEffect DEF Becomes
  <2>2. QED
    BY <1>15, <2>1, MarkExpiredPurgedEffect
    DEF MarkExpiredPurged, fetchVars, purgeVars, cursors
<1>16. CASE DeleteStalePending
  BY <1>16, DeletedRows DEF DeleteStalePending, fetchVars, purgeVars, cursors
<1>17. CASE DeletePurged
  BY <1>17, DeletedRows DEF DeletePurged, EnterRows, fetchVars, purgeVars, cursors
<1>18. CASE ListStoredPage
  <2>1. page' \subseteq [id : Rows, path : Paths] /\ pret' \in {pret, 0} /\ cand' = cand
    BY <1>18, ListedPages DEF Seen
  <2>2. QED
    BY <1>18, <2>1 DEF ListStoredPage, fetchVars, purgeVars, cursors
<1>19. CASE StatStored
  <2>1. page' \subseteq page /\ pret' \in {pret, 0} /\ cand' = cand
    BY <1>19, RowsMoves DEF StatStored, PageTail
  <2>2. QED
    BY <1>19, <2>1 DEF StatStored, fetchVars, purgeVars, cursors
<1>20. CASE RepairRow
  <2>1. rows' \in [Rows -> RowType]
    BY <1>20, RepairRowEffect DEF Becomes
  <2>2. page' \subseteq page /\ pret' \in {pret, 0} /\ cand' = cand
    BY <1>20, RepairRowEffect
  <2>3. QED
    BY <1>20, <2>1, <2>2 DEF RepairRow, fetchVars, purgeVars, cursors
<1>21. CASE Walk
  <2>1. Tree \subseteq Candidate
    BY DEF Tree, Candidate, Temps, OnDisk
  <2>2. cand' \subseteq Tree
    BY <1>21 DEF Walk, First, Ahead
  <2>3. QED
    BY <1>21, <2>1, <2>2 DEF Walk, fetchVars, purgeVars, cursors
<1>22. CASE SweepBatch
  BY <1>22 DEF SweepBatch, Referenced, fetchVars, purgeVars, cursors
<1>23. ASSUME NEW c \in cand, SweepUnlink(c) PROVE Typed'
  BY <1>23 DEF SweepUnlink, SweepGoesOn, OnDisk, fetchVars, purgeVars, cursors
<1>24. CASE DiskDone
  BY <1>24 DEF DiskDone, PurgeIdle, fetchVars, purgeVars, cursors
<1>25. CASE RefuseExpired
  BY <1>25, ExpiredMoves DEF RefuseExpired, PageTail, fetchVars, purgeVars, cursors
<1>26. ASSUME NEW c \in cand, RefuseSweep(c) PROVE Typed'
  BY <1>26 DEF RefuseSweep, SweepGoesOn, fetchVars, purgeVars, cursors
<1>27. CASE PhaseFails
  BY <1>27
  DEF PhaseFails, EnterStale, EnterRows, EnterDisk, PurgeIdle, fetchVars, purgeVars,
      cursors
<1>28. CASE Crash
  BY <1>28
  DEF Crash, Temps, FetchVarsReset, PurgeIdle, fetchVars, purgeVars, cursors
<1>29. QED
  BY <1>1, <1>2, <1>3, <1>4, <1>5, <1>6, <1>7, <1>8, <1>9, <1>10, <1>11, <1>12,
     <1>13, <1>14, <1>15, <1>16, <1>17, <1>18, <1>19, <1>20, <1>21, <1>22, <1>23,
     <1>24, <1>25, <1>26, <1>27, <1>28
  DEF Next, Fetch, Purge

\* A path comes with the status stored, and goes with it.
LEMMA RowsStep ==
  Typed /\ PathsOfRows /\ FlightInv /\ PageInv /\ [Next]_vars
  => PathsOfRows'
<1> SUFFICES ASSUME Typed, PathsOfRows, FlightInv, PageInv, [Next]_vars
    PROVE  PathsOfRows'
  OBVIOUS
<1> USE PathsExist DEF Typed, PathsOfRows, Exists
<1>1. CASE UNCHANGED rows
  BY <1>1
<1>2. ASSUME NEW r \in Rows, NEW u \in Uids, Save(r, u) PROVE PathsOfRows'
  BY <1>2 DEF Save, NewRow
<1>3. ASSUME NEW r \in Rows, NEW u \in Uids, SaveAgain(r, u) PROVE PathsOfRows'
  <2>1. \A q \in Rows : rows'[q].st = rows[q].st /\ rows'[q].path = rows[q].path
    BY <1>3 DEF SaveAgain, RowType
  <2>2. \A q \in Rows : rows'[q].uid = rows[q].uid \/ rows'[q].uid = u
    BY <1>3 DEF SaveAgain, RowType
  <2>3. QED
    BY <2>1, <2>2
<1>4. CASE FetchMark
  BY <1>4, FetchMarkEffect DEF Becomes
<1>5. CASE FetchGivesUp
  BY <1>5, FetchGivesUpEffect DEF Becomes
<1>6. CASE MarkExpiredPurged
  BY <1>6, MarkExpiredPurgedEffect DEF Becomes, PageInv
<1>7. CASE DeleteStalePending
  BY <1>7, DeletedRows DEF DeleteStalePending
<1>8. CASE DeletePurged
  BY <1>8, DeletedRows DEF DeletePurged
<1>9. CASE RepairRow
  BY <1>9, RepairRowEffect DEF Becomes, PageInv
<1>10. QED
  BY <1>1, <1>2, <1>3, <1>4, <1>5, <1>6, <1>7, <1>8, <1>9
  DEF Next, Fetch, Purge, vars, SetRetentionDays, Tick, FetchList, FetchStart,
      FetchPublish, FetchPostponed, ListTenantsForRetention, ListExpiredStored,
      UnlinkExpired, ListStoredPage, StatStored, Walk, SweepBatch, SweepUnlink,
      DiskDone, RefuseExpired, RefuseSweep, PhaseFails, Crash

\* What was listed as pending stays so until its download is marked, unless
\* the pass deletes it: the retention pass never touches it otherwise.
LEMMA QueueStep ==
  Typed /\ QueueInv /\ FlightInv /\ PageInv /\ [Next]_vars
  => QueueInv'
<1> SUFFICES ASSUME Typed, QueueInv, FlightInv, PageInv, [Next]_vars PROVE QueueInv'
  OBVIOUS
<1> USE DEF Typed, QueueInv
<1>1. CASE UNCHANGED <<rows, fqueue>>
  BY <1>1
<1>2. ASSUME NEW r \in Rows, NEW u \in Uids, Save(r, u) PROVE QueueInv'
  BY <1>2 DEF Save, fetchVars
<1>3. ASSUME NEW r \in Rows, NEW u \in Uids, SaveAgain(r, u) PROVE QueueInv'
  <2>1. \A q \in Rows : rows'[q].st = rows[q].st
    BY <1>3 DEF SaveAgain
  <2>2. QED
    BY <1>3, <2>1 DEF SaveAgain, fetchVars
<1>4. CASE FetchList
  <2>1. \A e \in fqueue' : rows[e.id].st = "pending"
                            /\ \E r \in Rows : e = [id |-> r, uid |-> rows[r].uid]
    BY <1>4 DEF FetchList, First
  <2>2. QED
    BY <1>4, <2>1 DEF FetchList
<1>5. CASE FetchMark
  <2>1. \A e \in fqueue' : e.id # FetchHead.id /\ e \in fqueue
    BY <1>5, FetchMarkEffect
  <2>2. QED
    BY <1>5, <2>1, FetchMarkEffect DEF Becomes
<1>6. CASE FetchGivesUp
  <2>1. \A e \in fqueue' : e.id # FetchHead.id /\ e \in fqueue
    BY <1>6, FetchGivesUpEffect
  <2>2. QED
    BY <1>6, <2>1, FetchGivesUpEffect DEF Becomes
<1>7. CASE FetchPostponed
  BY <1>7 DEF FetchPostponed, Dequeue
<1>8. CASE MarkExpiredPurged
  <2>1. \A e \in fqueue : e.id # PageHead.id
    BY <1>8, MarkExpiredPurgedEffect DEF PageInv
  <2>2. QED
    BY <1>8, <2>1, MarkExpiredPurgedEffect DEF MarkExpiredPurged, Becomes, fetchVars
<1>9. CASE DeleteStalePending
  BY <1>9, DeletedRows DEF DeleteStalePending, fetchVars
<1>10. CASE DeletePurged
  BY <1>10, DeletedRows DEF DeletePurged, fetchVars
<1>11. CASE RepairRow
  <2>1. \A e \in fqueue : e.id # PageHead.id
    BY <1>11, RepairRowEffect DEF PageInv
  <2>2. QED
    BY <1>11, <2>1, RepairRowEffect DEF RepairRow, Becomes, fetchVars
<1>12. CASE Crash
  BY <1>12 DEF Crash
<1>13. QED
  BY <1>1, <1>2, <1>3, <1>4, <1>5, <1>6, <1>7, <1>8, <1>9, <1>10, <1>11, <1>12
  DEF Next, Fetch, Purge, vars, SetRetentionDays, Tick, FetchStart, FetchPublish,
      ListTenantsForRetention, ListExpiredStored, UnlinkExpired, ListStoredPage,
      StatStored, Walk, SweepBatch, SweepUnlink, DiskDone, RefuseExpired,
      RefuseSweep, PhaseFails, fetchVars

\* The sweep spares the temporary file being written, since a download is
\* over before the grace has passed; nobody else writes at its path.
LEMMA FlightStep == Typed /\ FlightInv /\ SweepInv /\ [Next]_vars => FlightInv'
<1> SUFFICES ASSUME Typed, FlightInv, SweepInv, [Next]_vars PROVE FlightInv'
  OBVIOUS
<1> USE Constants DEF Typed, FlightInv
<1>1. CASE UNCHANGED <<fetchVars, disk, clock>>
  BY <1>1 DEF OnDisk, fetchVars
<1>2. CASE Tick
  BY <1>2 DEF Tick, Time, OnDisk, fetchVars
<1>3. CASE FetchList
  BY <1>3 DEF FetchList, OnDisk
<1>4. CASE FetchStart
  <2>1. FetchHead \in fqueue
    BY <1>4, Heads DEF FetchStart
  <2>2. fpath' \in Paths
    BY <1>4, <2>1, PathsExist DEF FetchStart
  <2>3. disk' = disk /\ (fpc' = "temp" => ftemp' /\ ~OnDisk(fpath'))
    BY <1>4 DEF FetchStart
  <2>4. fqueue' # {} /\ clock' = clock /\ fbegin' = clock
    BY <1>4 DEF FetchStart
  <2>5. QED
    BY <2>2, <2>3, <2>4 DEF OnDisk
<1>5. CASE FetchPublish
  BY <1>5 DEF FetchPublish
<1>6. CASE FetchMark
  BY <1>6, FetchMarkEffect
<1>7. CASE FetchGivesUp
  BY <1>7, FetchGivesUpEffect
<1>8. CASE FetchPostponed
  BY <1>8 DEF FetchPostponed, Dequeue, FetchVarsReset
<1>9. CASE UnlinkExpired
  BY <1>9 DEF UnlinkExpired, OnDisk, fetchVars
<1>10. ASSUME NEW c \in cand, SweepUnlink(c) PROVE FlightInv'
  <2>1. ppc = "sweep" /\ c \in cand /\ clock - c.at >= OrphanGrace /\ c.at \in Nat
    BY <1>10 DEF SweepUnlink, SweepInv, Candidate
  <2>2. fpc = "temp" => fbegin # c.at
    BY <2>1
  <2>3. fpc = "temp" => ftemp'
    BY <1>10, <2>2 DEF SweepUnlink
  <2>4. \A p \in Paths : ~OnDisk(p) => ~OnDisk(p)'
    BY <1>10 DEF SweepUnlink, OnDisk
  <2>5. QED
    BY <1>10, <2>3, <2>4 DEF SweepUnlink
<1>11. CASE Crash
  BY <1>11 DEF Crash, FetchVarsReset
<1>12. QED
  BY <1>1, <1>2, <1>3, <1>4, <1>5, <1>6, <1>7, <1>8, <1>9, <1>10, <1>11
  DEF Next, Fetch, Purge, vars, Save, SaveAgain, SetRetentionDays,
      ListTenantsForRetention, ListExpiredStored, MarkExpiredPurged,
      DeleteStalePending, DeletePurged, ListStoredPage, StatStored, RepairRow, Walk,
      SweepBatch, DiskDone, RefuseExpired, RefuseSweep, PhaseFails

\* Between the read of a page and its last entry, only the pass itself changes
\* the status or the path of the rows in it.
LEMMA PageStep ==
  Typed /\ QueueInv /\ FlightInv /\ PageInv /\ [Next]_vars
  => PageInv'
<1> SUFFICES ASSUME Typed, QueueInv, FlightInv, PageInv, [Next]_vars PROVE PageInv'
  OBVIOUS
<1> USE Constants DEF Typed, PageInv
<1>1. CASE UNCHANGED <<rows, ppc, page, pret, clock>>
  BY <1>1 DEF Expired
<1>2. ASSUME NEW r \in Rows, NEW u \in Uids, Save(r, u) PROVE PageInv'
  BY <1>2 DEF Save, purgeVars, Expired
<1>3. ASSUME NEW r \in Rows, NEW u \in Uids, SaveAgain(r, u) PROVE PageInv'
  <2>1. \A q \in Rows : rows'[q].st = rows[q].st /\ rows'[q].path = rows[q].path
                          /\ rows'[q].created = rows[q].created
    BY <1>3 DEF SaveAgain, RowType
  <2>2. QED
    BY <1>3, <2>1 DEF SaveAgain, purgeVars, Expired
<1>4. CASE Tick
  <2>1. \A r \in Rows : rows[r].created \in Nat
    BY DEF RowType
  <2>2. \A r \in Rows : Expired(r, pret, clock) => Expired(r, pret, clock')
    BY <1>4, <2>1 DEF Tick, Expired
  <2>3. QED
    BY <1>4, <2>2 DEF Tick, purgeVars, Expired
<1>5. CASE FetchMark
  <2>1. \A e \in page : e.id # FetchHead.id
    BY <1>5, FetchMarkEffect DEF QueueInv
  <2>2. QED
    BY <1>5, <2>1, FetchMarkEffect DEF FetchMark, Becomes, purgeVars, Expired
<1>6. CASE FetchGivesUp
  <2>1. \A e \in page : e.id # FetchHead.id
    BY <1>6, FetchGivesUpEffect DEF QueueInv
  <2>2. QED
    BY <1>6, <2>1, FetchGivesUpEffect DEF FetchGivesUp, Becomes, purgeVars, Expired
<1>7. CASE ListTenantsForRetention
  BY <1>7 DEF ListTenantsForRetention
<1>8. CASE ListExpiredStored
  <2>1. UNCHANGED <<rows, clock>>
    BY <1>8 DEF ListExpiredStored
  <2>2. QED
    BY <1>8, <2>1, ListedPages DEF Seen, Expired
<1>9. CASE UnlinkExpired
  BY <1>9 DEF UnlinkExpired, Expired
<1>10. CASE MarkExpiredPurged
  <2>1. \A e \in page' : e.id # PageHead.id /\ e \in page
    BY <1>10, MarkExpiredPurgedEffect
  <2>2. QED
    BY <1>10, <2>1, MarkExpiredPurgedEffect DEF MarkExpiredPurged, Becomes, Expired
<1>11. CASE DeleteStalePending
  BY <1>11 DEF DeleteStalePending
<1>12. CASE DeletePurged
  BY <1>12 DEF DeletePurged, EnterRows, purgeVars
<1>13. CASE ListStoredPage
  <2>1. UNCHANGED rows
    BY <1>13 DEF ListStoredPage
  <2>2. QED
    BY <1>13, <2>1, ListedPages DEF Seen
<1>14. CASE StatStored
  <2>1. CASE ~OnDisk(PageHead.path)
    BY <1>14, <2>1 DEF StatStored
  <2>2. CASE OnDisk(PageHead.path)
    BY <1>14, <2>2, RowsMoves DEF StatStored, PageTail
  <2>3. QED
    BY <2>1, <2>2
<1>15. CASE RepairRow
  <2>1. \A e \in page' : e.id # PageHead.id /\ e \in page
    BY <1>15, RepairRowEffect
  <2>2. QED
    BY <1>15, <2>1, RepairRowEffect DEF RepairRow, Becomes
<1>16. CASE Walk
  BY <1>16 DEF Walk
<1>17. CASE SweepBatch
  BY <1>17 DEF SweepBatch
<1>18. ASSUME NEW c \in cand, SweepUnlink(c) PROVE PageInv'
  BY <1>18 DEF SweepUnlink, SweepGoesOn
<1>19. CASE DiskDone
  BY <1>19 DEF DiskDone, PurgeIdle
<1>20. CASE RefuseExpired
  <2>1. page' \subseteq page /\ pret' = pret /\ (ppc' = "expired" \/ (ppc' = "stale" /\ page' = {}))
    BY <1>20, ExpiredMoves DEF RefuseExpired, PageTail
  <2>2. QED
    BY <1>20, <2>1 DEF RefuseExpired, Expired
<1>21. ASSUME NEW c \in cand, RefuseSweep(c) PROVE PageInv'
  BY <1>21 DEF RefuseSweep, SweepGoesOn
<1>22. CASE PhaseFails
  BY <1>22 DEF PhaseFails, EnterStale, EnterRows, EnterDisk, PurgeIdle
<1>23. CASE Crash
  BY <1>23 DEF Crash, PurgeIdle
<1>24. QED
  BY <1>1, <1>2, <1>3, <1>4, <1>5, <1>6, <1>7, <1>8, <1>9, <1>10, <1>11, <1>12,
     <1>13, <1>14, <1>15, <1>16, <1>17, <1>18, <1>19, <1>20, <1>21, <1>22, <1>23
  DEF Next, Fetch, Purge, vars, SetRetentionDays, FetchList, FetchStart,
      FetchPublish, FetchPostponed, purgeVars

\* A candidate is the file that was seen until it is unlinked, and a row that
\* takes it over meanwhile is marked after the grace has passed.
LEMMA SweepStep ==
  Typed /\ PathsOfRows /\ FlightInv /\ PageInv /\ SweepInv /\ [Next]_vars
  => SweepInv'
<1> SUFFICES ASSUME Typed, PathsOfRows, FlightInv, PageInv, SweepInv, [Next]_vars
    PROVE  SweepInv'
  OBVIOUS
<1> USE Constants, PathsExist DEF Typed, PathsOfRows, SweepInv
<1>1. CASE UNCHANGED <<rows, disk, ppc, cand, clock>>
  BY <1>1
<1>2. ASSUME NEW r \in Rows, NEW u \in Uids, Save(r, u) PROVE SweepInv'
  BY <1>2 DEF Save, NewRow, purgeVars
<1>3. ASSUME NEW r \in Rows, NEW u \in Uids, SaveAgain(r, u) PROVE SweepInv'
  <2>1. \A q \in Rows : rows'[q].path = rows[q].path
                          /\ (rows'[q].updated = rows[q].updated \/ rows'[q].updated = clock)
    BY <1>3 DEF SaveAgain, RowType
  <2>2. QED
    BY <1>3, <2>1 DEF SaveAgain, purgeVars
<1>4. CASE Tick
  <2>1. \A c \in cand : c.at \in Nat
    BY DEF Candidate
  <2>2. \A c \in cand : clock - c.at >= OrphanGrace => clock' - c.at >= OrphanGrace
    BY <1>4, <2>1 DEF Tick
  <2>3. QED
    BY <1>4, <2>2 DEF Tick, purgeVars
<1>5. CASE FetchPublish
  <2>1. \A c \in cand : c.path # NoPath => c.path # fpath
    BY <1>5 DEF FetchPublish, FlightInv, OnDisk, Candidate
  <2>2. \A c \in cand : c.path # NoPath => disk'[c.path] = disk[c.path]
    BY <1>5, <2>1 DEF FetchPublish, Candidate
  <2>3. QED
    BY <1>5, <2>2 DEF FetchPublish, purgeVars
<1>6. CASE FetchMark
  BY <1>6, FetchMarkEffect DEF FetchMark, Becomes, purgeVars
<1>7. CASE FetchGivesUp
  BY <1>7, FetchGivesUpEffect DEF FetchGivesUp, Becomes, purgeVars
<1>8. CASE ListExpiredStored
  BY <1>8, ListedPages DEF ListExpiredStored
<1>9. CASE UnlinkExpired
  BY <1>9 DEF UnlinkExpired
<1>10. CASE MarkExpiredPurged
  BY <1>10, MarkExpiredPurgedEffect DEF MarkExpiredPurged
<1>11. CASE DeleteStalePending
  BY <1>11 DEF DeleteStalePending
<1>12. CASE DeletePurged
  BY <1>12 DEF DeletePurged, EnterRows, purgeVars
<1>13. CASE ListStoredPage
  BY <1>13, ListedPages DEF ListStoredPage
<1>14. CASE StatStored
  BY <1>14, RowsMoves DEF StatStored
<1>15. CASE RepairRow
  BY <1>15, RepairRowEffect DEF RepairRow
<1>16. CASE Walk
  <2>1. \A c \in Tree : c.path # NoPath => disk[c.path] = c.at
    BY DEF Tree
  <2>2. cand' \subseteq Tree
    BY <1>16 DEF Walk, First, Ahead
  <2>3. QED
    BY <1>16, <2>1, <2>2 DEF Walk
<1>17. CASE SweepBatch
  <2>1. cand' = {c \in cand : /\ c.path = NoPath \/ ~Referenced(c.path)
                             /\ clock - c.at >= OrphanGrace}
    BY <1>17 DEF SweepBatch
  <2>2. QED
    BY <1>17, <2>1 DEF SweepBatch, Referenced
<1>18. ASSUME NEW c \in cand, SweepUnlink(c) PROVE SweepInv'
  <2>1. \A d \in cand \ {c} : d.path # NoPath => disk'[d.path] = d.at
    BY <1>18 DEF SweepUnlink, Candidate
  <2>2. QED
    BY <1>18, <2>1 DEF SweepUnlink, SweepGoesOn
<1>19. CASE DiskDone
  BY <1>19 DEF DiskDone, PurgeIdle
<1>20. CASE RefuseExpired
  BY <1>20, ExpiredMoves DEF RefuseExpired
<1>21. ASSUME NEW c \in cand, RefuseSweep(c) PROVE SweepInv'
  BY <1>21 DEF RefuseSweep, SweepGoesOn
<1>22. CASE PhaseFails
  BY <1>22 DEF PhaseFails, EnterStale, EnterRows, EnterDisk, PurgeIdle
<1>23. CASE Crash
  BY <1>23 DEF Crash, PurgeIdle
<1>24. QED
  BY <1>1, <1>2, <1>3, <1>4, <1>5, <1>6, <1>7, <1>8, <1>9, <1>10, <1>11, <1>12,
     <1>13, <1>14, <1>15, <1>16, <1>17, <1>18, <1>19, <1>20, <1>21, <1>22, <1>23
  DEF Next, Fetch, Purge, vars, SetRetentionDays, FetchList, FetchStart,
      FetchPostponed, ListTenantsForRetention, purgeVars

\* The fields RowsGoOn and ExpiredGoesOn leave behind.
LEMMA ExpiredCounters ==
  ASSUME Counters, NEW rest, NEW full \in BOOLEAN, NEW at \in Rows \cup {0},
         ExpiredGoesOn(rest, full, at)
  PROVE  /\ ppc' \in {"expired", "stale"} /\ pret' = pret /\ pnow' = pnow
         /\ more' \in BOOLEAN /\ cur' \in Rows \cup {0} /\ scan' = scan
  BY DEF Counters, ExpiredGoesOn, EnterStale

\* The same for reconcileRows, which saves its cursor when it ends.
LEMMA RowsCounters ==
  ASSUME Counters, NEW rest, NEW full \in BOOLEAN, NEW at \in Rows \cup {0}, NEW n,
         RowsGoOn(rest, full, at, n)
  PROVE  /\ pret' \in {pret, 0} /\ pnow' \in {pnow, 0} /\ more' \in BOOLEAN
         /\ rowCursor' \in Rows \cup {0}
         /\ \/ ppc' = "rows" /\ cur' \in Rows \cup {0} /\ page' = rest /\ scan' = n
            \/ ppc' = "disk" /\ cur' = pathCursor /\ scan' = 0
  BY DEF Counters, RowsGoOn, EnterDisk

\* The cursors move along the ids and along the walk.
LEMMA CountersStep ==
  Typed /\ FlightInv /\ PageInv /\ Counters /\ ScanInv /\ [Next]_vars
  => Counters'
<1> SUFFICES ASSUME Typed, FlightInv, PageInv, Counters, ScanInv, [Next]_vars
    PROVE  Counters'
  OBVIOUS
<1> USE Constants DEF Typed, Counters
<1>1. CASE UNCHANGED <<retention, ppc, pret, pnow, more, cur, rowCursor, pathCursor, events>>
  BY <1>1
<1>2. ASSUME NEW r \in Rows, NEW u \in Uids, SaveAgain(r, u) PROVE Counters'
  BY <1>2 DEF SaveAgain, purgeVars, cursors
<1>3. ASSUME NEW d \in Retentions, SetRetentionDays(d) PROVE Counters'
  BY <1>3 DEF SetRetentionDays, purgeVars, cursors
<1>4. CASE ListTenantsForRetention
  BY <1>4 DEF ListTenantsForRetention, cursors
<1>5. CASE ListExpiredStored
  <2>1. \E P \in SUBSET PageOf(Rows) : ExpiredGoesOn(P, Cardinality(P) = BatchSize, cur)
    BY <1>5 DEF ListExpiredStored, First, PageOf
  <2>2. cur \in Rows \cup {0}
    BY <1>5 DEF ListExpiredStored
  <2>3. QED
    BY <1>5, <2>1, <2>2, ExpiredCounters DEF ListExpiredStored, cursors
<1>6. CASE UnlinkExpired
  BY <1>6 DEF UnlinkExpired, cursors
<1>7. CASE MarkExpiredPurged
  <2>1. PageHead.id \in Rows
    BY <1>7, MarkExpiredPurgedEffect
  <2>2. QED
    BY <1>7, <2>1, ExpiredCounters DEF MarkExpiredPurged, cursors
<1>8. CASE DeleteStalePending
  BY <1>8 DEF DeleteStalePending, cursors
<1>9. CASE DeletePurged
  BY <1>9 DEF DeletePurged, EnterRows, purgeVars, cursors
<1>10. CASE ListStoredPage
  <2>1. \E P \in SUBSET PageOf(Rows) :
           RowsGoOn(P, Cardinality(P) = Least(BatchSize, MaxFilesPerRun - scan), cur, scan)
    BY <1>10 DEF ListStoredPage, First, PageOf
  <2>2. cur \in Rows \cup {0}
    BY <1>10 DEF ListStoredPage
  <2>3. QED
    BY <1>10, <2>1, <2>2, RowsCounters DEF ListStoredPage
<1>11. CASE StatStored
  <2>1. PageHead.id \in Rows
    BY <1>11, Heads DEF StatStored
  <2>2. QED
    BY <1>11, <2>1, RowsCounters DEF StatStored
<1>12. CASE RepairRow
  <2>1. PageHead.id \in Rows
    BY <1>12, RepairRowEffect
  <2>2. RowsGoOn(page \ {PageHead}, more, PageHead.id, scan + 1)
    BY <1>12 DEF RepairRow, PageTail
  <2>3. /\ pret' \in {pret, 0} /\ pnow' \in {pnow, 0} /\ more' \in BOOLEAN
        /\ rowCursor' \in Rows \cup {0}
        /\ \/ ppc' = "rows" /\ cur' \in Rows \cup {0}
           \/ ppc' = "disk" /\ cur' = pathCursor
    BY <2>1, <2>2, RowsCounters
  <2>4. UNCHANGED <<retention, pathCursor, events>>
    BY <1>12 DEF RepairRow
  <2>5. QED
    BY <2>3, <2>4
<1>13. CASE Walk
  <2>1. cur' \in Nat
    <3> DEFINE k == Least(BatchSize, MaxFilesPerRun - scan)
               B == First(k, Ahead, Position)
    <3>1. k \in Nat /\ k > 0 /\ Ahead # {}
      BY <1>13, BoundsArePositive DEF Walk, Least, ScanInv
    <3>2. cur' = CHOOSE n \in {Position(c) : c \in B} : \A c \in B : n >= Position(c)
      BY <1>13 DEF Walk
    <3> HIDE DEF k
    <3>3. /\ \A c \in B : Position(c) \in Nat
          /\ \E n \in {Position(c) : c \in B} : \A c \in B : n >= Position(c)
      BY <3>1, WalkIsBounded
    <3> HIDE DEF B
    <3>4. QED
      BY <3>2, <3>3
  <2>2. QED
    BY <1>13, <2>1 DEF Walk, cursors
<1>14. CASE SweepBatch
  BY <1>14 DEF SweepBatch, cursors
<1>15. ASSUME NEW c \in cand, SweepUnlink(c) PROVE Counters'
  BY <1>15 DEF SweepUnlink, SweepGoesOn, cursors
<1>16. CASE DiskDone
  BY <1>16 DEF DiskDone, PurgeIdle, cursors
<1>17. CASE RefuseExpired
  <2>1. PageHead.id \in Rows
    BY <1>17, Heads DEF RefuseExpired
  <2>2. events' \in 0 .. MaxEvents
    BY <1>17 DEF RefuseExpired
  <2>3. ExpiredGoesOn(page \ {PageHead}, more, PageHead.id)
    BY <1>17 DEF RefuseExpired, PageTail
  <2>4. /\ ppc' \in {"expired", "stale"} /\ pret' = pret /\ pnow' = pnow
        /\ more' \in BOOLEAN /\ cur' \in Rows \cup {0}
    BY <2>1, <2>3, ExpiredCounters
  <2>5. QED
    BY <1>17, <2>2, <2>4 DEF RefuseExpired, cursors
<1>18. ASSUME NEW c \in cand, RefuseSweep(c) PROVE Counters'
  BY <1>18 DEF RefuseSweep, SweepGoesOn, cursors
<1>19. CASE PhaseFails
  <2>1. events' \in 0 .. MaxEvents /\ UNCHANGED <<retention, cursors>>
    BY <1>19 DEF PhaseFails
  <2>2. /\ pret' \in {pret, 0} /\ pnow' \in {pnow, clock, 0} /\ more' \in BOOLEAN
        /\ \/ ppc' \in {"stale", "idle"} /\ cur' = 0
           \/ ppc' = "rows" /\ cur' = rowCursor
           \/ ppc' = "disk" /\ cur' = pathCursor
    BY <1>19 DEF PhaseFails, EnterStale, EnterRows, EnterDisk, PurgeIdle
  <2>3. QED
    BY <2>1, <2>2 DEF cursors
<1>20. CASE Crash
  <2>1. events' \in 0 .. MaxEvents
    BY <1>20 DEF Crash
  <2>2. /\ pret' = 0 /\ pnow' = 0 /\ more' = FALSE /\ ppc' = "idle" /\ cur' = 0
        /\ rowCursor' = 0 /\ pathCursor' = 0 /\ retention' = retention
    BY <1>20 DEF Crash, PurgeIdle
  <2>3. QED
    BY <2>1, <2>2
<1>21. QED
  BY <1>1, <1>2, <1>3, <1>4, <1>5, <1>6, <1>7, <1>8, <1>9, <1>10, <1>11, <1>12,
     <1>13, <1>14, <1>15, <1>16, <1>17, <1>18, <1>19, <1>20
  DEF Next, Fetch, Purge, vars, Save, Tick, FetchList, FetchStart, FetchPublish,
      FetchMark, FetchGivesUp, FetchPostponed, purgeVars, cursors

\* One entry of the page less, one file of the run more.
LEMMA OneLess ==
  ASSUME ScanInv, ppc \in {"rows", "repair"}, NEW e \in page
  PROVE  /\ IsFiniteSet(page \ {e}) /\ scan + 1 \in 0 .. MaxFilesPerRun
         /\ (scan + 1) + Cardinality(page \ {e}) <= MaxFilesPerRun
<1>1. IsFiniteSet(page) /\ Cardinality(page) \in Nat /\ IsFiniteSet(page \ {e})
      /\ Cardinality(page \ {e}) = Cardinality(page) - 1
      /\ Cardinality(page \ {e}) \in Nat
  BY FS_CardinalityType, FS_RemoveElement DEF ScanInv
<1>2. QED
  BY <1>1, Constants DEF ScanInv

\* Neither reconcileRows nor reconcileDisk takes more than MaxFilesPerRun in a
\* run: the limit of each query is what is left of it.
LEMMA ScanStep == Typed /\ PageInv /\ Counters /\ ScanInv /\ [Next]_vars => ScanInv'
<1> SUFFICES ASSUME Typed, PageInv, Counters, ScanInv, [Next]_vars PROVE ScanInv'
  OBVIOUS
<1> USE Constants DEF ScanInv
<1>1. CASE UNCHANGED <<ppc, page, scan>>
  BY <1>1
<1>2. CASE ListTenantsForRetention
  BY <1>2 DEF ListTenantsForRetention
<1>3. CASE ListExpiredStored
  <2>1. \E P \in SUBSET PageOf(Rows) : ExpiredGoesOn(P, Cardinality(P) = BatchSize, cur)
    BY <1>3 DEF ListExpiredStored, First, PageOf
  <2>2. QED
    BY <1>3, <2>1, ExpiredCounters DEF ListExpiredStored, Counters
<1>4. CASE UnlinkExpired
  BY <1>4 DEF UnlinkExpired
<1>5. CASE MarkExpiredPurged
  <2>1. PageHead.id \in Rows
    BY <1>5, MarkExpiredPurgedEffect DEF Typed
  <2>2. ExpiredGoesOn(page \ {PageHead}, more, PageHead.id) /\ more \in BOOLEAN
    BY <1>5 DEF MarkExpiredPurged, PageTail, Counters
  <2>3. ppc' \in {"expired", "stale"} /\ scan' = scan
    BY <2>1, <2>2, ExpiredCounters
  <2>4. QED
    BY <2>3
<1>6. CASE DeleteStalePending
  BY <1>6 DEF DeleteStalePending
<1>7. CASE DeletePurged
  <2>1. IsFiniteSet({}) /\ Cardinality({}) = 0
    BY FS_EmptySet
  <2>2. QED
    BY <1>7, <2>1 DEF DeletePurged, EnterRows, purgeVars
<1>8. CASE ListStoredPage
  <2> DEFINE k == Least(BatchSize, MaxFilesPerRun - scan)
             Q == {r \in Rows : rows[r].st = "stored" /\ r > cur}
             P == First(k, PageOf(Q), ById)
  <2>1. k \in Nat /\ k <= MaxFilesPerRun - scan
    BY DEF Least
  <2>2. IsFiniteSet(P) /\ Cardinality(P) <= k
    BY <2>1, PageIsBounded
  <2>3. RowsGoOn(P, Cardinality(P) = k, cur, scan) /\ cur \in Rows \cup {0}
    BY <1>8 DEF ListStoredPage, Counters
  <2> HIDE DEF k, P
  <2>4. Cardinality(P) \in Nat
    BY <2>2, FS_CardinalityType
  <2>5. \/ ppc' = "rows" /\ page' = P /\ scan' = scan
        \/ ppc' = "disk" /\ scan' = 0
    BY <2>3, RowsCounters
  <2>6. QED
    BY <2>1, <2>2, <2>4, <2>5
<1>9. CASE StatStored
  <2>1. PageHead \in page /\ PageHead.id \in Rows /\ ppc = "rows"
    BY <1>9, Heads DEF StatStored, Typed
  <2>2. CASE OnDisk(PageHead.path)
    <3>1. RowsGoOn(page \ {PageHead}, more, PageHead.id, scan + 1) /\ more \in BOOLEAN
      BY <1>9, <2>2 DEF StatStored, PageTail, Counters
    <3>2. \/ ppc' = "rows" /\ page' = page \ {PageHead} /\ scan' = scan + 1
          \/ ppc' = "disk" /\ scan' = 0
      BY <2>1, <3>1, RowsCounters
    <3>3. QED
      BY <2>1, <3>2, OneLess
  <2>3. CASE ~OnDisk(PageHead.path)
    BY <1>9, <2>1, <2>3 DEF StatStored
  <2>4. QED
    BY <2>2, <2>3
<1>10. CASE RepairRow
  <2>1. PageHead \in page /\ PageHead.id \in Rows /\ ppc = "repair"
    BY <1>10, RepairRowEffect DEF RepairRow, Typed
  <2>2. RowsGoOn(page \ {PageHead}, more, PageHead.id, scan + 1) /\ more \in BOOLEAN
    BY <1>10 DEF RepairRow, PageTail, Counters
  <2>3. \/ ppc' = "rows" /\ page' = page \ {PageHead} /\ scan' = scan + 1
        \/ ppc' = "disk" /\ scan' = 0
    BY <2>1, <2>2, RowsCounters
  <2>4. QED
    BY <2>1, <2>3, OneLess
<1>11. CASE Walk
  <2> DEFINE k == Least(BatchSize, MaxFilesPerRun - scan)
             B == First(k, Ahead, Position)
  <2>1. k \in Nat /\ k <= MaxFilesPerRun - scan
    BY DEF Least
  <2>2. IsFiniteSet(B) /\ Cardinality(B) <= k
    BY <2>1, WalkIsBounded
  <2>3. scan' = scan + Cardinality(B) /\ ppc' = "disk"
    BY <1>11 DEF Walk
  <2> HIDE DEF k, B
  <2>4. QED
    BY <2>1, <2>2, <2>3, FS_CardinalityType
<1>12. CASE SweepBatch
  BY <1>12 DEF SweepBatch
<1>13. ASSUME NEW c \in cand, SweepUnlink(c) PROVE ScanInv'
  BY <1>13 DEF SweepUnlink, SweepGoesOn
<1>14. CASE DiskDone
  BY <1>14 DEF DiskDone, PurgeIdle
<1>15. CASE RefuseExpired
  <2>1. PageHead.id \in Rows
    BY <1>15, Heads DEF RefuseExpired, Typed
  <2>2. ExpiredGoesOn(page \ {PageHead}, more, PageHead.id) /\ more \in BOOLEAN
    BY <1>15 DEF RefuseExpired, PageTail, Counters
  <2>3. ppc' \in {"expired", "stale"} /\ scan' = scan
    BY <2>1, <2>2, ExpiredCounters
  <2>4. QED
    BY <2>3
<1>16. ASSUME NEW c \in cand, RefuseSweep(c) PROVE ScanInv'
  BY <1>16 DEF RefuseSweep, SweepGoesOn
<1>17. CASE PhaseFails
  <2>1. IsFiniteSet({}) /\ Cardinality({}) = 0
    BY FS_EmptySet
  <2>2. QED
    BY <1>17, <2>1 DEF PhaseFails, EnterStale, EnterRows, EnterDisk, PurgeIdle
<1>18. CASE Crash
  BY <1>18 DEF Crash, PurgeIdle
<1>19. QED
  BY <1>1, <1>2, <1>3, <1>4, <1>5, <1>6, <1>7, <1>8, <1>9, <1>10, <1>11, <1>12,
     <1>13, <1>14, <1>15, <1>16, <1>17, <1>18
  DEF Next, Fetch, Purge, vars, Save, SaveAgain, SetRetentionDays, Tick, FetchList,
      FetchStart, FetchPublish, FetchMark, FetchGivesUp, FetchPostponed, purgeVars

\* The invariant as a whole.
LEMMA InvStep == Inv /\ [Next]_vars => Inv'
  BY TypedStep, RowsStep, QueueStep, FlightStep, PageStep, SweepStep, CountersStep,
     ScanStep
  DEF Inv

-------------------------------------------------------------------------------
(* Theorems *)

\* The types, the bound on the files of a run among them.
THEOREM MediaTypes == Spec => []TypeOK
<1>1. Inv => TypeOK
  BY DEF Inv, Typed, Counters, ScanInv, TypeOK
<1>2. QED
  BY <1>1, InvInit, InvStep, PTL DEF Spec

\* The retention pass, which tells temporary files apart by age alone, never
\* takes the one a download is writing (sweepBatch).
THEOREM MediaTempInFlightKept == Spec => []TempInFlightKept
<1>1. Inv => TempInFlightKept
  BY DEF Inv, FlightInv, TempInFlightKept
<1>2. QED
  BY <1>1, InvInit, InvStep, PTL DEF Spec

\* A row that was written off is never brought back: MarkStored and
\* MarkPendingRetry do not look at the status they overwrite, and what was read
\* before never makes them meet such a row.
THEOREM MediaPurgedIsFinal == Spec => PurgedIsFinal
<1>1. Inv /\ [Next]_vars =>
          [\A r \in Rows : rows[r].st = "purged" => rows'[r].st \in {"purged", "deleted"}]_vars
  <2> SUFFICES ASSUME Inv, Next, NEW r \in Rows, rows[r].st = "purged"
               PROVE  rows'[r].st \in {"purged", "deleted"}
    OBVIOUS
  <2> USE DEF Inv, Typed
  <2>1. CASE UNCHANGED rows
    BY <2>1
  <2>2. ASSUME NEW q \in Rows, NEW u \in Uids, Save(q, u)
       PROVE  rows'[r].st \in {"purged", "deleted"}
    BY <2>2 DEF Save
  <2>3. ASSUME NEW q \in Rows, NEW u \in Uids, SaveAgain(q, u)
       PROVE  rows'[r].st \in {"purged", "deleted"}
    BY <2>3 DEF SaveAgain
  <2>4. CASE FetchMark
    BY <2>4, FetchMarkEffect DEF QueueInv, Becomes
  <2>5. CASE FetchGivesUp
    BY <2>5, FetchGivesUpEffect DEF QueueInv, Becomes
  <2>6. CASE MarkExpiredPurged
    BY <2>6, MarkExpiredPurgedEffect DEF Becomes
  <2>7. CASE DeleteStalePending
    BY <2>7, DeletedRows DEF DeleteStalePending
  <2>8. CASE DeletePurged
    BY <2>8, DeletedRows DEF DeletePurged
  <2>9. CASE RepairRow
    BY <2>9, RepairRowEffect DEF PageInv, Becomes
  <2>10. QED
    BY <2>1, <2>2, <2>3, <2>4, <2>5, <2>6, <2>7, <2>8, <2>9
    DEF Next, Fetch, Purge, vars, SetRetentionDays, Tick, FetchList, FetchStart,
        FetchPublish, FetchPostponed, ListTenantsForRetention, ListExpiredStored,
        UnlinkExpired, ListStoredPage, StatStored, Walk, SweepBatch, SweepUnlink,
        DiskDone, RefuseExpired, RefuseSweep, PhaseFails, Crash
<1>2. QED
  BY <1>1, InvInit, InvStep, PTL DEF Spec, PurgedIsFinal

Justified(p) ==
    \/ /\ ppc = "expired"
       /\ \E r \in Rows : rows[r].path = p /\ Expired(r, pret, clock)
    \/ /\ ppc = "sweep"
       /\ clock - disk[p] >= OrphanGrace
       /\ \A r \in Rows : rows[r].path = p => rows[r].updated - disk[p] >= OrphanGrace

\* purgeExpired unlinks what a row past its retention names, and the sweep
\* what is older than the grace and than every claim on it.
THEOREM MediaUnlinkIsJustified == Spec => UnlinkIsJustified
<1>1. Inv /\ [Next]_vars => [\A p \in Paths : OnDisk(p) /\ disk'[p] = Gone => Justified(p)]_vars
  <2> SUFFICES ASSUME Inv, Next, NEW p \in Paths, OnDisk(p), disk'[p] = Gone
               PROVE  Justified(p)
    OBVIOUS
  <2> USE Constants, PathsExist DEF Inv, Typed, OnDisk
  <2>1. CASE UNCHANGED disk
    BY <2>1 DEF Gone
  <2>2. CASE FetchPublish
    BY <2>2 DEF FetchPublish
  <2>3. CASE UnlinkExpired
    <3>1. PageHead \in page /\ p = PageHead.path
      BY <2>3, Heads DEF UnlinkExpired, PageInv
    <3>2. PageHead.id \in Rows /\ rows[PageHead.id].path = p
          /\ Expired(PageHead.id, pret, clock) /\ ppc = "expired"
      BY <2>3, <3>1 DEF UnlinkExpired, PageInv
    <3>3. QED
      BY <3>2 DEF Justified
  <2>4. ASSUME NEW c \in cand, SweepUnlink(c) PROVE Justified(p)
    <3>1. c \in cand /\ c.path = p /\ p # NoPath /\ ppc = "sweep"
      BY <2>4 DEF SweepUnlink
    <3>2. QED
      BY <3>1 DEF SweepInv, Justified
  <2>5. QED
    BY <2>1, <2>2, <2>3, <2>4
    DEF Next, Fetch, Purge, vars, Save, SaveAgain, SetRetentionDays, Tick,
        FetchList, FetchStart, FetchMark, FetchGivesUp, FetchPostponed,
        ListTenantsForRetention, ListExpiredStored, MarkExpiredPurged,
        DeleteStalePending, DeletePurged, ListStoredPage, StatStored, RepairRow,
        Walk, SweepBatch, DiskDone, RefuseExpired, RefuseSweep, PhaseFails, Crash
<1>2. QED
  BY <1>1, InvInit, InvStep, PTL DEF Spec, UnlinkIsJustified, Justified

==============================================================================

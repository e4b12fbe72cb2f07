-------------------------- MODULE TenantGuardProofs --------------------------
(***************************************************************************)
(* For any number of tenants and calls: TenantGuard keeps its type, keeps  *)
(* Ownership, hence Exclusion, and implements TenantExclusion.             *)
(***************************************************************************)
EXTENDS TenantGuard, TLAPS

\* The initial state, with every call free, satisfies the invariant.
LEMMA InitLockInvariant == Init => LockInvariant
  BY GuardAssumption
  DEF Init, LockInvariant, TypeOK, Ownership, ReadSide, WriteSide, Stages, Modes

\* Every step keeps the type correct.
LEMMA StepTypeOK == TypeOK /\ [Next]_vars => TypeOK'
<1> SUFFICES ASSUME TypeOK, [Next]_vars PROVE TypeOK'
  OBVIOUS
<1> USE DEF TypeOK, Stages, Modes, callVars, lockVars
<1>1. ASSUME NEW a \in Acquisitions, NEW t \in Tenants, NEW m \in Modes,
             Acquire(a, t, m)
      PROVE TypeOK'
  BY <1>1 DEF Acquire
<1>2. ASSUME NEW a \in Acquisitions, RLock(a) PROVE TypeOK'
  BY <1>2 DEF RLock
<1>3. ASSUME NEW a \in Acquisitions, Lock(a) PROVE TypeOK'
  BY <1>3 DEF Lock
<1>4. ASSUME NEW a \in Acquisitions,
             RLockReturns(a) \/ LockReturns(a) \/ Return(a) \/ Cancel(a)
      PROVE TypeOK'
  BY <1>4 DEF RLockReturns, LockReturns, Return, Cancel
<1>5. ASSUME NEW a \in Acquisitions, Unlock(a) PROVE TypeOK'
  BY <1>5 DEF Unlock
<1>6. CASE UNCHANGED vars
  BY <1>6 DEF vars
<1>7. QED
  BY <1>1, <1>2, <1>3, <1>4, <1>5, <1>6 DEF Next, Release, ReleaseAbandoned

\* Every step keeps the mutex and the goroutines in agreement.
LEMMA StepOwnership == LockInvariant /\ [Next]_vars => Ownership'
<1> SUFFICES ASSUME LockInvariant, [Next]_vars PROVE Ownership'
  OBVIOUS
<1> USE GuardAssumption
    DEF LockInvariant, TypeOK, Ownership, ReadSide, WriteSide, Stages, Modes,
        callVars, lockVars
<1>1. ASSUME NEW a \in Acquisitions, NEW t \in Tenants, NEW m \in Modes,
             Acquire(a, t, m)
      PROVE Ownership'
  BY <1>1 DEF Acquire
<1>2. ASSUME NEW a \in Acquisitions, RLock(a) PROVE Ownership'
  BY <1>2 DEF RLock
<1>3. ASSUME NEW a \in Acquisitions, RLockReturns(a) PROVE Ownership'
  BY <1>3 DEF RLockReturns
<1>4. ASSUME NEW a \in Acquisitions, Lock(a) PROVE Ownership'
  BY <1>4 DEF Lock
<1>5. ASSUME NEW a \in Acquisitions, LockReturns(a) PROVE Ownership'
  BY <1>5 DEF LockReturns
<1>6. ASSUME NEW a \in Acquisitions, Return(a) \/ Cancel(a) PROVE Ownership'
  BY <1>6 DEF Return, Cancel
<1>7. ASSUME NEW a \in Acquisitions, Unlock(a), stage[a] \in {"locked", "held"}
      PROVE Ownership'
  <2>1. CASE mode[a] = "shared"
    <3> DEFINE t == tenant[a]
    <3>1. /\ t \in Tenants
          /\ stage' = [stage EXCEPT ![a] = "free"]
          /\ readers' = [readers EXCEPT ![t] = @ \ {a}]
          /\ readerWait' = [readerWait EXCEPT ![t] = @ \ {a}]
          /\ UNCHANGED <<writer, abandoned, mode, tenant>>
      BY <1>7, <2>1 DEF Unlock
    <3> HIDE DEF t
    <3>2. ReadSide'
      BY <3>1, <2>1 DEF t
    <3>3. WriteSide'
      <4>1. ASSUME NEW u \in Tenants, writer[u] # NoOne
            PROVE /\ readers'[u] = readerWait'[u]
                  /\ writer[u] \in Acquisitions /\ writer[u] # a
                  /\ stage'[writer[u]] = stage[writer[u]]
        <5>1. writer[u] \in Acquisitions /\ mode[writer[u]] = "exclusive"
          BY <4>1
        <5>2. writer[u] # a /\ stage'[writer[u]] = stage[writer[u]]
          BY <5>1, <3>1, <2>1
        <5>3. readers[u] = readerWait[u]
          BY <4>1
        <5>4. readers'[u] = readerWait'[u]
          <6>1. CASE u = t
            <7>1. readers'[u] = readers[u] \ {a} /\ readerWait'[u] = readerWait[u] \ {a}
              BY <6>1, <3>1
            <7>2. QED
              BY <7>1, <5>3
          <6>2. CASE u # t
            BY <6>2, <5>3, <3>1
          <6>3. QED
            BY <6>1, <6>2
        <5>5. QED
          BY <5>1, <5>2, <5>4
      <4>2. \A u \in Tenants : readerWait[u] = {} => readerWait'[u] = {}
        BY <3>1
      <4>3. ASSUME NEW b \in Acquisitions, mode[b] = "exclusive"
            PROVE stage'[b] = stage[b]
        BY <4>3, <3>1, <2>1
      <4>4. QED
        BY <4>1, <4>2, <4>3, <3>1
    <3>4. QED
      BY <3>2, <3>3
  <2>2. CASE mode[a] = "exclusive"
    <3> DEFINE t == tenant[a]
    <3>1. /\ t \in Tenants /\ writer[t] = a
          /\ readers[t] = {} /\ readerWait[t] = {}
      BY <1>7, <2>2
    <3>2. /\ stage' = [stage EXCEPT ![a] = "free"]
          /\ writer' = [writer EXCEPT ![t] = NoOne]
          /\ readers' = [readers EXCEPT ![t] =
                 {b \in Acquisitions : /\ stage[b] = "blocked"
                                       /\ mode[b] = "shared"
                                       /\ tenant[b] = t}]
          /\ UNCHANGED <<readerWait, abandoned, mode, tenant>>
      BY <2>2, <1>7 DEF Unlock
    <3> HIDE DEF t
    <3>3. ReadSide'
      BY <2>2, <1>7, <3>1, <3>2
    <3>4. WriteSide'
      <4>1. ASSUME NEW u \in Tenants, u # t
            PROVE /\ writer'[u] = writer[u] /\ readers'[u] = readers[u]
                  /\ writer[u] # a
        BY <4>1, <3>1, <3>2, <2>2 DEF t
      <4>2. writer'[t] = NoOne
        BY <3>1, <3>2
      <4>3. ASSUME NEW b \in Acquisitions, b # a, mode[b] = "exclusive",
                   stage[b] \in {"blocked", "locked", "held"}
            PROVE tenant[b] # t
        BY <4>3, <3>1
      <4>4. QED
        BY <4>1, <4>2, <4>3, <3>1, <3>2
    <3>5. QED
      BY <3>3, <3>4
  <2>3. QED
    BY <2>1, <2>2
<1>8. CASE UNCHANGED vars
  BY <1>8 DEF vars
<1> HIDE DEF LockInvariant, TypeOK, Ownership, ReadSide, WriteSide
<1>9. QED
  BY <1>1, <1>2, <1>3, <1>4, <1>5, <1>6, <1>7, <1>8
  DEF Next, Release, ReleaseAbandoned

\* The type of the guard's state and the agreement between mutex and
\* goroutines hold in every reachable state, for any set of calls.
THEOREM GuardInvariant == Spec => []LockInvariant
<1>1. Init => LockInvariant
  BY InitLockInvariant
<1>2. LockInvariant /\ [Next]_vars => LockInvariant'
  BY StepTypeOK, StepOwnership DEF LockInvariant
<1>3. QED
  BY <1>1, <1>2, PTL DEF Spec

\* Ownership is strong enough: the writer that is in has no reader beside it.
LEMMA OwnershipExcludes == LockInvariant => Exclusion
<1> SUFFICES ASSUME LockInvariant, NEW t \in Tenants, NEW a \in InsideAlone(t)
             PROVE Inside(t) = {a}
  BY DEF Exclusion
<1>1. writer[t] = a /\ readers[t] = {}
  BY GuardAssumption
  DEF InsideAlone, Inside, LockInvariant, TypeOK, Ownership, ReadSide, WriteSide
<1>2. ASSUME NEW b \in Inside(t) PROVE b = a
  BY <1>1 DEF Inside, LockInvariant, TypeOK, Modes, Ownership, ReadSide, WriteSide
<1>3. QED
  BY <1>2 DEF InsideAlone

\* A tenant's erasure never overlaps a unit of work of that tenant, nor
\* another erasure of it.
THEOREM GuardExclusion == Spec => []Exclusion
<1>1. LockInvariant => Exclusion
  BY OwnershipExcludes
<1>2. QED
  BY <1>1, GuardInvariant, PTL

\* The same in the state after a step.
LEMMA ExclusionNext == LockInvariant' => Exclusion'
  BY OwnershipExcludes, PTL

\* The mapped initial state has nobody inside.
LEMMA InitPromise == Init => Promise!Init
  BY DEF Init, Promise!Init, Inside, InsideAlone

\* Every step enters one call, lets one call leave, or is invisible.
LEMMA StepPromise == LockInvariant /\ LockInvariant' /\ [Next]_vars => [Promise!Next]_(Promise!vars)
<1> SUFFICES ASSUME LockInvariant, LockInvariant', [Next]_vars
             PROVE [Promise!Next]_(Promise!vars)
  OBVIOUS
<1> DEFINE in == [t \in Tenants |-> Inside(t)]
           alone == [t \in Tenants |-> InsideAlone(t)]
<1>1. ASSUME NEW a \in Acquisitions,
             \/ \E t \in Tenants, m \in Modes : Acquire(a, t, m)
             \/ Lock(a) \/ Return(a) \/ Cancel(a)
      PROVE in' = in /\ alone' = alone
  BY <1>1 DEF Acquire, Lock, Return, Cancel, Inside, InsideAlone, LockInvariant, TypeOK,
              Stages, Modes, callVars, lockVars
<1>2. ASSUME NEW a \in Acquisitions, NEW u \in Tenants, tenant[a] = u,
             mode[a] = "shared",
             stage[a] \in {"called", "blocked"},
             stage' = [stage EXCEPT ![a] = "locked"],
             mode' = mode, tenant' = tenant
      PROVE Promise!EnterShared(u, a)
  <2>1. u \in Tenants /\ a \in Inside(u)'
    BY <1>2 DEF LockInvariant, TypeOK, Inside
  <2>2. InsideAlone(u) = {}
    <3>1. a \in readers'[u]
      BY <1>2 DEF LockInvariant, Ownership, ReadSide, TypeOK
    <3>2. ASSUME NEW b \in InsideAlone(u) PROVE FALSE
      <4>1. b \in InsideAlone(u)' /\ b # a
        BY <1>2, <3>2 DEF InsideAlone, Inside, LockInvariant, TypeOK
      <4>2. Exclusion'
        BY ExclusionNext
      <4>3. QED
        BY <4>1, <4>2, <2>1 DEF Exclusion
    <3>3. QED
      BY <3>2
  <2>3. in' = [in EXCEPT ![u] = @ \cup {a}]
    <3>1. \A t \in Tenants :
             Inside(t)' = IF t = u THEN Inside(t) \cup {a} ELSE Inside(t)
      BY <1>2, <2>1 DEF Inside, LockInvariant, TypeOK
    <3>2. QED
      BY <3>1, <2>1
  <2>4. alone' = alone
    BY <1>2, <2>1 DEF Inside, InsideAlone, LockInvariant, TypeOK
  <2>5. QED
    BY <2>1, <2>2, <2>3, <2>4 DEF Promise!EnterShared
<1>3. ASSUME NEW a \in Acquisitions, NEW u \in Tenants, tenant[a] = u,
             LockReturns(a)
      PROVE Promise!EnterExclusive(u, a)
  <2>1. u \in Tenants /\ a \in InsideAlone(u)'
    BY <1>3 DEF LockReturns, callVars, LockInvariant, TypeOK, Inside, InsideAlone
  <2>2. Inside(u)' = {a}
    <3>1. Exclusion'
      BY ExclusionNext
    <3>2. QED
      BY <3>1, <2>1 DEF Exclusion
  <2>3. Inside(u) = {}
    BY <1>3, <2>1, <2>2 DEF LockReturns, callVars, LockInvariant, TypeOK, Inside
  <2>4. \A t \in Tenants : t # u => Inside(t)' = Inside(t)
    BY <1>3, <2>1 DEF LockReturns, callVars, Inside, LockInvariant, TypeOK
  <2>5. \A t \in Tenants : t # u => InsideAlone(t)' = InsideAlone(t)
    BY <1>3, <2>1, <2>4 DEF LockReturns, callVars, InsideAlone
  <2>6. InsideAlone(u)' = {a}
    BY <2>1, <2>2 DEF InsideAlone
  <2>7. /\ in' = [in EXCEPT ![u] = {a}]
        /\ alone' = [alone EXCEPT ![u] = {a}]
    BY <2>1, <2>2, <2>4, <2>5, <2>6
  <2>8. QED
    BY <2>1, <2>3, <2>7 DEF Promise!EnterExclusive
<1>4. ASSUME NEW a \in Acquisitions, NEW u \in Tenants, tenant[a] = u,
             Unlock(a), stage[a] \in {"locked", "held"}
      PROVE Promise!Leave(u, a)
  <2>1. u \in Tenants /\ a \in Inside(u)
    BY <1>4 DEF LockInvariant, TypeOK, Inside
  <2>2. /\ stage' = [stage EXCEPT ![a] = "free"]
        /\ mode' = mode /\ tenant' = tenant
    BY <1>4 DEF Unlock, callVars
  <2>3. \A t \in Tenants :
           Inside(t)' = IF t = u THEN Inside(t) \ {a} ELSE Inside(t)
    BY <2>1, <2>2 DEF Inside, LockInvariant, TypeOK
  <2>4. \A t \in Tenants :
           InsideAlone(t)' = IF t = u THEN InsideAlone(t) \ {a} ELSE InsideAlone(t)
    BY <2>2, <2>3 DEF InsideAlone
  <2>5. /\ in' = [in EXCEPT ![u] = @ \ {a}]
        /\ alone' = [alone EXCEPT ![u] = @ \ {a}]
    BY <2>1, <2>3, <2>4
  <2>6. QED
    BY <2>1, <2>5 DEF Promise!Leave
<1>5. ASSUME NEW a \in Acquisitions, RLock(a), stage'[a] = "blocked"
      PROVE in' = in /\ alone' = alone
  BY <1>5 DEF RLock, callVars, Inside, InsideAlone, LockInvariant, TypeOK
<1>6. ASSUME NEW a \in Acquisitions, NEW u \in Tenants, tenant[a] = u,
             RLock(a), stage'[a] # "blocked"
      PROVE Promise!EnterShared(u, a)
  BY <1>6, <1>2 DEF RLock, callVars, LockInvariant, TypeOK
<1>7. ASSUME NEW a \in Acquisitions, NEW u \in Tenants, tenant[a] = u,
             RLockReturns(a)
      PROVE Promise!EnterShared(u, a)
  BY <1>7, <1>2 DEF RLockReturns, callVars
<1>8. ASSUME UNCHANGED vars PROVE in' = in /\ alone' = alone
  BY <1>8 DEF vars, Inside, InsideAlone
<1>9. ASSUME NEW a \in Acquisitions PROVE tenant[a] \in Tenants
  BY DEF LockInvariant, TypeOK
<1>10. ASSUME Next PROVE [Promise!Next]_(Promise!vars)
  <2> PICK a \in Acquisitions :
        \/ \E t \in Tenants, m \in Modes : Acquire(a, t, m)
        \/ RLock(a) \/ RLockReturns(a) \/ Lock(a) \/ LockReturns(a)
        \/ Return(a) \/ Cancel(a) \/ Release(a) \/ ReleaseAbandoned(a)
    BY <1>10 DEF Next
  <2> PICK u \in Tenants : u = tenant[a]
    BY <1>9
  <2> HIDE DEF in, alone
  <2>1. \/ in' = in /\ alone' = alone
        \/ Promise!EnterShared(u, a)
        \/ Promise!EnterExclusive(u, a)
        \/ Promise!Leave(u, a)
    BY <1>1, <1>3, <1>4, <1>5, <1>6, <1>7 DEF Release, ReleaseAbandoned
  <2>2. QED
    BY <2>1 DEF Promise!Next, Promise!vars, in, alone
<1>11. QED
  BY <1>8, <1>10 DEF Promise!vars

\* The guard, with its detached goroutines and cancellations, implements the
\* abstract per-tenant exclusion its callers rely on.
THEOREM GuardImplementsExclusion == Spec => ImplementsExclusion
<1>1. Spec => []LockInvariant
  BY GuardInvariant, PTL DEF LockInvariant
<1>2. QED
  BY <1>1, InitPromise, StepPromise, PTL DEF Spec, ImplementsExclusion, Promise!Spec

==============================================================================

----------------------------- MODULE TenantGuard -----------------------------
(***************************************************************************)
(* tenantexcl.Guard (bot/internal/tenantexcl/guard.go): one Go RWMutex per *)
(* tenant, acquired in a goroutine of its own so that a caller whose       *)
(* context is cancelled stops waiting.  The acquisition of a cancelled     *)
(* caller goes through later, and a second goroutine releases it.          *)
(*                                                                         *)
(* sync.RWMutex is a library and is modelled from its contract: a waiting  *)
(* writer blocks new readers, waits only for the readers it found, and     *)
(* hands the lock to the readers that queued behind it when it unlocks.    *)
(***************************************************************************)
CONSTANTS
    Tenants,        \* owner_user_id values
    Acquisitions,   \* calls of Shared or Exclusive that can be in flight
    NoOne           \* no writer

ASSUME GuardAssumption ==
    /\ NoOne \notin Acquisitions
    /\ Tenants # {}

VARIABLES
    stage,          \* how far each acquisition is
    abandoned,      \* its caller returned ctx.Err()
    mode,           \* "shared" or "exclusive"
    tenant,         \* the tenant it is for
    readers,        \* RWMutex: the acquisitions that own the read side
    writer,         \* RWMutex: the writer that announced itself, or NoOne
    readerWait      \* RWMutex: the readers that writer still waits for

vars == <<stage, abandoned, mode, tenant, readers, writer, readerWait>>
lockVars == <<readers, writer, readerWait>>
callVars == <<abandoned, mode, tenant>>

Modes == {"shared", "exclusive"}

(***************************************************************************)
(* free     the call is over or was never made;                            *)
(* called   the goroutine exists and has not reached lock();               *)
(* blocked  inside lock();                                                 *)
(* locked   lock() returned and `done' is closed, the select has not run;  *)
(* held     the caller owns the release function.                          *)
(***************************************************************************)
Stages == {"free", "called", "blocked", "locked", "held"}

\* The acquisitions for which lock() has returned and unlock() has not run.
Inside(t) == {a \in Acquisitions : stage[a] \in {"locked", "held"} /\ tenant[a] = t}
InsideAlone(t) == {a \in Inside(t) : mode[a] = "exclusive"}

TypeOK ==
    /\ stage \in [Acquisitions -> Stages]
    /\ abandoned \in [Acquisitions -> BOOLEAN]
    /\ mode \in [Acquisitions -> Modes]
    /\ tenant \in [Acquisitions -> Tenants]
    /\ readers \in [Tenants -> SUBSET Acquisitions]
    /\ writer \in [Tenants -> Acquisitions \cup {NoOne}]
    /\ readerWait \in [Tenants -> SUBSET Acquisitions]

Init ==
    /\ stage = [a \in Acquisitions |-> "free"]
    /\ abandoned = [a \in Acquisitions |-> FALSE]
    /\ mode = [a \in Acquisitions |-> "shared"]
    /\ tenant = [a \in Acquisitions |-> CHOOSE t \in Tenants : TRUE]
    /\ readers = [t \in Tenants |-> {}]
    /\ writer = [t \in Tenants |-> NoOne]
    /\ readerWait = [t \in Tenants |-> {}]

(***************************************************************************)
(* acquire with a live context: the goroutine is spawned.  (With a context *)
(* that is already done, acquire returns before touching anything.)        *)
(***************************************************************************)
Acquire(a, t, m) ==
    /\ stage[a] = "free"
    /\ stage' = [stage EXCEPT ![a] = "called"]
    /\ abandoned' = [abandoned EXCEPT ![a] = FALSE]
    /\ mode' = [mode EXCEPT ![a] = m]
    /\ tenant' = [tenant EXCEPT ![a] = t]
    /\ UNCHANGED lockVars

\* The goroutine calls RLock.
RLock(a) ==
    LET t == tenant[a] IN
    /\ stage[a] = "called" /\ mode[a] = "shared"
    /\ \/ /\ writer[t] = NoOne
          /\ readers' = [readers EXCEPT ![t] = @ \cup {a}]
          /\ stage' = [stage EXCEPT ![a] = "locked"]
       \/ /\ writer[t] # NoOne
          /\ stage' = [stage EXCEPT ![a] = "blocked"]
          /\ UNCHANGED readers
    /\ UNCHANGED <<callVars, writer, readerWait>>

\* A writer's Unlock made the blocked reader an owner: RLock returns.
RLockReturns(a) ==
    /\ stage[a] = "blocked" /\ mode[a] = "shared"
    /\ a \in readers[tenant[a]]
    /\ stage' = [stage EXCEPT ![a] = "locked"]
    /\ UNCHANGED <<callVars, lockVars>>

\* The goroutine calls Lock: it announces itself and waits for the readers
\* that own the lock at that moment.
Lock(a) ==
    LET t == tenant[a] IN
    /\ stage[a] = "called" /\ mode[a] = "exclusive"
    /\ writer[t] = NoOne
    /\ writer' = [writer EXCEPT ![t] = a]
    /\ readerWait' = [readerWait EXCEPT ![t] = readers[t]]
    /\ stage' = [stage EXCEPT ![a] = "blocked"]
    /\ UNCHANGED <<callVars, readers>>

\* The last reader it waited for is gone: Lock returns.
LockReturns(a) ==
    /\ stage[a] = "blocked" /\ mode[a] = "exclusive"
    /\ readerWait[tenant[a]] = {}
    /\ stage' = [stage EXCEPT ![a] = "locked"]
    /\ UNCHANGED <<callVars, lockVars>>

\* Mutant: the caller gets the release function without waiting for done.
ReturnBeforeDone(a) ==
    /\ stage[a] \in {"blocked", "locked"} /\ ~abandoned[a]
    /\ stage' = [stage EXCEPT ![a] = "held"]
    /\ UNCHANGED <<callVars, lockVars>>

\* select takes <-done: the caller gets the release function.
Return(a) ==
    /\ stage[a] = "locked" /\ ~abandoned[a]
    /\ stage' = [stage EXCEPT ![a] = "held"]
    /\ UNCHANGED <<callVars, lockVars>>

\* select takes <-ctx.Done(), possible although done is closed as well: the
\* caller returns ctx.Err() and the goroutine that waits for done is spawned.
Cancel(a) ==
    /\ stage[a] \in {"called", "blocked", "locked"} /\ ~abandoned[a]
    /\ abandoned' = [abandoned EXCEPT ![a] = TRUE]
    /\ UNCHANGED <<stage, mode, tenant, lockVars>>

\* unlock(): RUnlock, or Unlock, which makes owners of the queued readers.
Unlock(a) ==
    LET t == tenant[a] IN
    /\ stage' = [stage EXCEPT ![a] = "free"]
    /\ \/ /\ mode[a] = "shared"
          /\ readers' = [readers EXCEPT ![t] = @ \ {a}]
          /\ readerWait' = [readerWait EXCEPT ![t] = @ \ {a}]
          /\ UNCHANGED writer
       \/ /\ mode[a] = "exclusive"
          /\ writer' = [writer EXCEPT ![t] = NoOne]
          /\ readers' = [readers EXCEPT ![t] =
                 {b \in Acquisitions : /\ stage[b] = "blocked"
                                       /\ mode[b] = "shared"
                                       /\ tenant[b] = t}]
          /\ UNCHANGED readerWait
    /\ UNCHANGED callVars

\* The caller runs the release function at the end of its unit of work.
Release(a) ==
    /\ stage[a] = "held"
    /\ Unlock(a)

\* Mutant: the goroutine of an abandoned acquisition does not wait for done.
ReleaseAbandonedEarly(a) ==
    /\ stage[a] \in {"blocked", "locked"} /\ abandoned[a]
    /\ Unlock(a)

\* Mutant: a cancelled caller just returns, nobody releases its acquisition.
ReleaseAbandonedNever(a) ==
    /\ abandoned[a] /\ stage[a] = "free"
    /\ Unlock(a)

\* The goroutine of an abandoned acquisition: <-done, then unlock().
ReleaseAbandoned(a) ==
    /\ stage[a] = "locked" /\ abandoned[a]
    /\ Unlock(a)

Next ==
    \E a \in Acquisitions :
        \/ \E t \in Tenants, m \in Modes : Acquire(a, t, m)
        \/ RLock(a)
        \/ RLockReturns(a)
        \/ Lock(a)
        \/ LockReturns(a)
        \/ Return(a)
        \/ Cancel(a)
        \/ Release(a)
        \/ ReleaseAbandoned(a)

Spec == Init /\ [][Next]_vars

(***************************************************************************)
(* Goroutines that can run do run, and a unit of work ends: every holder   *)
(* works under a timeout and releases by defer.  sync.Mutex hands the      *)
(* writer slot over in arrival order once a waiter starves, hence SF for   *)
(* Lock.  Nothing forces a caller to come, or a context to be cancelled.   *)
(***************************************************************************)
Fairness ==
    \A a \in Acquisitions :
        /\ WF_vars(RLock(a)) /\ WF_vars(RLockReturns(a))
        /\ SF_vars(Lock(a)) /\ WF_vars(LockReturns(a))
        /\ WF_vars(Return(a)) /\ WF_vars(Release(a))
        /\ WF_vars(ReleaseAbandoned(a))

FairSpec == Spec /\ Fairness

------------------------------------------------------------------------------
(***************************************************************************)
(* The mutex and the goroutines agree on who owns what: the read side is   *)
(* owned by shared calls that are past RLock's wait or about to be woken,  *)
(* the write side by the one exclusive call that announced itself, and     *)
(* when that call's Lock has returned no reader is left.  This is the      *)
(* inductive core of Exclusion.                                            *)
(***************************************************************************)
ReadSide ==
    /\ \A t \in Tenants : \A a \in readers[t] :
           /\ tenant[a] = t /\ mode[a] = "shared"
           /\ stage[a] \in {"blocked", "locked", "held"}
    /\ \A a \in Acquisitions :
           mode[a] = "shared" /\ stage[a] \in {"locked", "held"}
               => a \in readers[tenant[a]]

WriteSide ==
    /\ \A t \in Tenants : writer[t] # NoOne =>
           /\ tenant[writer[t]] = t /\ mode[writer[t]] = "exclusive"
           /\ stage[writer[t]] \in {"blocked", "locked", "held"}
           /\ readers[t] = readerWait[t]
    /\ \A a \in Acquisitions :
           mode[a] = "exclusive" /\ stage[a] \in {"blocked", "locked", "held"}
               => writer[tenant[a]] = a
    /\ \A a \in Acquisitions :
           mode[a] = "exclusive" /\ stage[a] \in {"locked", "held"}
               => readerWait[tenant[a]] = {}

Ownership == ReadSide /\ WriteSide

LockInvariant == TypeOK /\ Ownership

(***************************************************************************)
(* "while it is held no Exclusive of the same tenant can proceed" and two  *)
(* Confirm calls never run together: an acquisition inside on the write    *)
(* side is the only one inside, whatever was cancelled in between.         *)
(***************************************************************************)
Exclusion ==
    \A t \in Tenants : \A a \in InsideAlone(t) : Inside(t) = {a}

(***************************************************************************)
(* The guard implements the abstract promise: every step is an entry, an   *)
(* exit or a stutter of TenantExclusion.                                   *)
(***************************************************************************)
Promise == INSTANCE TenantExclusion WITH
    in <- [t \in Tenants |-> Inside(t)],
    alone <- [t \in Tenants |-> InsideAlone(t)]

ImplementsExclusion == Promise!Spec

(***************************************************************************)
(* "so no acquisition is ever leaked": the lock of a cancelled caller,     *)
(* granted after its cancellation, is given back.                          *)
(***************************************************************************)
NoLeakedAcquisition ==
    \A a \in Acquisitions : abandoned[a] /\ stage[a] # "free" ~> stage[a] = "free"

(***************************************************************************)
(* A stream of units of work does not starve an erasure, and a stream of   *)
(* erasures does not starve a unit: every acquisition goes through.        *)
(***************************************************************************)
EveryCallEntersOrGivesUp ==
    \A a \in Acquisitions :
        stage[a] = "called" ~> (stage[a] = "held" \/ abandoned[a])

==============================================================================

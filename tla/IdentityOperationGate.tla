----------------------- MODULE IdentityOperationGate -----------------------
(***************************************************************************)
(* The operation gate of one identity generation (identity.rs): an atomic  *)
(* lease count, an atomic state word and a Notify.  The World actor admits,*)
(* freezes, reopens and retires; the tasks that hold leases retain and     *)
(* release them on other threads; the session that moves the identity      *)
(* waits for the drain of its own transfer.  Each atomic load or           *)
(* read-modify-write is one step; a compare-exchange loop is the one step  *)
(* that succeeds.                                                          *)
(***************************************************************************)
EXTENDS Naturals, FiniteSets

CONSTANTS Leases,    \* the operations this generation may ever run (a bound)
          CountMax,  \* usize::MAX, the largest lease count
          U64Max     \* u64::MAX: the RETIRED word, and the last transfer id

ASSUME OperationGateAssumption == /\ IsFiniteSet(Leases)
                                  /\ CountMax \in Nat \ {0}
                                  /\ U64Max \in Nat \ {0, 1}

OPEN == 0
RETIRED == U64Max
Transfers == 1..(U64Max - 1)

VARIABLES state,     \* OPEN, RETIRED or the id of the transfer that froze it
          count,     \* active_operations
          lease,     \* where each operation is in admission, use and release
          parent,    \* the lease a retain in progress borrows
          actor,     \* what the actor is in the middle of
          place,     \* where the registry keeps this generation
          nextId,    \* next_transfer_id
          waiter,    \* position of each transfer's drain waiter
          woken      \* waiters notified since they created their Notified

vars == <<state, count, lease, parent, actor, place, nextId, waiter, woken>>

Init == /\ state = OPEN
        /\ count = 0
        /\ lease = [l \in Leases |-> "unborn"]
        /\ parent = [l \in Leases |-> l]
        /\ actor = "idle"
        /\ place = "active"
        /\ nextId = 1
        /\ waiter = [t \in Transfers |-> "none"]
        /\ woken = {}

-----------------------------------------------------------------------------
NotifyWaiters ==
    woken' = woken \cup {t \in Transfers : waiter[t] \in {"armed", "frozen2", "parked"}}

(* The operations the count stands for.                                    *)
Counted == {l \in Leases : lease[l] \in {"entering", "retaining", "live", "refused"}}

(* Variant of Admit that does not read the state word first.               *)
AdmitFrozen(l) ==
    /\ actor = "idle" /\ place = "active"
    /\ lease[l] = "unborn"
    /\ count < CountMax
    /\ count' = count + 1
    /\ lease' = [lease EXCEPT ![l] = "entering"]
    /\ actor' = "admitting"
    /\ UNCHANGED <<state, parent, place, nextId, waiter, woken>>

(* try_admit: the first load and the increment (only the actor, which is   *)
(* here, writes the state word, so nothing separates them), then the       *)
(* second load.                                                            *)
Admit(l) ==
    /\ actor = "idle" /\ place = "active"
    /\ lease[l] = "unborn"
    /\ state = OPEN
    /\ count < CountMax
    /\ count' = count + 1
    /\ lease' = [lease EXCEPT ![l] = "entering"]
    /\ actor' = "admitting"
    /\ UNCHANGED <<state, parent, place, nextId, waiter, woken>>

AdmitCheck(l) ==
    /\ lease[l] = "entering"
    /\ lease' = [lease EXCEPT ![l] = IF state = OPEN THEN "live" ELSE "refused"]
    /\ actor' = "idle"
    /\ UNCHANGED <<state, count, parent, place, nextId, waiter, woken>>

(* Variant of RetainLoad that keeps no borrow of its parent lease.         *)
RetainLoadUnborrowed(p, l) ==
    /\ lease[p] = "live" /\ lease[l] = "unborn"
    /\ state # RETIRED
    /\ lease' = [lease EXCEPT ![l] = "loaded"]
    /\ UNCHANGED <<state, count, parent, actor, place, nextId, waiter, woken>>

(* try_retain by the holder of p, which borrows p until it returns.        *)
RetainLoad(p, l) ==
    /\ lease[p] = "live" /\ lease[l] = "unborn"
    /\ state # RETIRED
    /\ lease' = [lease EXCEPT ![l] = "loaded"]
    /\ parent' = [parent EXCEPT ![l] = p]
    /\ UNCHANGED <<state, count, actor, place, nextId, waiter, woken>>

RetainIncrement(l) ==
    /\ lease[l] = "loaded"
    /\ IF count < CountMax
         THEN /\ count' = count + 1
              /\ lease' = [lease EXCEPT ![l] = "retaining"]
              /\ UNCHANGED parent
         ELSE /\ lease' = [lease EXCEPT ![l] = "done"]
              /\ parent' = [parent EXCEPT ![l] = l]
              /\ UNCHANGED count
    /\ UNCHANGED <<state, actor, place, nextId, waiter, woken>>

RetainCheck(l) ==
    /\ lease[l] = "retaining"
    /\ lease' = [lease EXCEPT ![l] = IF state = RETIRED THEN "refused" ELSE "live"]
    /\ parent' = [parent EXCEPT ![l] = l]
    /\ UNCHANGED <<state, count, actor, place, nextId, waiter, woken>>

(* Variants of Release: one forgets the notification, one decrements the   *)
(* count by two calls.                                                     *)
ReleaseSilent(l) ==
    /\ lease[l] \in {"live", "refused"}
    /\ \A c \in Leases : parent[c] = l => c = l
    /\ count' = count - 1
    /\ lease' = [lease EXCEPT ![l] = "done"]
    /\ UNCHANGED <<state, parent, actor, place, nextId, waiter, woken>>

ReleaseTwice(l) ==
    /\ lease[l] \in {"live", "refused"}
    /\ \A c \in Leases : parent[c] = l => c = l
    /\ count' = IF count < 2 THEN 0 ELSE count - 2
    /\ lease' = [lease EXCEPT ![l] = "notifying"]
    /\ UNCHANGED <<state, parent, actor, place, nextId, waiter, woken>>

(* release: the last one notifies.  A lease is dropped only when nothing   *)
(* borrows it; a count of zero is left alone.                              *)
Release(l) ==
    /\ lease[l] \in {"live", "refused"}
    /\ \A c \in Leases : parent[c] = l => c = l
    /\ count' = IF count = 0 THEN 0 ELSE count - 1
    /\ lease' = [lease EXCEPT ![l] = IF count = 1 THEN "notifying" ELSE "done"]
    /\ UNCHANGED <<state, parent, actor, place, nextId, waiter, woken>>

ReleaseNotify(l) ==
    /\ lease[l] = "notifying"
    /\ lease' = [lease EXCEPT ![l] = "done"]
    /\ NotifyWaiters
    /\ UNCHANGED <<state, count, parent, actor, place, nextId, waiter>>

-----------------------------------------------------------------------------
(* freeze by preflight_migration, which allocates the transfer id and      *)
(* hands the ticket to the moving session.                                 *)
Freeze ==
    /\ actor = "idle" /\ place = "active"
    /\ state = OPEN
    /\ nextId \in Transfers
    /\ state' = nextId
    /\ waiter' = [waiter EXCEPT ![nextId] = "check1"]
    /\ nextId' = nextId + 1
    /\ UNCHANGED <<count, lease, parent, actor, place, woken>>

(* reopen_exact by an abort, a dropped commit or the expiry sweep.         *)
Reopen ==
    /\ actor = "idle" /\ place = "active"
    /\ state \in Transfers
    /\ state' = OPEN
    /\ actor' = "reopened"
    /\ UNCHANGED <<count, lease, parent, place, nextId, waiter, woken>>

ReopenNotify ==
    /\ actor = "reopened"
    /\ actor' = "idle"
    /\ NotifyWaiters
    /\ UNCHANGED <<state, count, lease, parent, place, nextId, waiter>>

(* Variant of Lock that trusts the freeze and does not look at the count.  *)
LockUndrained ==
    /\ actor = "idle" /\ place = "active"
    /\ state \in Transfers
    /\ actor' = "locked"
    /\ UNCHANGED <<state, count, lease, parent, place, nextId, waiter, woken>>

(* validate_preflighted_migration finds the gate frozen and drained, and   *)
(* lock_prepared_migration takes the commit guard.                         *)
Lock ==
    /\ actor = "idle" /\ place = "active"
    /\ state \in Transfers
    /\ count = 0
    /\ actor' = "locked"
    /\ UNCHANGED <<state, count, lease, parent, place, nextId, waiter, woken>>

(* retire_exact by IdentityMigrationCommit::commit: the count is loaded    *)
(* and the state word, which only the actor writes, is exchanged.          *)
RetireExact ==
    /\ actor = "locked"
    /\ count = 0
    /\ state' = RETIRED
    /\ actor' = "idle"
    /\ place' = "transferred"
    /\ UNCHANGED <<count, lease, parent, nextId, waiter, woken>>

(* retire_drained, for disconnect, expiry, shutdown and the collection of  *)
(* deferred releases: load the count, swap the state, load the count again.*)
RetireDrainedLoad ==
    /\ actor = "idle" /\ place \in {"active", "deferred"}
    /\ place' = "deferred"
    /\ actor' = IF count = 0 THEN "retiring" ELSE "idle"
    /\ UNCHANGED <<state, count, lease, parent, nextId, waiter, woken>>

RetireDrainedSwap ==
    /\ actor = "retiring"
    /\ state' = RETIRED
    /\ actor' = "retired"
    /\ UNCHANGED <<count, lease, parent, place, nextId, waiter, woken>>

RetireDrainedConfirm ==
    /\ actor = "retired"
    /\ place' = IF count = 0 THEN "released" ELSE "deferred"
    /\ actor' = "idle"
    /\ UNCHANGED <<state, count, lease, parent, nextId, waiter, woken>>

-----------------------------------------------------------------------------
(* wait_until_drained: check, create the Notified, check again, await.     *)
(* Each check loads the state and then the count.                          *)
After(t, c) ==
    CASE c = "check1"  -> IF state = t THEN "frozen1" ELSE "stale"
      [] c = "frozen1" -> IF count = 0 THEN "drained" ELSE "arming"
      [] c = "arming"  -> "armed"
      [] c = "armed"   -> IF state = t THEN "frozen2" ELSE "stale"
      [] c = "frozen2" -> IF count = 0 THEN "drained" ELSE "parked"

(* Variant of Watch that parks on the first check's answer, without the    *)
(* second check behind its Notified.                                       *)
WatchOnce(t) ==
    /\ waiter[t] \in {"check1", "frozen1", "arming"}
    /\ waiter' = [waiter EXCEPT ![t] = IF @ = "arming" THEN "parked" ELSE After(t, @)]
    /\ woken' = IF waiter[t] = "arming" THEN woken \ {t} ELSE woken
    /\ UNCHANGED <<state, count, lease, parent, actor, place, nextId>>

Watch(t) ==
    /\ waiter[t] \in {"check1", "frozen1", "arming", "armed", "frozen2"}
    /\ waiter' = [waiter EXCEPT ![t] = After(t, @)]
    /\ woken' = IF waiter[t] = "arming" THEN woken \ {t} ELSE woken
    /\ UNCHANGED <<state, count, lease, parent, actor, place, nextId>>

Wake(t) ==
    /\ waiter[t] = "parked"
    /\ t \in woken
    /\ waiter' = [waiter EXCEPT ![t] = "check1"]
    /\ UNCHANGED <<state, count, lease, parent, actor, place, nextId, woken>>

-----------------------------------------------------------------------------
LeaseNext(l) == \/ AdmitCheck(l) \/ RetainIncrement(l) \/ RetainCheck(l)
                \/ Release(l) \/ ReleaseNotify(l)
ActorNext == ReopenNotify \/ RetireExact \/ RetireDrainedSwap \/ RetireDrainedConfirm
WaiterNext(t) == Watch(t) \/ Wake(t)

Next == \/ \E l \in Leases : \/ Admit(l) \/ LeaseNext(l)
                             \/ \E p \in Leases : RetainLoad(p, l)
        \/ Freeze \/ Reopen \/ Lock \/ RetireDrainedLoad \/ ActorNext
        \/ \E t \in Transfers : WaiterNext(t)

(* Accepted work ends, the actor finishes the command it is in, a waiter   *)
(* is polled when it can run.  Nothing forces a commit, an abort or the    *)
(* expiry of a permit.                                                     *)
Fairness == /\ \A l \in Leases : WF_vars(LeaseNext(l))
            /\ WF_vars(ActorNext)
            /\ \A t \in Transfers : WF_vars(WaiterNext(t))

Spec == Init /\ [][Next]_vars
FairSpec == Spec /\ Fairness

-----------------------------------------------------------------------------
(* The gate's words and every task's position are well formed.             *)
TypeOK ==
    /\ state \in 0..U64Max
    /\ count \in 0..CountMax
    /\ lease \in [Leases -> {"unborn", "entering", "loaded", "retaining", "live",
                             "refused", "notifying", "done"}]
    /\ parent \in [Leases -> Leases]
    /\ actor \in {"idle", "admitting", "reopened", "locked", "retiring", "retired"}
    /\ place \in {"active", "deferred", "transferred", "released"}
    /\ nextId \in 1..U64Max
    /\ waiter \in [Transfers -> {"none", "check1", "frozen1", "arming", "armed",
                                 "frozen2", "parked", "drained", "stale"}]
    /\ woken \in SUBSET Transfers

(* The drain count is the number of operations that hold it up, through    *)
(* every interleaving of admission, retain and release.                    *)
CountIsLeases == count = Cardinality(Counted)

(* A retired generation has no operation left and never gets one: a lease  *)
(* cannot outlive the identity generation that admitted it.                *)
RetiredIsEmpty == state = RETIRED => Counted = {}

(* "locked identity migration source must remain frozen and drained": the  *)
(* assertion of IdentityMigrationCommit::commit holds for every schedule   *)
(* of the lease holders between the validation and the swap.               *)
CommitCannotPanic == actor = "locked" => count = 0 /\ state \in Transfers

(* A drain reported to the moving session stays true while its own freeze  *)
(* lasts, although the report was read in two loads.                       *)
DrainIsStable == \A t \in Transfers : waiter[t] = "drained" /\ state = t => count = 0

(* A parked waiter whose wait is over has been, or is about to be, woken.  *)
NoStrandedWaiter ==
    \A t \in Transfers :
        waiter[t] = "parked" /\ (state # t \/ count = 0)
            => \/ t \in woken
               \/ actor = "reopened"
               \/ \E l \in Leases : lease[l] = "notifying"

(* Every drain wait ends, drained or stale.                                *)
WaitEnds == \A t \in Transfers :
                waiter[t] = "check1" ~> waiter[t] \in {"drained", "stale"}
=============================================================================

-------------------- MODULE IdentityOperationGateProofs --------------------
(***************************************************************************)
(* Proofs about IdentityOperationGate for any number of operations, any    *)
(* counter width and any number of transfers.  What makes the gate work    *)
(* without a lock is the borrow: a retain in progress holds its parent     *)
(* lease, so a count of zero means that no retain can still be on its way  *)
(* (GateSchedule).  The waiter needs one more fact: once it has seen its   *)
(* freeze for the second time, a change of the state word is announced     *)
(* (Announced).                                                            *)
(***************************************************************************)
EXTENDS IdentityOperationGate, FiniteSetTheorems, TLAPS

(* Who may be in the middle of what.                                       *)
GateSchedule ==
    /\ \A l \in Leases : lease[l] = "entering" => actor = "admitting" /\ state = OPEN
    /\ \A l \in Leases : lease[l] \in {"loaded", "retaining"} => lease[parent[l]] = "live"
    /\ \A l, m \in Leases : lease[l] = "entering" /\ lease[m] = "entering" => l = m
    /\ actor = "retiring" => count = 0
    /\ actor = "retired" => state = RETIRED

(* A waiter past its second look at the state word hears of a change.      *)
Announced ==
    \A t \in Transfers : waiter[t] = "frozen2" /\ state # t
        => t \in woken \/ actor = "reopened" \/ state = RETIRED

IndInv == /\ TypeOK /\ CountIsLeases /\ GateSchedule /\ RetiredIsEmpty
          /\ CommitCannotPanic /\ DrainIsStable /\ Announced /\ NoStrandedWaiter

(* The words of the state are told apart.                                  *)
LEMMA Words == /\ OPEN \notin Transfers /\ RETIRED \notin Transfers /\ OPEN # RETIRED
               /\ Transfers \subseteq 0..U64Max /\ OPEN \in 0..U64Max
               /\ RETIRED \in 0..U64Max
BY OperationGateAssumption DEF OperationGateAssumption, OPEN, RETIRED, Transfers

Holding == {"entering", "retaining", "live", "refused"}

(* The counted operations are finitely many.                               *)
LEMMA CountedFinite == IsFiniteSet(Counted) /\ Cardinality(Counted) \in Nat
<1>1. Counted \subseteq Leases
  BY DEF Counted
<1> QED
  BY <1>1, FS_Subset, FS_CardinalityType, OperationGateAssumption
     DEF OperationGateAssumption

(* An operation that changes its position adds itself to the counted ones, *)
(* or takes itself away, or changes nothing.                               *)
LEMMA CountedChange ==
    ASSUME TypeOK, NEW l \in Leases, NEW x, lease' = [lease EXCEPT ![l] = x]
    PROVE  Cardinality(Counted') =
             IF x \in Holding /\ lease[l] \notin Holding THEN Cardinality(Counted) + 1
             ELSE IF x \notin Holding /\ lease[l] \in Holding THEN Cardinality(Counted) - 1
             ELSE Cardinality(Counted)
<1>0. IsFiniteSet(Counted) /\ Cardinality(Counted) \in Nat
  BY CountedFinite
<1>1. CASE x \in Holding /\ lease[l] \notin Holding
  <2>1. Counted' = Counted \cup {l} /\ l \notin Counted
    BY <1>1 DEF Counted, Holding, TypeOK
  <2> QED
    BY <1>0, <1>1, <2>1, FS_AddElement
<1>2. CASE x \notin Holding /\ lease[l] \in Holding
  <2>1. Counted' = Counted \ {l} /\ l \in Counted
    BY <1>2 DEF Counted, Holding, TypeOK
  <2> QED
    BY <1>0, <1>2, <2>1, FS_RemoveElement
<1>3. CASE (x \in Holding) = (lease[l] \in Holding)
  <2>1. Counted' = Counted
    BY <1>3 DEF Counted, Holding, TypeOK
  <2> QED
    BY <1>3, <2>1
<1> QED
  BY <1>1, <1>2, <1>3

(* A drained gate has no counted operation, and so no retain on its way.   *)
LEMMA DrainedIsEmpty ==
    ASSUME TypeOK, CountIsLeases, GateSchedule, count = 0
    PROVE  Counted = {} /\ \A l \in Leases : lease[l] \notin Holding \cup {"loaded"}
<1>1. Counted = {}
  BY CountedFinite, FS_EmptySet DEF CountIsLeases
<1>2. \A l \in Leases : lease[l] \notin Holding
  BY <1>1 DEF Counted, Holding
<1>3. \A l \in Leases : lease[l] # "loaded"
  <2> SUFFICES ASSUME NEW l \in Leases, lease[l] = "loaded" PROVE FALSE
    OBVIOUS
  <2>1. parent[l] \in Leases /\ lease[parent[l]] = "live"
    BY DEF TypeOK, GateSchedule
  <2> QED
    BY <1>2, <2>1 DEF Holding
<1> QED
  BY <1>1, <1>2, <1>3

(* A counted operation keeps the count above zero and the gate unretired,  *)
(* so a release never underflows and a retain never revives.               *)
LEMMA HeldIsCounted ==
    ASSUME TypeOK, CountIsLeases, GateSchedule, RetiredIsEmpty, NEW l \in Leases,
           lease[l] \in Holding \cup {"loaded"}
    PROVE  count \in 1..CountMax /\ state # RETIRED
<1>1. count # 0
  BY DrainedIsEmpty
<1>2. state # RETIRED
  BY <1>1, FS_EmptySet DEF CountIsLeases, RetiredIsEmpty
<1>3. count \in 0..CountMax
  BY DEF TypeOK
<1> QED
  BY <1>1, <1>2, <1>3, OperationGateAssumption DEF OperationGateAssumption

(* Every new gate satisfies the inductive invariant.                       *)
LEMMA InitInd == Init => IndInv
<1> SUFFICES ASSUME Init PROVE IndInv
  OBVIOUS
<1>1. TypeOK
  BY Words, OperationGateAssumption DEF OperationGateAssumption, Init, TypeOK
<1>2. Counted = {}
  BY DEF Init, Counted
<1>3. CountIsLeases
  BY <1>2, FS_EmptySet DEF Init, CountIsLeases
<1>4. RetiredIsEmpty /\ CommitCannotPanic /\ DrainIsStable /\ Announced /\ NoStrandedWaiter
  BY <1>2 DEF Init, RetiredIsEmpty, CommitCannotPanic, DrainIsStable, Announced,
              NoStrandedWaiter
<1>5. GateSchedule
  BY DEF Init, GateSchedule
<1> QED
  BY <1>1, <1>3, <1>4, <1>5 DEF IndInv

(* Where a waiter goes, as far as the invariants ask.                      *)
LEMMA AfterIs ==
    ASSUME NEW t \in Transfers,
           waiter[t] \in {"check1", "frozen1", "arming", "armed", "frozen2"}
    PROVE  /\ After(t, waiter[t]) = "frozen2" => waiter[t] = "armed" /\ state = t
           /\ After(t, waiter[t]) = "parked" => waiter[t] = "frozen2" /\ count # 0
           /\ After(t, waiter[t]) = "drained" => count = 0
BY DEF After

(* Where a waiter goes next is one of its positions.                       *)
LEMMA AfterType ==
    ASSUME NEW t \in Transfers,
           waiter[t] \in {"check1", "frozen1", "arming", "armed", "frozen2"}
    PROVE  After(t, waiter[t]) \in {"frozen1", "arming", "armed", "frozen2", "parked",
                                    "drained", "stale"}
BY DEF After

(* Every step keeps the words and the positions well formed.               *)
LEMMA StepType ==
    ASSUME TypeOK, CountIsLeases, GateSchedule, RetiredIsEmpty, [Next]_vars PROVE TypeOK'
<1> USE OperationGateAssumption DEF OperationGateAssumption
<1>1. ASSUME NEW l \in Leases, Admit(l) PROVE TypeOK'
  <2>1. count' \in 0..CountMax
    BY <1>1 DEF Admit, TypeOK
  <2> QED
    BY <1>1, <2>1 DEF Admit, TypeOK
<1>2. ASSUME NEW l \in Leases, RetainIncrement(l) PROVE TypeOK'
  <2>1. count' \in 0..CountMax
    BY <1>2 DEF RetainIncrement, TypeOK
  <2> QED
    BY <1>2, <2>1 DEF RetainIncrement, TypeOK
<1>3. ASSUME NEW l \in Leases, Release(l) PROVE TypeOK'
  <2>1. count' \in 0..CountMax
    BY <1>3 DEF Release, TypeOK
  <2> QED
    BY <1>3, <2>1 DEF Release, TypeOK
<1>4. ASSUME NEW l \in Leases, AdmitCheck(l) \/ RetainCheck(l) \/ ReleaseNotify(l)
      PROVE TypeOK'
  BY <1>4 DEF AdmitCheck, RetainCheck, ReleaseNotify, NotifyWaiters, TypeOK
<1>5. ASSUME NEW p \in Leases, NEW l \in Leases, RetainLoad(p, l) PROVE TypeOK'
  BY <1>5 DEF RetainLoad, TypeOK
<1>6. CASE Freeze
  <2>1. state' \in 0..U64Max /\ nextId' \in 1..U64Max
    BY <1>6 DEF Freeze, Transfers
  <2> QED
    BY <1>6, <2>1 DEF Freeze, TypeOK
<1>7. CASE Reopen \/ ReopenNotify \/ Lock
  BY <1>7, Words DEF Reopen, ReopenNotify, NotifyWaiters, Lock, TypeOK
<1>8. CASE RetireExact \/ RetireDrainedLoad \/ RetireDrainedSwap \/ RetireDrainedConfirm
  BY <1>8, Words DEF RetireExact, RetireDrainedLoad, RetireDrainedSwap,
                     RetireDrainedConfirm, TypeOK
<1>9. ASSUME NEW t \in Transfers, Watch(t) PROVE TypeOK'
  <2>1. After(t, waiter[t]) \in {"frozen1", "arming", "armed", "frozen2", "parked",
                                  "drained", "stale"}
    BY <1>9, AfterType DEF Watch
  <2> QED
    BY <1>9, <2>1 DEF Watch, TypeOK
<1>10. ASSUME NEW t \in Transfers, Wake(t) PROVE TypeOK'
  BY <1>10 DEF Wake, TypeOK
<1>11. CASE UNCHANGED vars
  BY <1>11 DEF vars, TypeOK
<1> QED
  BY <1>1, <1>2, <1>3, <1>4, <1>5, <1>6, <1>7, <1>8, <1>9, <1>10, <1>11
     DEF Next, LeaseNext, ActorNext, WaiterNext

(* The count follows the operations one at a time.                         *)
LEMMA StepCount ==
    ASSUME TypeOK, CountIsLeases, GateSchedule, RetiredIsEmpty, [Next]_vars
    PROVE  CountIsLeases'
<1>0. count \in Nat /\ Cardinality(Counted) \in Nat
  BY CountedFinite, OperationGateAssumption DEF TypeOK, OperationGateAssumption
<1>1. ASSUME NEW l \in Leases, Admit(l) PROVE CountIsLeases'
  <2>1. Cardinality(Counted') = Cardinality(Counted) + 1
    BY <1>1, CountedChange DEF Admit, Holding
  <2> QED
    BY <1>1, <2>1 DEF Admit, CountIsLeases
<1>2. ASSUME NEW l \in Leases, RetainIncrement(l) PROVE CountIsLeases'
  <2>1. CASE count < CountMax
    <3>1. Cardinality(Counted') = Cardinality(Counted) + 1
      BY <1>2, <2>1, CountedChange DEF RetainIncrement, Holding
    <3> QED
      BY <1>2, <2>1, <3>1 DEF RetainIncrement, CountIsLeases
  <2>2. CASE ~(count < CountMax)
    <3>1. Cardinality(Counted') = Cardinality(Counted)
      BY <1>2, <2>2, CountedChange DEF RetainIncrement, Holding
    <3> QED
      BY <1>2, <2>2, <3>1 DEF RetainIncrement, CountIsLeases
  <2> QED
    BY <2>1, <2>2
<1>3. ASSUME NEW l \in Leases, Release(l) PROVE CountIsLeases'
  <2>1. count \in 1..CountMax
    BY <1>3, HeldIsCounted DEF Release, Holding
  <2>2. PICK x \in {"notifying", "done"} : lease' = [lease EXCEPT ![l] = x]
    BY <1>3 DEF Release
  <2>3. Cardinality(Counted') = Cardinality(Counted) - 1
    BY <1>3, <2>2, CountedChange DEF Release, Holding
  <2> QED
    BY <1>0, <1>3, <2>1, <2>3 DEF Release, CountIsLeases
<1>4. ASSUME NEW l \in Leases, AdmitCheck(l) PROVE CountIsLeases'
  <2>1. PICK x \in {"live", "refused"} : lease' = [lease EXCEPT ![l] = x]
    BY <1>4 DEF AdmitCheck
  <2>2. Cardinality(Counted') = Cardinality(Counted)
    BY <1>4, <2>1, CountedChange DEF AdmitCheck, Holding
  <2> QED
    BY <1>4, <2>2 DEF AdmitCheck, CountIsLeases
<1>5. ASSUME NEW l \in Leases, RetainCheck(l) PROVE CountIsLeases'
  <2>1. PICK x \in {"live", "refused"} : lease' = [lease EXCEPT ![l] = x]
    BY <1>5 DEF RetainCheck
  <2>2. Cardinality(Counted') = Cardinality(Counted)
    BY <1>5, <2>1, CountedChange DEF RetainCheck, Holding
  <2> QED
    BY <1>5, <2>2 DEF RetainCheck, CountIsLeases
<1>6. ASSUME NEW l \in Leases, ReleaseNotify(l) PROVE CountIsLeases'
  <2>1. Counted' = Counted
    BY <1>6 DEF ReleaseNotify, Counted, TypeOK
  <2> QED
    BY <1>6, <2>1 DEF ReleaseNotify, CountIsLeases
<1>7. ASSUME NEW p \in Leases, NEW l \in Leases, RetainLoad(p, l) PROVE CountIsLeases'
  <2>1. Cardinality(Counted') = Cardinality(Counted)
    BY <1>7, CountedChange DEF RetainLoad, Holding
  <2> QED
    BY <1>7, <2>1 DEF RetainLoad, CountIsLeases
<1>8. CASE UNCHANGED <<count, lease>>
  BY <1>8 DEF CountIsLeases, Counted
<1>9. ASSUME NEW t \in Transfers, Watch(t) \/ Wake(t) PROVE UNCHANGED <<count, lease>>
  BY <1>9 DEF Watch, Wake
<1>10. ASSUME Freeze \/ Reopen \/ Lock \/ RetireDrainedLoad \/ ActorNext
       PROVE  UNCHANGED <<count, lease>>
  BY <1>10 DEF Freeze, Reopen, Lock, RetireDrainedLoad, ActorNext, ReopenNotify, RetireExact,
               RetireDrainedSwap, RetireDrainedConfirm
<1> QED
  BY <1>1, <1>2, <1>3, <1>4, <1>5, <1>6, <1>7, <1>8, <1>9, <1>10
     DEF Next, LeaseNext, WaiterNext, vars

(* Every step keeps the borrows and the order of the actor's steps.        *)
LEMMA StepSchedule ==
    ASSUME TypeOK, CountIsLeases, GateSchedule, RetiredIsEmpty, CommitCannotPanic,
           [Next]_vars
    PROVE  GateSchedule'
<1> USE DEF GateSchedule
<1>1. ASSUME NEW l \in Leases, Admit(l) PROVE GateSchedule'
  BY <1>1 DEF Admit, TypeOK
<1>2. ASSUME NEW l \in Leases, AdmitCheck(l) PROVE GateSchedule'
  BY <1>2 DEF AdmitCheck, TypeOK
<1>3. ASSUME NEW p \in Leases, NEW l \in Leases, RetainLoad(p, l) PROVE GateSchedule'
  BY <1>3 DEF RetainLoad, TypeOK
<1>4. ASSUME NEW l \in Leases, RetainIncrement(l) PROVE GateSchedule'
  <2>1. count # 0
    BY <1>4, DrainedIsEmpty DEF RetainIncrement
  <2> QED
    BY <1>4, <2>1 DEF RetainIncrement, TypeOK
<1>5. ASSUME NEW l \in Leases, RetainCheck(l) PROVE GateSchedule'
  BY <1>5 DEF RetainCheck, TypeOK
<1>6. ASSUME NEW l \in Leases, Release(l) PROVE GateSchedule'
  <2>1. \A c \in Leases : lease[c] \in {"loaded", "retaining"} => parent[c] # l
    BY <1>6 DEF Release, TypeOK
  <2>2. count = 0 => count' = 0
    BY <1>6 DEF Release
  <2>3. \A c \in Leases : lease'[c] = IF c = l THEN lease'[l] ELSE lease[c]
    BY <1>6 DEF Release, TypeOK
  <2>4. lease'[l] \in {"notifying", "done"}
    BY <1>6 DEF Release, TypeOK
  <2> QED
    BY <1>6, <2>1, <2>2, <2>3, <2>4 DEF Release, TypeOK
<1>7. ASSUME NEW l \in Leases, ReleaseNotify(l) PROVE GateSchedule'
  BY <1>7 DEF ReleaseNotify, TypeOK
<1>8. CASE Freeze \/ Reopen \/ ReopenNotify \/ Lock
  BY <1>8 DEF Freeze, Reopen, ReopenNotify, Lock
<1>9. CASE RetireExact \/ RetireDrainedLoad \/ RetireDrainedSwap \/ RetireDrainedConfirm
  BY <1>9 DEF RetireExact, RetireDrainedLoad, RetireDrainedSwap, RetireDrainedConfirm
<1>10. ASSUME NEW t \in Transfers, Watch(t) \/ Wake(t) PROVE GateSchedule'
  BY <1>10 DEF Watch, Wake
<1>11. CASE UNCHANGED vars
  BY <1>11 DEF vars
<1> QED
  BY <1>1, <1>2, <1>3, <1>4, <1>5, <1>6, <1>7, <1>8, <1>9, <1>10, <1>11
     DEF Next, LeaseNext, ActorNext, WaiterNext

(* A retired gate stays empty, and a locked one frozen and drained: an     *)
(* admission needs the open state, a retain a live parent.                 *)
LEMMA StepRetired ==
    ASSUME TypeOK, CountIsLeases, GateSchedule, RetiredIsEmpty, CommitCannotPanic,
           [Next]_vars
    PROVE  RetiredIsEmpty' /\ CommitCannotPanic'
<1> USE Words DEF RetiredIsEmpty, CommitCannotPanic
<1>1. ASSUME NEW l \in Leases, Admit(l) PROVE RetiredIsEmpty' /\ CommitCannotPanic'
  BY <1>1 DEF Admit
<1>2. ASSUME NEW l \in Leases, RetainIncrement(l) PROVE RetiredIsEmpty' /\ CommitCannotPanic'
  <2>1. count # 0 /\ state # RETIRED
    BY <1>2, HeldIsCounted DEF RetainIncrement
  <2> QED
    BY <1>2, <2>1 DEF RetainIncrement
<1>3. ASSUME NEW l \in Leases, AdmitCheck(l) \/ RetainCheck(l) \/ Release(l)
      PROVE RetiredIsEmpty' /\ CommitCannotPanic'
  <2>1. count # 0 /\ state # RETIRED
    BY <1>3, HeldIsCounted DEF AdmitCheck, RetainCheck, Release, Holding
  <2> QED
    BY <1>3, <2>1 DEF AdmitCheck, RetainCheck, Release
<1>4. ASSUME NEW l \in Leases, ReleaseNotify(l) PROVE RetiredIsEmpty' /\ CommitCannotPanic'
  <2>1. Counted' \subseteq Counted
    BY <1>4 DEF ReleaseNotify, Counted, TypeOK
  <2> QED
    BY <1>4, <2>1 DEF ReleaseNotify
<1>5. ASSUME NEW p \in Leases, NEW l \in Leases, RetainLoad(p, l)
      PROVE RetiredIsEmpty' /\ CommitCannotPanic'
  BY <1>5 DEF RetainLoad
<1>6. CASE Freeze \/ Reopen \/ ReopenNotify \/ Lock \/ RetireDrainedLoad
  BY <1>6 DEF Freeze, Reopen, ReopenNotify, Lock, RetireDrainedLoad, Counted
<1>7. CASE RetireExact \/ RetireDrainedSwap
  <2>1. Counted = {} /\ Counted' = Counted
    BY <1>7, DrainedIsEmpty DEF RetireExact, RetireDrainedSwap, GateSchedule, Counted
  <2> QED
    BY <1>7, <2>1 DEF RetireExact, RetireDrainedSwap
<1>8. CASE RetireDrainedConfirm
  BY <1>8 DEF RetireDrainedConfirm, Counted
<1>9. ASSUME NEW t \in Transfers, Watch(t) \/ Wake(t)
      PROVE RetiredIsEmpty' /\ CommitCannotPanic'
  BY <1>9 DEF Watch, Wake, Counted
<1>10. CASE UNCHANGED vars
  BY <1>10 DEF vars, Counted
<1> QED
  BY <1>1, <1>2, <1>3, <1>4, <1>5, <1>6, <1>7, <1>8, <1>9, <1>10
     DEF Next, LeaseNext, ActorNext, WaiterNext

(* The waiters: a step that does not move a waiter, wakes no less and      *)
(* neither drains the gate nor changes its word keeps their invariants.    *)
WaitersKept == DrainIsStable' /\ Announced' /\ NoStrandedWaiter'

LEMMA StepWaiters ==
    ASSUME IndInv, TypeOK', [Next]_vars PROVE WaitersKept
<1> USE Words DEF IndInv, DrainIsStable, Announced, NoStrandedWaiter, WaitersKept
<1>1. ASSUME NEW l \in Leases, Admit(l) PROVE WaitersKept
  <2>1. \A m \in Leases : lease[m] = "notifying" => lease'[m] = "notifying"
    BY <1>1 DEF Admit, TypeOK
  <2>2. count' # 0 /\ state = OPEN /\ actor = "idle"
    BY <1>1, OperationGateAssumption DEF Admit, TypeOK, OperationGateAssumption
  <2> QED
    BY <1>1, <2>1, <2>2 DEF Admit
<1>2. ASSUME NEW l \in Leases, AdmitCheck(l) PROVE WaitersKept
  <2>1. \A m \in Leases : lease[m] = "notifying" => lease'[m] = "notifying"
    BY <1>2 DEF AdmitCheck, TypeOK
  <2>2. actor = "admitting"
    BY <1>2 DEF AdmitCheck, GateSchedule
  <2> QED
    BY <1>2, <2>1, <2>2 DEF AdmitCheck
<1>3. ASSUME NEW l \in Leases, RetainIncrement(l) PROVE WaitersKept
  <2>1. \A m \in Leases : lease[m] = "notifying" => lease'[m] = "notifying"
    BY <1>3 DEF RetainIncrement, TypeOK
  <2>2. count \in 1..CountMax
    BY <1>3, HeldIsCounted DEF RetainIncrement
  <2>3. count' # 0 /\ count # 0
    BY <1>3, <2>2, OperationGateAssumption DEF RetainIncrement, OperationGateAssumption
  <2> QED
    BY <1>3, <2>1, <2>3 DEF RetainIncrement
<1>4. ASSUME NEW l \in Leases, RetainCheck(l) PROVE WaitersKept
  <2>1. \A m \in Leases : lease[m] = "notifying" => lease'[m] = "notifying"
    BY <1>4 DEF RetainCheck, TypeOK
  <2> QED
    BY <1>4, <2>1 DEF RetainCheck
<1>5. ASSUME NEW p \in Leases, NEW l \in Leases, RetainLoad(p, l) PROVE WaitersKept
  <2>1. \A m \in Leases : lease[m] = "notifying" => lease'[m] = "notifying"
    BY <1>5 DEF RetainLoad, TypeOK
  <2> QED
    BY <1>5, <2>1 DEF RetainLoad
<1>6. ASSUME NEW l \in Leases, Release(l) PROVE WaitersKept
  <2>1. \A m \in Leases : lease[m] = "notifying" => lease'[m] = "notifying"
    BY <1>6 DEF Release, TypeOK
  <2>2. count \in 1..CountMax
    BY <1>6, HeldIsCounted DEF Release, Holding
  <2>3. count' = 0 => lease'[l] = "notifying"
    BY <1>6, <2>2, OperationGateAssumption DEF Release, TypeOK, OperationGateAssumption
  <2>4. count # 0
    BY <2>2, OperationGateAssumption DEF OperationGateAssumption
  <2> QED
    BY <1>6, <2>1, <2>3, <2>4 DEF Release
<1>7. ASSUME NEW l \in Leases, ReleaseNotify(l) PROVE WaitersKept
  <2>1. \A t \in Transfers : waiter[t] = "parked" => t \in woken'
    BY <1>7 DEF ReleaseNotify, NotifyWaiters
  <2>2. woken \subseteq woken' /\ UNCHANGED <<state, count, actor, waiter>>
    BY <1>7 DEF ReleaseNotify, NotifyWaiters
  <2> QED
    BY <2>1, <2>2
<1>8. CASE Freeze
  <2>1. state = OPEN /\ actor = "idle" /\ nextId \in Transfers /\ state' = nextId
        /\ UNCHANGED <<count, lease, actor, woken>>
    BY <1>8 DEF Freeze
  <2>2. \A t \in Transfers : waiter'[t] = IF t = nextId THEN "check1" ELSE waiter[t]
    BY <1>8 DEF Freeze, TypeOK
  <2> QED
    BY <2>1, <2>2
<1>9. CASE Reopen
  BY <1>9 DEF Reopen
<1>10. CASE ReopenNotify
  <2>1. \A t \in Transfers : waiter[t] \in {"frozen2", "parked"} => t \in woken'
    BY <1>10 DEF ReopenNotify, NotifyWaiters
  <2>2. woken \subseteq woken' /\ UNCHANGED <<state, count, lease, waiter>>
    BY <1>10 DEF ReopenNotify, NotifyWaiters
  <2> QED
    BY <2>1, <2>2
<1>11. CASE Lock \/ RetireDrainedLoad
  BY <1>11 DEF Lock, RetireDrainedLoad
<1>12. CASE RetireExact
  BY <1>12 DEF RetireExact
<1>13. CASE RetireDrainedSwap
  BY <1>13 DEF RetireDrainedSwap, GateSchedule
<1>14. CASE RetireDrainedConfirm
  BY <1>14 DEF RetireDrainedConfirm
<1>15. ASSUME NEW t \in Transfers, Watch(t) PROVE WaitersKept
  <2>1. \A u \in Transfers : u # t => waiter'[u] = waiter[u] /\ (u \in woken' <=> u \in woken)
    BY <1>15 DEF Watch, TypeOK
  <2>2. /\ waiter'[t] = "frozen2" => waiter[t] = "armed" /\ state = t
        /\ waiter'[t] = "parked" => waiter[t] = "frozen2" /\ count # 0
        /\ waiter'[t] = "drained" => count = 0
    <3>1. waiter'[t] = After(t, waiter[t])
      BY <1>15 DEF Watch, TypeOK
    <3> QED
      BY <1>15, <3>1, AfterIs DEF Watch
  <2>3. waiter[t] # "arming" => woken' = woken
    BY <1>15 DEF Watch
  <2>4. UNCHANGED <<state, count, lease, actor>>
    BY <1>15 DEF Watch
  <2>5. state = RETIRED => count = 0
    BY FS_EmptySet DEF RetiredIsEmpty, CountIsLeases
  <2> QED
    BY <2>1, <2>2, <2>3, <2>4, <2>5
<1>16. ASSUME NEW t \in Transfers, Wake(t) PROVE WaitersKept
  <2>1. \A u \in Transfers : waiter'[u] = IF u = t THEN "check1" ELSE waiter[u]
    BY <1>16 DEF Wake, TypeOK
  <2> QED
    BY <1>16, <2>1 DEF Wake
<1>17. CASE UNCHANGED vars
  BY <1>17 DEF vars
<1> QED
  BY <1>1, <1>2, <1>3, <1>4, <1>5, <1>6, <1>7, <1>8, <1>9, <1>10, <1>11, <1>12, <1>13,
     <1>14, <1>15, <1>16, <1>17
     DEF Next, LeaseNext, ActorNext, WaiterNext

-----------------------------------------------------------------------------
(* The inductive invariant holds in every behaviour of the gate.           *)
THEOREM OperationGateInvariant == Spec => []IndInv
<1>1. IndInv /\ [Next]_vars => IndInv'
  <2> SUFFICES ASSUME IndInv, [Next]_vars PROVE IndInv'
    OBVIOUS
  <2>1. TypeOK' /\ CountIsLeases' /\ GateSchedule'
    BY StepType, StepCount, StepSchedule DEF IndInv
  <2>2. RetiredIsEmpty' /\ CommitCannotPanic'
    BY StepRetired DEF IndInv
  <2>3. DrainIsStable' /\ Announced' /\ NoStrandedWaiter'
    BY <2>1, StepWaiters DEF WaitersKept
  <2> QED
    BY <2>1, <2>2, <2>3 DEF IndInv
<1> QED
  BY InitInd, <1>1, PTL DEF Spec

(* The lease count of identity.rs is exact: it is the number of operations *)
(* between their increment and their release, whatever the schedule.       *)
THEOREM LeasesCounted == Spec => []CountIsLeases
<1>1. IndInv => CountIsLeases
  BY DEF IndInv
<1> QED
  BY OperationGateInvariant, <1>1, PTL

(* The assertion of IdentityMigrationCommit::commit cannot fail: between   *)
(* the validation and the exchange no lease appears and no word changes.   *)
THEOREM CommitSafe == Spec => []CommitCannotPanic
<1>1. IndInv => CommitCannotPanic
  BY DEF IndInv
<1> QED
  BY OperationGateInvariant, <1>1, PTL

(* A retired generation has no operation, although try_retain may have     *)
(* read the state word before retire_drained swapped it.                   *)
THEOREM RetiredEmpty == Spec => []RetiredIsEmpty
<1>1. IndInv => RetiredIsEmpty
  BY DEF IndInv
<1> QED
  BY OperationGateInvariant, <1>1, PTL

(* A drain that wait_until_drained reported holds for as long as its own   *)
(* freeze does.                                                            *)
THEOREM DrainStable == Spec => []DrainIsStable
<1>1. IndInv => DrainIsStable
  BY DEF IndInv
<1> QED
  BY OperationGateInvariant, <1>1, PTL

(* wait_until_drained loses no wakeup: its second check behind the         *)
(* Notified closes the window between the check and the await.             *)
THEOREM WaiterNotStranded == Spec => []NoStrandedWaiter
<1>1. IndInv => NoStrandedWaiter
  BY DEF IndInv
<1> QED
  BY OperationGateInvariant, <1>1, PTL

(* The gate is type correct: the count never leaves its width.             *)
THEOREM OperationGateTypeCorrect == Spec => []TypeOK
<1>1. IndInv => TypeOK
  BY DEF IndInv
<1> QED
  BY OperationGateInvariant, <1>1, PTL
=============================================================================

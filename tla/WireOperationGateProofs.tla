---------------------- MODULE WireOperationGateProofs ----------------------
(***************************************************************************)
(* Proofs about WireOperationGate for any number of guard holders and      *)
(* sessions and any counter width.  The properties are not inductive as    *)
(* they stand: a drain is final only because its phase keeps admission     *)
(* closed, and a wakeup cannot be lost only because the supervisor waits   *)
(* in no phase but a drain.  ShutdownOrder adds those facts.               *)
(***************************************************************************)
EXTENDS WireOperationGate, FiniteSetTheorems, TLAPS

Past(p) == CASE p = "requests" -> {"closingRequests", "drainRequests", "producers",
                                   "closingOutbound", "drainOutbound", "sealed"}
             [] p = "outbound" -> {"closingOutbound", "drainOutbound", "sealed"}

ShutdownOrder ==
    /\ phase \in Past("requests") => "request" \notin accepting
    /\ phase \in Past("outbound") => "outbound" \notin accepting
    /\ wait[Supervisor] \in {"armed", "parked"} => phase \in {"drainRequests", "drainOutbound"}

IndInv == TypeOK /\ CountsAreGuards /\ ShutdownOrder /\ GracefulDrainIsFinal /\ NoLostWakeup

Live(k) == {h \in Holders : guard[h] = k}

(* The guards of one kind are finitely many.                               *)
LEMMA LiveFinite ==
    \A k : IsFiniteSet(Live(k)) /\ Cardinality(Live(k)) \in Nat
<1> TAKE k
<1>1. Live(k) \subseteq Holders
  BY DEF Live
<1> QED
  BY <1>1, FS_Subset, FS_CardinalityType, GateAssumption DEF GateAssumption

(* A holder that receives a guard adds one to the guards of its kind, and  *)
(* one that gives it up takes one away: guards are counted one at a time.  *)
LEMMA LiveChange ==
    ASSUME TypeOK, NEW h \in Holders, NEW g, guard' = [guard EXCEPT ![h] = g]
    PROVE  \A k : Cardinality(Live(k)') =
                    IF g = k /\ guard[h] # k THEN Cardinality(Live(k)) + 1
                    ELSE IF g # k /\ guard[h] = k THEN Cardinality(Live(k)) - 1
                    ELSE Cardinality(Live(k))
<1> TAKE k
<1>0. IsFiniteSet(Live(k)) /\ Cardinality(Live(k)) \in Nat
  BY LiveFinite
<1>1. CASE g = k /\ guard[h] # k
  <2>1. Live(k)' = Live(k) \cup {h} /\ h \notin Live(k)
    BY <1>1 DEF Live, TypeOK
  <2> QED
    BY <1>0, <1>1, <2>1, FS_AddElement
<1>2. CASE g # k /\ guard[h] = k
  <2>1. Live(k)' = Live(k) \ {h} /\ h \in Live(k)
    BY <1>2 DEF Live, TypeOK
  <2> QED
    BY <1>0, <1>2, <2>1, FS_RemoveElement
<1>3. CASE ~(g = k /\ guard[h] # k) /\ ~(g # k /\ guard[h] = k)
  <2>1. Live(k)' = Live(k)
    BY <1>3 DEF Live, TypeOK
  <2> QED
    BY <1>3, <2>1
<1> QED
  BY <1>1, <1>2, <1>3

(* Counting is unaffected by a step that leaves the guards alone.          *)
LEMMA CountsKept ==
    ASSUME CountsAreGuards, UNCHANGED <<active, guard>>
    PROVE  CountsAreGuards'
BY DEF CountsAreGuards

(* A live guard is counted, so dropping it never underflows its counter.   *)
LEMMA GuardIsCounted ==
    ASSUME TypeOK, CountsAreGuards, NEW h \in Holders, guard[h] \in Kind
    PROVE  active[guard[h]] \in 1..CountMax
<1> DEFINE k == guard[h]
<1>1. active[k] = Cardinality(Live(k)) /\ active[k] \in 0..CountMax
  BY DEF CountsAreGuards, Live, TypeOK
<1>2. h \in Live(k)
  BY DEF Live
<1>3. Cardinality(Live(k)) # 0
  BY <1>2, LiveFinite, FS_EmptySet
<1> QED
  BY <1>1, <1>3, GateAssumption DEF GateAssumption

(* The initial state satisfies the inductive invariant.                    *)
LEMMA InitInd == Init => IndInv
<1> SUFFICES ASSUME Init PROVE IndInv
  OBVIOUS
<1>1. TypeOK
  <2>1. active \in [Kind -> 0..CountMax]
    BY GateAssumption DEF GateAssumption, Init, Kind
  <2>2. accepting \in SUBSET Kind /\ woken \in SUBSET Waiters
    BY DEF Init
  <2>3. /\ guard \in [Holders -> Kind \cup {"none", "notifying"}]
        /\ wait \in [Waiters -> {"out", "armed", "parked", "left"}]
    BY DEF Init
  <2> QED
    BY <2>1, <2>2, <2>3 DEF Init, TypeOK, Phase
<1>2. CountsAreGuards
  <2> SUFFICES ASSUME NEW k \in Kind PROVE active[k] = Cardinality(Live(k))
    BY DEF CountsAreGuards, Live
  <2>1. Live(k) = {}
    BY DEF Init, Live, Kind
  <2> QED
    BY <2>1, FS_EmptySet DEF Init
<1>3. ShutdownOrder /\ GracefulDrainIsFinal /\ NoLostWakeup
  BY DEF Init, ShutdownOrder, GracefulDrainIsFinal, NoLostWakeup, Past, Waiters
<1> QED
  BY <1>1, <1>2, <1>3 DEF IndInv

(* Every step keeps the gate's type; only guard drops need an argument.    *)
LEMMA StepType == ASSUME TypeOK, CountsAreGuards, [Next]_vars PROVE TypeOK'
<1> USE GateAssumption DEF GateAssumption, TypeOK, Kind, Waiters
<1>1. ASSUME NEW h \in Holders, NEW k \in Kind, TryBegin(h, k) PROVE TypeOK'
  <2>1. active[k] \in Nat /\ active[k] <= CountMax
    BY <1>1
  <2>2. CASE active[k] < CountMax
    <3>1. active[k] + 1 \in 0..CountMax
      BY <2>1, <2>2
    <3>2. active' = [active EXCEPT ![k] = @ + 1] /\ guard' = [guard EXCEPT ![h] = k]
          /\ UNCHANGED <<accepting, bypassed, phase, operator, wait, woken>>
      BY <1>1, <2>1, <2>2 DEF TryBegin
    <3>3. active' \in [Kind -> 0..CountMax]
      BY <3>1, <3>2
    <3> QED
      BY <3>2, <3>3
  <2>3. CASE active[k] = CountMax
    <3>1. /\ accepting' = accepting \ {k} /\ guard' = [guard EXCEPT ![h] = "notifying"]
          /\ UNCHANGED <<active, bypassed, phase, operator, wait, woken>>
      BY <1>1, <2>1, <2>3 DEF TryBegin
    <3> QED
      BY <3>1
  <2> QED
    BY <1>1, <2>2, <2>3 DEF TryBegin
<1>2. ASSUME NEW h \in Holders, DropGuard(h) PROVE TypeOK'
  BY <1>2, GuardIsCounted DEF DropGuard
<1>3. ASSUME NEW h \in Holders, HolderNotify(h) PROVE TypeOK'
  BY <1>3 DEF HolderNotify, NotifyWaiters
<1>4. CASE ForceFlag \/ OperatorNext
  BY <1>4 DEF ForceFlag, OperatorNext, ForceBypass, OperatorNotify, CloseBoth, NotifyWaiters
<1>5. CASE CloseRequestAdmission \/ AbandonWireOperations \/ CloseOutboundAdmission
  BY <1>5 DEF CloseRequestAdmission, AbandonWireOperations, CloseOutboundAdmission,
              CloseBoth, Phase
<1>6. CASE SupervisorNotify
  BY <1>6 DEF SupervisorNotify, NotifyWaiters, AfterNotify, Phase
<1>7. CASE SupervisorDrained
  BY <1>7 DEF SupervisorDrained, CloseBoth, Phase
<1>8. ASSUME NEW w \in Waiters, WaiterNext(w) PROVE TypeOK'
  BY <1>8 DEF WaiterNext, Arm, Park, Wake
<1>9. ASSUME NEW s \in Sessions, SessionNext(s) PROVE TypeOK'
  BY <1>9 DEF SessionNext, SessionLeaves, SessionCancels
<1>10. CASE UNCHANGED vars
  BY <1>10 DEF vars
<1> QED
  BY <1>1, <1>2, <1>3, <1>4, <1>5, <1>6, <1>7, <1>8, <1>9, <1>10
     DEF Next, HolderNext, SupervisorNext

(* Every step keeps each counter equal to its number of live guards.       *)
LEMMA StepCounts == ASSUME TypeOK, CountsAreGuards, [Next]_vars PROVE CountsAreGuards'
<1> DEFINE Counted(k) == active[k] = Cardinality(Live(k))
<1>0. \A k \in Kind : Counted(k) /\ Cardinality(Live(k)) \in Nat
  BY LiveFinite DEF CountsAreGuards, Live
<1>1. ASSUME NEW h \in Holders, NEW k \in Kind, TryBegin(h, k) PROVE CountsAreGuards'
  <2> SUFFICES ASSUME NEW j \in Kind PROVE Counted(j)'
    BY DEF CountsAreGuards, Live
  <2>1. CASE active[k] < CountMax
    <3>1. guard[h] = "none" /\ guard' = [guard EXCEPT ![h] = k]
          /\ active' = [active EXCEPT ![k] = @ + 1]
      BY <1>1, <2>1 DEF TryBegin, TypeOK
    <3>2. Cardinality(Live(j)') = IF j = k THEN Cardinality(Live(j)) + 1
                                  ELSE Cardinality(Live(j))
      BY <3>1, LiveChange DEF Kind
    <3>3. active'[j] = IF j = k THEN active[j] + 1 ELSE active[j]
      BY <3>1 DEF TypeOK
    <3> QED
      BY <1>0, <3>2, <3>3
  <2>2. CASE active[k] = CountMax
    <3>1. guard[h] = "none" /\ guard' = [guard EXCEPT ![h] = "notifying"] /\ active' = active
      BY <1>1, <2>2, GateAssumption DEF GateAssumption, TryBegin, TypeOK
    <3>2. "notifying" # j /\ guard[h] # j
      BY <3>1 DEF Kind
    <3>3. Cardinality(Live(j)') = Cardinality(Live(j))
      BY <3>1, <3>2, LiveChange
    <3> QED
      BY <1>0, <3>1, <3>3
  <2> QED
    BY <1>1, <2>1, <2>2 DEF TryBegin
<1>2. ASSUME NEW h \in Holders, DropGuard(h) PROVE CountsAreGuards'
  <2> SUFFICES ASSUME NEW j \in Kind PROVE Counted(j)'
    BY DEF CountsAreGuards, Live
  <2>1. PICK g : g \in {"none", "notifying"} /\ guard' = [guard EXCEPT ![h] = g]
    BY <1>2 DEF DropGuard
  <2>2. guard[h] \in Kind /\ active' = [active EXCEPT ![guard[h]] = @ - 1]
    BY <1>2 DEF DropGuard
  <2>9. Cardinality(Live(j)') = IF g = j /\ guard[h] # j THEN Cardinality(Live(j)) + 1
                                ELSE IF g # j /\ guard[h] = j THEN Cardinality(Live(j)) - 1
                                ELSE Cardinality(Live(j))
    BY <2>1, LiveChange
  <2> QED
    BY <1>0, <2>1, <2>2, <2>9 DEF TypeOK, Kind
<1>3. ASSUME NEW h \in Holders, HolderNotify(h) PROVE CountsAreGuards'
  <2> SUFFICES ASSUME NEW j \in Kind PROVE Counted(j)'
    BY DEF CountsAreGuards, Live
  <2>1. guard[h] = "notifying" /\ guard' = [guard EXCEPT ![h] = "none"] /\ active' = active
    BY <1>3 DEF HolderNotify
  <2>9. Cardinality(Live(j)') = IF "none" = j /\ guard[h] # j THEN Cardinality(Live(j)) + 1
                                ELSE IF "none" # j /\ guard[h] = j THEN Cardinality(Live(j)) - 1
                                ELSE Cardinality(Live(j))
    BY <2>1, LiveChange
  <2> QED
    BY <1>0, <2>1, <2>9 DEF TypeOK, Kind
<1>4. CASE \/ ForceFlag \/ OperatorNext \/ SupervisorNext \/ CloseRequestAdmission
           \/ CloseOutboundAdmission \/ AbandonWireOperations \/ (\E w \in Waiters : WaiterNext(w))
           \/ (\E s \in Sessions : SessionNext(s)) \/ UNCHANGED vars
  <2>1. UNCHANGED <<active, guard>>
    BY <1>4 DEF ForceFlag, OperatorNext, ForceBypass, OperatorNotify, SupervisorNext,
                CloseOutboundAdmission, SupervisorNotify, SupervisorDrained,
                CloseRequestAdmission, AbandonWireOperations, WaiterNext, Arm, Park, Wake,
                SessionNext, SessionLeaves, SessionCancels, vars
  <2> QED
    BY <2>1, CountsKept
<1> QED
  BY <1>1, <1>2, <1>3, <1>4 DEF Next, HolderNext


(* Every step keeps the shutdown order and the finality of its drains.     *)
LEMMA StepDrain == ASSUME IndInv, [Next]_vars PROVE ShutdownOrder' /\ GracefulDrainIsFinal'
<1> USE DEF IndInv, TypeOK, ShutdownOrder, GracefulDrainIsFinal, Past, Kind, Waiters
<1>1. ASSUME NEW h \in Holders, NEW k \in Kind, TryBegin(h, k)
      PROVE  ShutdownOrder' /\ GracefulDrainIsFinal'
  BY <1>1 DEF TryBegin
<1>2. ASSUME NEW h \in Holders, DropGuard(h) PROVE ShutdownOrder' /\ GracefulDrainIsFinal'
  BY <1>2, GuardIsCounted DEF DropGuard
<1>3. ASSUME NEW h \in Holders, HolderNotify(h) PROVE ShutdownOrder' /\ GracefulDrainIsFinal'
  BY <1>3 DEF HolderNotify
<1>4. CASE ForceFlag \/ OperatorNext
  BY <1>4 DEF ForceFlag, OperatorNext, ForceBypass, OperatorNotify, CloseBoth
<1>5. CASE CloseRequestAdmission \/ AbandonWireOperations \/ CloseOutboundAdmission
  BY <1>5 DEF CloseRequestAdmission, AbandonWireOperations, CloseOutboundAdmission, CloseBoth
<1>6. CASE SupervisorNotify
  BY <1>6 DEF SupervisorNotify, AfterNotify
<1>7. CASE SupervisorDrained
  BY <1>7 DEF SupervisorDrained, CloseBoth, Satisfied, Draining
<1>8. ASSUME NEW w \in Waiters, WaiterNext(w) PROVE ShutdownOrder' /\ GracefulDrainIsFinal'
  BY <1>8 DEF WaiterNext, Arm, Park, Wake
<1>9. ASSUME NEW s \in Sessions, SessionNext(s) PROVE ShutdownOrder' /\ GracefulDrainIsFinal'
  BY <1>9, GateAssumption DEF GateAssumption, SessionNext, SessionLeaves, SessionCancels
<1>10. CASE UNCHANGED vars
  BY <1>10 DEF vars
<1> QED
  BY <1>1, <1>2, <1>3, <1>4, <1>5, <1>6, <1>7, <1>8, <1>9, <1>10
     DEF Next, HolderNext, SupervisorNext

(* A notification reaches every parked waiter, so it discharges the debt.  *)
LEMMA NotifyReaches ==
    ASSUME NotifyWaiters, UNCHANGED wait PROVE NoLostWakeup'
BY DEF NotifyWaiters, NoLostWakeup

(* Every step that ends a wait is followed by a notification: whoever made *)
(* it still owes the call when the step is over.                           *)
LEMMA StepWakeup == ASSUME IndInv, [Next]_vars PROVE NoLostWakeup'
<1> USE DEF IndInv, TypeOK, NoLostWakeup, NotifyOwed, AfterNotify, Satisfied, Draining
<1>1. ASSUME NEW h \in Holders, NEW k \in Kind, TryBegin(h, k) PROVE NoLostWakeup'
  BY <1>1 DEF TryBegin, Kind
<1>2. ASSUME NEW h \in Holders, DropGuard(h) PROVE NoLostWakeup'
  BY <1>2 DEF DropGuard, Kind
<1>3. CASE (\E h \in Holders : HolderNotify(h)) \/ OperatorNotify \/ SupervisorNotify
  BY <1>3, NotifyReaches DEF HolderNotify, OperatorNotify, SupervisorNotify
<1>4. CASE ForceFlag \/ ForceBypass
  BY <1>4 DEF ForceFlag, ForceBypass, CloseBoth
<1>5. CASE CloseRequestAdmission \/ AbandonWireOperations \/ CloseOutboundAdmission
  BY <1>5 DEF CloseRequestAdmission, AbandonWireOperations, CloseOutboundAdmission, CloseBoth
<1>7. CASE SupervisorDrained
  BY <1>7 DEF SupervisorDrained, CloseBoth, ShutdownOrder, Past
<1>8. ASSUME NEW w \in Waiters, WaiterNext(w) PROVE NoLostWakeup'
  BY <1>8 DEF WaiterNext, Arm, Park, Wake
<1>9. ASSUME NEW s \in Sessions, SessionNext(s) PROVE NoLostWakeup'
  BY <1>9 DEF SessionNext, SessionLeaves, SessionCancels, Waiters
<1>10. CASE UNCHANGED vars
  BY <1>10 DEF vars
<1> QED
  BY <1>1, <1>2, <1>3, <1>4, <1>5, <1>7, <1>8, <1>9, <1>10
     DEF Next, HolderNext, SupervisorNext, OperatorNext

(* The invariant holds in every reachable state of the gate.               *)
THEOREM GateInvariant == Spec => []IndInv
<1>1. Init => IndInv
  BY InitInd
<1>2. IndInv /\ [Next]_vars => IndInv'
  BY StepType, StepCounts, StepDrain, StepWakeup DEF IndInv
<1> QED
  BY <1>1, <1>2, PTL DEF Spec

(* The gate's fields keep their types (operation_gate.rs).                 *)
THEOREM GateTypeCorrect == Spec => []TypeOK
<1>1. IndInv => TypeOK
  BY DEF IndInv
<1> QED
  BY <1>1, GateInvariant, PTL

(* A counter never retires more guards than it admitted: the checked_sub   *)
(* in Drop for WireOperationGuard cannot fail.                             *)
THEOREM GuardsCounted == Spec => []CountsAreGuards
<1>1. IndInv => CountsAreGuards
  BY DEF IndInv
<1> QED
  BY <1>1, GateInvariant, PTL

(* A graceful drain is final: after close_and_drain_request and            *)
(* close_and_drain_outbound no operation of that kind runs again.          *)
THEOREM DrainFinal == Spec => []GracefulDrainIsFinal
<1>1. IndInv => GracefulDrainIsFinal
  BY DEF IndInv
<1> QED
  BY <1>1, GateInvariant, PTL

(* No wait loop of operation_gate.rs loses the wakeup that ends it.        *)
THEOREM WakeupKept == Spec => []NoLostWakeup
<1>1. IndInv => NoLostWakeup
  BY DEF IndInv
<1> QED
  BY <1>1, GateInvariant, PTL
=============================================================================

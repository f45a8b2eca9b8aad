------------------------- MODULE WireOperationGate -------------------------
(***************************************************************************)
(* The admission gate of the login wire (operation_gate.rs) together with  *)
(* the three kinds of task that use it: the tasks that hold guards, the    *)
(* login sessions that wait for request admission to close, and the        *)
(* supervisor that drains the gate while it shuts the server down          *)
(* (runtime.rs).                                                           *)
(*                                                                         *)
(* Every method takes the mutex, changes the state, releases the mutex and *)
(* only then calls Notify::notify_waiters, so a state change and its       *)
(* notification are two steps here.  A waiter creates its Notified future, *)
(* reads the state under the mutex and then awaits the future; those are   *)
(* separate steps too.  A Notified future receives every notify_waiters    *)
(* call made after it was created, polled or not (tokio).                  *)
(***************************************************************************)
EXTENDS Naturals, FiniteSets

CONSTANTS Holders,    \* tasks that may hold one WireOperationGuard each
          Sessions,   \* login sessions waiting for admission to close
          Supervisor, \* the supervisor task
          CountMax    \* usize::MAX, the largest value of a counter

ASSUME GateAssumption == /\ IsFiniteSet(Holders)
                         /\ Supervisor \notin Sessions
                         /\ CountMax \in Nat \ {0}

Kind == {"request", "outbound"}
Waiters == Sessions \cup {Supervisor}

VARIABLES accepting,  \* the kinds admitted: accepting_requests, accepting_outbound
          active,     \* active[k]: active_requests / active_outbound
          bypassed,   \* force_bypassed
          guard,      \* what each holder has: a guard, nothing, or an owed notify
          phase,      \* progress of the supervisor's shutdown
          operator,   \* progress of ServerHandle::force_shutdown
          wait,       \* position of each waiter in its wait loop
          woken       \* waiters notified since they created their Notified

vars == <<accepting, active, bypassed, guard, phase, operator, wait, woken>>

Phase == {"serving", "closingRequests", "drainRequests", "producers",
          "closingOutbound", "drainOutbound", "sealed", "abandoning", "abandoned"}

Init == /\ accepting = Kind
        /\ active = [k \in Kind |-> 0]
        /\ bypassed = FALSE
        /\ guard = [h \in Holders |-> "none"]
        /\ phase = "serving"
        /\ operator = "idle"
        /\ wait = [w \in Waiters |-> "out"]
        /\ woken = {}

-----------------------------------------------------------------------------
(* Notify::notify_waiters: reaches the futures that exist at this moment.  *)
NotifyWaiters == woken' = woken \cup {w \in Waiters : wait[w] \in {"armed", "parked"}}

(* WireOperationGate::try_begin.  An exhausted counter seals its phase.    *)
TryBegin(h, k) ==
    /\ guard[h] = "none"
    /\ k \in accepting
    /\ \/ /\ active[k] < CountMax
          /\ active' = [active EXCEPT ![k] = @ + 1]
          /\ guard' = [guard EXCEPT ![h] = k]
          /\ UNCHANGED accepting
       \/ /\ active[k] = CountMax
          /\ accepting' = accepting \ {k}
          /\ guard' = [guard EXCEPT ![h] = "notifying"]
          /\ UNCHANGED active
    /\ UNCHANGED <<bypassed, phase, operator, wait, woken>>

(* Variants of DropGuard: one never notifies, one stops counting once the  *)
(* gate is bypassed.                                                       *)
DropGuardSilent(h) ==
    /\ guard[h] \in Kind
    /\ active' = [active EXCEPT ![guard[h]] = @ - 1]
    /\ guard' = [guard EXCEPT ![h] = "none"]
    /\ UNCHANGED <<accepting, bypassed, phase, operator, wait, woken>>

DropGuardUncounted(h) ==
    /\ guard[h] \in Kind
    /\ active' = IF bypassed THEN active ELSE [active EXCEPT ![guard[h]] = @ - 1]
    /\ guard' = [guard EXCEPT ![h] = "notifying"]
    /\ UNCHANGED <<accepting, bypassed, phase, operator, wait, woken>>

(* Drop for WireOperationGuard: only the last guard owes a notification.   *)
DropGuard(h) ==
    LET k == guard[h] IN
    /\ k \in Kind
    /\ active' = [active EXCEPT ![k] = @ - 1]
    /\ guard' = [guard EXCEPT ![h] = IF active[k] = 1 THEN "notifying" ELSE "none"]
    /\ UNCHANGED <<accepting, bypassed, phase, operator, wait, woken>>

HolderNotify(h) ==
    /\ guard[h] = "notifying"
    /\ guard' = [guard EXCEPT ![h] = "none"]
    /\ NotifyWaiters
    /\ UNCHANGED <<accepting, active, bypassed, phase, operator, wait>>

-----------------------------------------------------------------------------
(* ServerHandle::force_shutdown raises its flag, then bypasses the gate,   *)
(* then notifies.                                                          *)
ForceRequested == operator # "idle"

ForceFlag ==
    /\ operator = "idle"
    /\ operator' = "flagged"
    /\ UNCHANGED <<accepting, active, bypassed, guard, phase, wait, woken>>

CloseBoth == /\ accepting' = {}
             /\ bypassed' = TRUE

ForceBypass ==
    /\ operator = "flagged"
    /\ operator' = "notifying"
    /\ CloseBoth
    /\ UNCHANGED <<active, guard, phase, wait, woken>>

OperatorNotify ==
    /\ operator = "notifying"
    /\ operator' = "done"
    /\ NotifyWaiters
    /\ UNCHANGED <<accepting, active, bypassed, guard, phase, wait>>

-----------------------------------------------------------------------------
(* Variant of CloseRequestAdmission that forgets the flag.                 *)
CloseRequestAdmissionOpen ==
    /\ phase = "serving"
    /\ ~ForceRequested
    /\ phase' = "closingRequests"
    /\ UNCHANGED <<accepting, active, bypassed, guard, operator, wait, woken>>

(* finish_supervisor: close and drain requests, or abandon the gate when   *)
(* the transport failed, an actor is gone or force was requested.          *)
CloseRequestAdmission ==
    /\ phase = "serving"
    /\ ~ForceRequested
    /\ accepting' = accepting \ {"request"}
    /\ phase' = "closingRequests"
    /\ UNCHANGED <<active, bypassed, guard, operator, wait, woken>>

(* finish_graceful_core_runtimes: outbound admission closes only after the *)
(* reward, profile and World producer barriers.                            *)
CloseOutboundAdmission ==
    /\ phase = "producers"
    /\ accepting' = accepting \ {"outbound"}
    /\ phase' = "closingOutbound"
    /\ UNCHANGED <<active, bypassed, guard, operator, wait, woken>>

(* abandon_wire_operations: the transport may fail before the shutdown     *)
(* starts and a producer barrier may fail during it.                       *)
AbandonWireOperations ==
    /\ phase \in {"serving", "producers"}
    /\ CloseBoth
    /\ phase' = "abandoning"
    /\ UNCHANGED <<active, guard, operator, wait, woken>>

AfterNotify == [closingRequests |-> "drainRequests",
                closingOutbound |-> "drainOutbound",
                abandoning      |-> "abandoned"]

SupervisorNotify ==
    /\ phase \in DOMAIN AfterNotify
    /\ phase' = AfterNotify[phase]
    /\ NotifyWaiters
    /\ UNCHANGED <<accepting, active, bypassed, guard, operator, wait>>

-----------------------------------------------------------------------------
(* The three wait loops.  Draining is what the supervisor waits for.       *)
Draining == IF phase = "drainRequests" THEN "request" ELSE "outbound"

Satisfied(w) == IF w = Supervisor THEN bypassed \/ active[Draining] = 0
                                  ELSE "request" \notin accepting

(* let changed = self.inner.changed.notified()                             *)
Arm(w) ==
    /\ wait[w] = "out"
    /\ w = Supervisor => phase \in {"drainRequests", "drainOutbound"}
    /\ wait' = [wait EXCEPT ![w] = "armed"]
    /\ woken' = woken \ {w}
    /\ UNCHANGED <<accepting, active, bypassed, guard, phase, operator>>

(* Variant of Park that awaits without having read the state.              *)
ParkUnchecked(w) ==
    /\ wait[w] = "armed"
    /\ wait' = [wait EXCEPT ![w] = "parked"]
    /\ UNCHANGED <<accepting, active, bypassed, guard, phase, operator, woken>>

(* The state read under the mutex does not end the wait: changed.await.    *)
Park(w) ==
    /\ wait[w] = "armed"
    /\ ~Satisfied(w)
    /\ wait' = [wait EXCEPT ![w] = "parked"]
    /\ UNCHANGED <<accepting, active, bypassed, guard, phase, operator, woken>>

Wake(w) ==
    /\ wait[w] = "parked"
    /\ w \in woken
    /\ wait' = [wait EXCEPT ![w] = "out"]
    /\ UNCHANGED <<accepting, active, bypassed, guard, phase, operator, woken>>

(* A session leaves its request loop for writer-only drain.                *)
SessionLeaves(s) ==
    /\ wait[s] = "armed"
    /\ Satisfied(s)
    /\ wait' = [wait EXCEPT ![s] = "left"]
    /\ UNCHANGED <<accepting, active, bypassed, guard, phase, operator, woken>>

(* select! resolves another branch and drops the pending wait future.      *)
SessionCancels(s) ==
    /\ wait[s] = "parked"
    /\ wait' = [wait EXCEPT ![s] = "out"]
    /\ UNCHANGED <<accepting, active, bypassed, guard, phase, operator, woken>>

(* The supervisor's drain returns true, or false when it was bypassed.     *)
SupervisorDrained ==
    /\ wait[Supervisor] = "armed"
    /\ Satisfied(Supervisor)
    /\ wait' = [wait EXCEPT ![Supervisor] = "out"]
    /\ IF bypassed
         THEN phase' = IF phase = "drainRequests" THEN "abandoning" ELSE "abandoned"
         ELSE phase' = IF phase = "drainOutbound" THEN "sealed"
                       ELSE IF ForceRequested THEN "abandoning" ELSE "producers"
    /\ IF phase' = "abandoning" THEN CloseBoth ELSE UNCHANGED <<accepting, bypassed>>
    /\ UNCHANGED <<active, guard, operator, woken>>

HolderNext(h) == DropGuard(h) \/ HolderNotify(h)
OperatorNext == ForceBypass \/ OperatorNotify
SupervisorNext == SupervisorNotify \/ SupervisorDrained
WaiterNext(w) == Arm(w) \/ Park(w) \/ Wake(w)
SessionNext(s) == SessionLeaves(s) \/ SessionCancels(s)

Next == \/ \E h \in Holders : HolderNext(h) \/ \E k \in Kind : TryBegin(h, k)
        \/ ForceFlag \/ OperatorNext
        \/ CloseRequestAdmission \/ CloseOutboundAdmission \/ AbandonWireOperations
        \/ SupervisorNext
        \/ \E w \in Waiters : WaiterNext(w)
        \/ \E s \in Sessions : SessionNext(s)

(* Every task is polled again while it can run, a forced supervisor leaves *)
(* its loop, and a guard is dropped: request handling and writes are       *)
(* bounded by the session timeouts.  Nothing makes force or shutdown come, *)
(* and the producer barriers behind the request drain need not end.        *)
Fairness == /\ \A h \in Holders : WF_vars(HolderNext(h))
            /\ WF_vars(OperatorNext)
            /\ WF_vars(SupervisorNext)
            /\ WF_vars(ForceRequested /\ AbandonWireOperations)
            /\ \A w \in Waiters : WF_vars(WaiterNext(w))
            /\ \A s \in Sessions : WF_vars(SessionLeaves(s))

Spec == Init /\ [][Next]_vars
FairSpec == Spec /\ Fairness

-----------------------------------------------------------------------------
(* The gate's fields keep their types and every task is at a known point.  *)
TypeOK == /\ accepting \in SUBSET Kind
          /\ active \in [Kind -> 0..CountMax]
          /\ bypassed \in BOOLEAN
          /\ guard \in [Holders -> Kind \cup {"none", "notifying"}]
          /\ phase \in Phase
          /\ operator \in {"idle", "flagged", "notifying", "done"}
          /\ wait \in [Waiters -> {"out", "armed", "parked", "left"}]
          /\ woken \in SUBSET Waiters

(* Each counter is exactly the number of live guards of its kind, so the   *)
(* checked_sub of Drop never finds zero ("retired more than once").        *)
CountsAreGuards ==
    \A k \in Kind : active[k] = Cardinality({h \in Holders : guard[h] = k})

(* Once the supervisor has moved past a graceful drain no guard of that    *)
(* kind is live or can ever be admitted again: the barriers behind the     *)
(* drain (World quiesce, profile shutdown, session abort) race no request. *)
GracefulDrainIsFinal ==
    /\ phase \in {"producers", "closingOutbound", "drainOutbound", "sealed"}
          => active["request"] = 0 /\ "request" \notin accepting
    /\ phase = "sealed" => active["outbound"] = 0 /\ "outbound" \notin accepting

(* A task that has changed the state and not yet called notify_waiters.    *)
NotifyOwed == \/ \E h \in Holders : guard[h] = "notifying"
              \/ operator = "notifying"
              \/ phase \in DOMAIN AfterNotify

(* No lost wakeup: a waiter parked although the state already ends its     *)
(* wait has been notified or is about to be.                               *)
NoLostWakeup ==
    \A w \in Waiters :
        wait[w] = "parked" /\ Satisfied(w) => w \in woken \/ NotifyOwed

(* The gate never holds a shutdown up: each drain that was begun ends, a   *)
(* forced shutdown is over whatever guards are still held, and every       *)
(* session notices that request admission closed and moves to the          *)
(* writer-only drain, even when it was idle in the middle of a frame.      *)
ShutdownTerminates ==
    /\ phase # "serving" ~> phase \in {"producers", "sealed", "abandoned"}
    /\ ForceRequested ~> phase \in {"sealed", "abandoned"}
    /\ "request" \notin accepting ~> \A s \in Sessions : wait[s] = "left"
=============================================================================

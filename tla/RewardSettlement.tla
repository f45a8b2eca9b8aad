------------------------- MODULE RewardSettlement -------------------------
(***************************************************************************)
(* How a finished race is paid out: the settlement of each room and the    *)
(* reward lanes of its racers (world.rs), the reward pump and its worker   *)
(* tasks (runtime.rs), and the profile store that applies a reward once    *)
(* (progression.rs).                                                       *)
(*                                                                         *)
(* The World actor runs advance_loading after every command it serves, so  *)
(* every action of the actor ends in Settle.  A reservation in the         *)
(* outbound queues of the racers may fail at any moment; Settle chooses    *)
(* for which rooms it succeeds.  What happens to a room before it settles  *)
(* is reduced to the phases that own a reward lane: who sits in the room   *)
(* is the business of module ProtocolRooms, how a race gets from Loading   *)
(* to Running that of module RaceLoading.                                  *)
(*                                                                         *)
(* A reward entry carries no amount: the proposal is frozen with the entry *)
(* and every attempt presents the same one, so the receipt checks of       *)
(* complete_reward_task can only differ in the attempt, which is kept.     *)
(***************************************************************************)
EXTENDS Naturals, FiniteSets

CONSTANTS Rooms,           \* protocol rooms, compared by number (a set of naturals)
          Users,           \* user numbers of the racers (nonzero naturals)
          EpochMax,        \* u64::MAX for race epochs
          AttemptMax,      \* u64::MAX for reward attempt ids
          RunMax,          \* bound on the restarts of the server
          InstantMax,      \* the largest Instant: checked_add fails beyond it
          MaxLag,          \* bound on the age of an instant the pump sends to the actor
          SettlementDelay, \* SETTLEMENT_DELAY
          Lease,           \* REWARD_ATTEMPT_LEASE
          RetryBase,       \* REWARD_RETRY_BASE_DELAY
          RetryMax,        \* REWARD_RETRY_MAX_DELAY
          MaxFailures,     \* MAX_REWARD_PERSISTENCE_FAILURES
          MaxWorkers       \* MAX_REWARD_PERSISTENCE_WORKERS

ASSUME RewardAssumption ==
    /\ IsFiniteSet(Rooms) /\ Rooms \subseteq Nat
    /\ IsFiniteSet(Users) /\ Users \subseteq Nat \ {0}
    /\ {EpochMax, AttemptMax, RunMax, MaxFailures, MaxWorkers, RetryBase, RetryMax}
            \subseteq Nat \ {0}
    /\ {InstantMax, MaxLag, SettlementDelay, Lease} \subseteq Nat

VARIABLES room,        \* protocol_rooms: phase, fence and settlement of each room
          lane,        \* reward_lanes: the fence that occupies each user
          nextEpoch,   \* next_race_epoch; EpochMax + 1 is None
          nextAttempt, \* next_reward_attempt_id; AttemptMax + 1 is None
          work,        \* workers of the pump, each with its task and its result
          pump,        \* the reward pump: polling, failing, stopped or drained
          stage,       \* the supervisor: serving, rewards, producers or ended
          now,         \* Instant::now()
          run,         \* RaceRunGeneration of this process
          receipt,     \* race_reward_receipt in each profile: the latest only
          balance,     \* number of rewards each profile was paid
          credited     \* the races each profile was paid for (a history)

actor == <<room, lane, nextEpoch, nextAttempt>>
store == <<receipt, balance, credited>>
vars == <<room, lane, nextEpoch, nextAttempt, work, pump, stage, now, run,
          receipt, balance, credited>>

NoLane == [room |-> 0, epoch |-> 0]
NoReceipt == [run |-> 0, room |-> 0, epoch |-> 0]
NoUser == 0

(* A protocol room without a race: it is in its lobby, or does not exist.   *)
Idle == [phase |-> "lobby", epoch |-> 0, racers |-> {}, deadline |-> 0, fin |-> "none",
         reason |-> "none", failed |-> NoUser, reward |-> <<>>, pending |-> FALSE]

Fence(r, q) == [room |-> r, epoch |-> q.epoch]

Init == /\ room = [r \in Rooms |-> Idle]
        /\ lane = [u \in Users |-> NoLane]
        /\ nextEpoch = 1
        /\ nextAttempt = 1
        /\ work = {}
        /\ pump = "polling"
        /\ stage = "serving"
        /\ now = 0
        /\ run = 1
        /\ receipt = [u \in Users |-> NoReceipt]
        /\ balance = [u \in Users |-> 0]
        /\ credited = {}

-----------------------------------------------------------------------------
(* RewardPersistenceStatus.                                                *)
Queued(due, fails) == [is |-> "queued", at |-> due, fails |-> fails, attempt |-> 0]
InFlight(attempt, fails, lease) ==
    [is |-> "inflight", at |-> lease, fails |-> fails, attempt |-> attempt]
Durable == [is |-> "durable", at |-> 0, fails |-> 0, attempt |-> 0]

(* reward_retry_delay: doubles with every failure up to a limit.           *)
RetryDelay(fails) == LET d == RetryBase * 2 ^ (fails - 1)
                     IN  IF d < RetryMax THEN d ELSE RetryMax

(* SettlementFinalization::retain_as_dead_letter.                          *)
DeadLetter(q, why, u) ==
    IF q.fin = "failed" THEN q
    ELSE [q EXCEPT !.fin = "failed", !.reason = why, !.failed = u]

(* begin_reward_persistence with plan_reward_persistence.                  *)
BeginPersistence(q, at) ==
    IF q.fin # "awaiting" THEN q
    ELSE [q EXCEPT !.fin = "persisting", !.reward = [u \in q.racers |-> Queued(at, 0)]]

(* try_flush_pending_race_fanouts.                                         *)
Flush(q, fits) == IF fits THEN [q EXCEPT !.pending = FALSE] ELSE q

(* Variant: the final transition does not wait for durable rewards.        *)
TryFinalizeEarly(q, flushes, reserves) ==
    LET p == Flush(q, flushes)
    IN  IF ~p.pending /\ p.fin \in {"persisting", "ready"} /\ reserves THEN Idle ELSE p

(* try_finalize_settlement: the room goes back to its lobby, or disappears *)
(* when everybody has left.                                                *)
TryFinalize(q, flushes, reserves) ==
    LET p == Flush(q, flushes)
    IN  IF ~p.pending /\ p.fin = "ready" /\ reserves THEN Idle ELSE p

(* Variant: finalisation is tried only when persistence begins.            *)
AdvanceRoomOnce(q, at, flushes, reserves) ==
    IF q.phase = "settling" /\ at >= q.deadline /\ q.fin = "awaiting"
    THEN TryFinalize(BeginPersistence(q, at), flushes, reserves)
    ELSE Flush(q, flushes)

(* The part of advance_loading that concerns one settling room.            *)
AdvanceRoom(q, at, flushes, reserves) ==
    CASE q.phase # "settling" -> q
      [] q.phase = "settling" /\ at >= q.deadline ->
            TryFinalize(BeginPersistence(q, at), flushes, reserves)
      [] OTHER -> Flush(q, flushes)

(* release_reward_lanes for a set of fences.                               *)
Release(L, fences) == [u \in Users |-> IF L[u] \in fences THEN NoLane ELSE L[u]]

(* The rooms R become next and the lanes of every race that ended, among   *)
(* the lanes L, are released.                                              *)
Becomes(R, L, next) ==
    /\ room' = next
    /\ lane' = Release(L, {Fence(r, R[r]) : r \in {s \in Rooms :
                            R[s].phase = "settling" /\ next[s].phase = "lobby"}})

(* advance_loading on the rooms R and lanes L a command left behind:       *)
(* flushed and reserved are the rooms whose outbound reservations succeed. *)
Advance(R, L, at, flushed, reserved) ==
    Becomes(R, L, [r \in Rooms |-> AdvanceRoom(R[r], at, r \in flushed, r \in reserved)])

(* Every command ends with advance_loading, which a quiescing World skips. *)
Settle(R, L, at) ==
    IF stage = "serving"
    THEN \E flushed \in SUBSET {r \in Rooms : R[r].pending},
            reserved \in SUBSET {r \in Rooms : R[r].fin = "ready"} :
                Advance(R, L, at, flushed, reserved)
    ELSE room' = R /\ lane' = L

-----------------------------------------------------------------------------
(* The life of a race up to its settlement.                                *)

(* start_room: a racer whose lane is occupied keeps everybody from racing. *)
StartRoom(r, racers) ==
    /\ stage = "serving"
    /\ room[r].phase = "lobby"
    /\ racers # {}
    /\ \A u \in racers : lane[u] = NoLane
    /\ nextEpoch <= EpochMax
    /\ nextEpoch' = nextEpoch + 1
    /\ LET q == [Idle EXCEPT !.phase = "loading", !.epoch = nextEpoch, !.racers = racers]
       IN  Settle([room EXCEPT ![r] = q],
                  [u \in Users |-> IF u \in racers THEN Fence(r, q) ELSE lane[u]], now)
    /\ UNCHANGED <<nextAttempt, work, pump, stage, now, run, store>>

(* Variant: the lanes of an aborted race stay occupied.                    *)
AbortLoadingKeepsLanes(r) ==
    /\ stage # "ended"
    /\ room[r].phase = "loading"
    /\ Settle([room EXCEPT ![r] = Idle], lane, now)
    /\ UNCHANGED <<nextEpoch, nextAttempt, work, pump, stage, now, run, store>>

(* abort_loading_room, and remove_protocol_user when the last user leaves  *)
(* a Loading room (a session may close while the World quiesces).          *)
AbortLoading(r) ==
    /\ stage # "ended"
    /\ room[r].phase = "loading"
    /\ Settle([room EXCEPT ![r] = Idle], Release(lane, {Fence(r, room[r])}), now)
    /\ UNCHANGED <<nextEpoch, nextAttempt, work, pump, stage, now, run, store>>

(* try_start_scheduled_room, detailed in module RaceLoading.               *)
BeginRace(r) ==
    /\ stage = "serving"
    /\ room[r].phase = "loading"
    /\ Settle([room EXCEPT ![r].phase = "running"], lane, now)
    /\ UNCHANGED <<nextEpoch, nextAttempt, work, pump, stage, now, run, store>>

(* The first record_finish of a race, or reconcile_running_room once every *)
(* racer is gone, which does not give up when the deadline overflows.      *)
BeginSettlement(r) ==
    /\ stage = "serving"
    /\ room[r].phase = "running"
    /\ LET late == now + SettlementDelay > InstantMax
           deadline == IF late THEN now ELSE now + SettlementDelay
       IN  Settle([room EXCEPT ![r] = [@ EXCEPT !.phase = "settling", !.deadline = deadline,
                                                !.fin = "awaiting", !.pending = TRUE]],
                  lane, now)
    /\ UNCHANGED <<nextEpoch, nextAttempt, work, pump, stage, now, run, store>>

(* A heartbeat, or any other command, after time has passed.               *)
Tick ==
    /\ stage # "ended"
    /\ now < InstantMax
    /\ now' = now + 1
    /\ Settle(room, lane, now + 1)
    /\ UNCHANGED <<nextEpoch, nextAttempt, work, pump, stage, run, store>>

(* A heartbeat that finds room in every outbound queue.                    *)
Heartbeat ==
    /\ stage = "serving"
    /\ Advance(room, lane, now, Rooms, Rooms)
    /\ UNCHANGED <<nextEpoch, nextAttempt, work, pump, stage, now, run, store>>

-----------------------------------------------------------------------------
(* The end of the pump.  A graceful shutdown waits for it and then drains  *)
(* the outbound producers; a pump that fails while the server runs makes   *)
(* the supervisor abandon everything.                                      *)
PumpEnds(how) ==
    /\ pump' = how
    /\ stage' = IF stage = "rewards" THEN "producers" ELSE "ended"

(* The attempts: take_due_reward_tasks on behalf of the pump.              *)

Before(c, d) == c[1] < d[1] \/ (c[1] = d[1] /\ c[2] < d[2])
First(C) == CHOOSE c \in C : \A d \in C \ {c} : Before(c, d)
Position(c, C) == Cardinality({d \in C : Before(d, c)})

(* The entries of persisting rooms with a given status, by room and user.  *)
Entries(status) == {c \in Rooms \X Users : /\ room[c[1]].fin = "persisting"
                                           /\ c[2] \in room[c[1]].racers
                                           /\ room[c[1]].reward[c[2]].is = status}
Entry(c) == room[c[1]].reward[c[2]]

(* Another failure of an attempt ends the settlement: the failures are     *)
(* used up, or the retry cannot be timed.                                  *)
Exhausts(e) == e.fails + 1 >= MaxFailures
Untimed(e, at) == at + RetryDelay(e.fails + 1) > InstantMax

Retried(e, at) == Queued(at + RetryDelay(e.fails + 1), e.fails + 1)

(* Variant: the attempt is put back before its settlement is given up.     *)
FailAttemptRequeued(q, u, at) ==
    IF Exhausts(q.reward[u])
    THEN DeadLetter([q EXCEPT !.reward[u] = Queued(at, @.fails)], "RewardPersistence", u)
    ELSE IF Untimed(q.reward[u], at) THEN DeadLetter(q, "RewardRetryDeadlineOverflow", u)
    ELSE [q EXCEPT !.reward[u] = Retried(@, at)]

(* The common end of expire_reward_attempt and of a retryable completion.  *)
FailAttempt(q, u, at) ==
    IF Exhausts(q.reward[u]) THEN DeadLetter(q, "RewardPersistence", u)
    ELSE IF Untimed(q.reward[u], at) THEN DeadLetter(q, "RewardRetryDeadlineOverflow", u)
    ELSE [q EXCEPT !.reward[u] = Retried(@, at)]

(* expire_reward_attempt_leases, in the order of room and user.  The first *)
(* lease that cannot be retried makes take_due_reward_tasks return an      *)
(* error: the leases before it are expired, those after it are not.        *)
Expired(at) == {c \in Entries("inflight") : Entry(c).at <= at}
Doomed(at) == {c \in Expired(at) : Exhausts(Entry(c)) \/ Untimed(Entry(c), at)}
Requeue(C, at) == [r \in Rooms |-> [room[r] EXCEPT !.reward =
                    [u \in DOMAIN @ |-> IF <<r, u>> \in C THEN Retried(@[u], at) ELSE @[u]]]]

ExpireFails(at) ==
    /\ Doomed(at) # {}
    /\ LET c == First(Doomed(at))
           R == Requeue({d \in Expired(at) : Before(d, c)}, at)
       IN  Settle([R EXCEPT ![c[1]] = FailAttempt(@, c[2], at)], lane, now)
    /\ UNCHANGED <<nextEpoch, nextAttempt, work, pump, stage, now, run, store>>

(* due_reward_candidates, cut to the number of idle workers.  A lease that *)
(* has just expired is not due again yet: its retry delay is not zero.     *)
DueAt(at) == {c \in Entries("queued") : Entry(c).at <= at}
Batch(at) == {c \in DueAt(at) : Position(c, DueAt(at)) < MaxWorkers - Cardinality(work)}

(* limit_candidates_to_attempt_id_capacity looks only at the last id.      *)
Limited(at) == IF nextAttempt = AttemptMax THEN {First(Batch(at))} ELSE Batch(at)

(* A failed take: the room of the first candidate becomes a dead letter.   *)
TakeFails(at, why) ==
    LET c == First(Batch(at)) IN
    Settle([Requeue(Expired(at), at) EXCEPT ![c[1]] = DeadLetter(@, why, c[2])], lane, now)

(* The rewards of the candidates C are marked in flight, in their order.   *)
Issued(C, at) ==
    LET R == Requeue(Expired(at), at) IN
    [r \in Rooms |-> [R[r] EXCEPT !.reward =
        [u \in DOMAIN @ |-> IF <<r, u>> \in C
                            THEN InFlight(nextAttempt + Position(<<r, u>>, C), @[u].fails,
                                          at + Lease)
                            ELSE @[u]]]]

Task(c, attempt) == [room |-> c[1], epoch |-> room[c[1]].epoch, user |-> c[2],
                     attempt |-> attempt, result |-> "running"]

TakeExhausted(at) ==
    /\ Doomed(at) = {} /\ Batch(at) # {}
    /\ nextAttempt > AttemptMax
    /\ TakeFails(at, "RewardAttemptIdExhausted")
    /\ UNCHANGED <<nextEpoch, nextAttempt, work, pump, stage, now, run, store>>

TakeUntimed(at) ==
    /\ Doomed(at) = {} /\ Batch(at) # {}
    /\ nextAttempt <= AttemptMax
    /\ at + Lease > InstantMax
    /\ nextAttempt' = nextAttempt + 1
    /\ TakeFails(at, "RewardAttemptLeaseDeadlineOverflow")
    /\ UNCHANGED <<nextEpoch, work, pump, stage, now, run, store>>

(* The ids run out in the middle of a batch: the error is not one that the *)
(* pump tolerates, and the tasks already marked in flight are dropped.     *)
TakeBreaks(at) ==
    /\ Doomed(at) = {} /\ Batch(at) # {}
    /\ nextAttempt <= AttemptMax /\ at + Lease <= InstantMax
    /\ nextAttempt + Cardinality(Limited(at)) > AttemptMax + 1
    /\ nextAttempt' = AttemptMax + 1
    /\ Settle(Issued({c \in Limited(at) : nextAttempt + Position(c, Limited(at)) <= AttemptMax},
                     at), lane, now)
    /\ PumpEnds("stopped")
    /\ UNCHANGED <<nextEpoch, work, now, run, store>>

TakeIssues(at) ==
    /\ Doomed(at) = {}
    /\ Batch(at) # {} \/ Expired(at) # {}
    /\ LET C == IF Batch(at) = {} THEN {} ELSE Limited(at) IN
       /\ C # {} => nextAttempt <= AttemptMax /\ at + Lease <= InstantMax
       /\ nextAttempt + Cardinality(C) <= AttemptMax + 1
       /\ nextAttempt' = nextAttempt + Cardinality(C)
       /\ work' = work \cup {Task(c, nextAttempt + Position(c, C)) : c \in C}
       /\ Settle(Issued(C, at), lane, now)
    /\ UNCHANGED <<nextEpoch, pump, stage, now, run, store>>

(* One poll of run_reward_persistence.  The instant was read before the    *)
(* command was sent, so the actor may see one that is MaxLag old.          *)
Poll ==
    /\ pump = "polling" /\ stage # "ended"
    /\ Cardinality(work) < MaxWorkers
    /\ \E lag \in 0..MaxLag :
        /\ lag <= now
        /\ \/ ExpireFails(now - lag) \/ TakeExhausted(now - lag) \/ TakeUntimed(now - lag)
           \/ TakeBreaks(now - lag) \/ TakeIssues(now - lag)

-----------------------------------------------------------------------------
(* The worker: ProfileIoHandle::persist_reward.                            *)

Key(w) == [run |-> run, room |-> w.room, epoch |-> w.epoch]
Newer(k, old) == \/ old = NoReceipt
                 \/ k.run > old.run
                 \/ k.run = old.run /\ k.epoch > old.epoch

Answer(w, result) == work' = (work \ {w}) \cup {[w EXCEPT !.result = result]}

(* Variant: only a repetition of the last key is recognised.               *)
PayUnordered(w) ==
    /\ w.result = "running"
    /\ Key(w) # receipt[w.user]
    /\ receipt' = [receipt EXCEPT ![w.user] = Key(w)]
    /\ balance' = [balance EXCEPT ![w.user] = @ + 1]
    /\ credited' = credited \cup {[user |-> w.user, key |-> Key(w)]}
    /\ \E result \in {"durable", "retryable"} : Answer(w, result)
    /\ UNCHANGED <<actor, pump, stage, now, run>>

(* apply_race_reward_once commits a new receipt.  The commit may be made   *)
(* with its durability uncertain, which is answered as a retryable failure.*)
Pay(w) ==
    /\ w.result = "running"
    /\ Newer(Key(w), receipt[w.user])
    /\ receipt' = [receipt EXCEPT ![w.user] = Key(w)]
    /\ balance' = [balance EXCEPT ![w.user] = @ + 1]
    /\ credited' = credited \cup {[user |-> w.user, key |-> Key(w)]}
    /\ \E result \in {"durable", "retryable"} : Answer(w, result)
    /\ UNCHANGED <<actor, pump, stage, now, run>>

(* apply_race_reward_once finds the receipt of an earlier attempt.         *)
Recognise(w) ==
    /\ w.result = "running"
    /\ receipt[w.user] = Key(w)
    /\ Answer(w, "durable")
    /\ UNCHANGED <<actor, pump, stage, now, run, store>>

(* The job fails without a commit: a stale key or a damaged profile is     *)
(* fatal, I/O trouble is retryable, and a failure of the infrastructure    *)
(* (a poisoned lock, a worker that panics) also ends the pump.             *)
Reject(w, result) ==
    /\ w.result = "running"
    /\ result \in {"retryable", "fatal", "infra"}
    /\ Answer(w, result)
    /\ UNCHANGED <<actor, pump, stage, now, run, store>>

-----------------------------------------------------------------------------
(* The completion: publish_reward_completion and complete_reward_task.     *)

(* current_reward_attempt: room, epoch, user and attempt all match.        *)
Current(w) == LET q == room[w.room] IN
              /\ q.epoch = w.epoch
              /\ q.fin = "persisting"
              /\ w.user \in q.racers
              /\ q.reward[w.user].is = "inflight"
              /\ q.reward[w.user].attempt = w.attempt

(* prepare_ready_settlement.                                               *)
PrepareReady(q) == IF \A u \in q.racers : q.reward[u].is = "durable"
                   THEN [q EXCEPT !.fin = "ready"] ELSE q

(* Variant: a completion after its lease is ignored without a retry.       *)
CompletedIgnoring(q, w, at) ==
    CASE q.reward[w.user].at <= at -> q
      [] w.result = "retryable" -> FailAttempt(q, w.user, at)
      [] OTHER -> IF w.result = "durable"
                  THEN PrepareReady([q EXCEPT !.reward[w.user] = Durable])
                  ELSE DeadLetter(q, "RewardPersistence", w.user)

(* The room after a completion that arrives at an instant.                 *)
Completed(q, w, at) ==
    CASE q.reward[w.user].at <= at \/ w.result = "retryable" -> FailAttempt(q, w.user, at)
      [] OTHER -> IF w.result = "durable"
                  THEN PrepareReady([q EXCEPT !.reward[w.user] = Durable])
                  ELSE DeadLetter(q, "RewardPersistence", w.user)

(* A completion that is no longer current is ignored.                      *)
Complete(w, at) ==
    /\ w.result # "running"
    /\ work' = work \ {w}
    /\ pump' = IF w.result = "infra" THEN "failing" ELSE pump
    /\ Settle(IF Current(w) THEN [room EXCEPT ![w.room] = Completed(@, w, at)] ELSE room,
              lane, now)
    /\ UNCHANGED <<nextEpoch, nextAttempt, stage, now, run, store>>

Publish(w) == /\ pump \in {"polling", "failing"} /\ stage # "ended"
              /\ \E lag \in 0..MaxLag : lag <= now /\ Complete(w, now - lag)

(* retry_reward_dead_letter with a letter that is still exact; with any    *)
(* other letter it changes nothing.                                        *)
RetryDeadLetter(r) ==
    /\ stage = "serving"
    /\ room[r].fin = "failed"
    /\ room[r].reason = "RewardPersistence"
    /\ LET q == room[r]
           reward == [u \in q.racers |-> IF q.reward[u].is = "durable" THEN Durable
                                         ELSE Queued(now, 0)]
       IN  Settle([room EXCEPT ![r] = [q EXCEPT !.fin = "persisting", !.reason = "none",
                                                !.failed = NoUser, !.reward = reward]],
                  lane, now)
    /\ UNCHANGED <<nextEpoch, nextAttempt, work, pump, stage, now, run, store>>

-----------------------------------------------------------------------------
(* Shutdown and restart.                                                   *)

(* quiesce_world, then stop_reward_runtime asks the pump to drain.         *)
Quiesce == /\ stage = "serving"
           /\ stage' = "rewards"
           /\ UNCHANGED <<actor, work, pump, now, run, store>>

(* RewardDrainStatus::is_drained: no lane and no dead letter is left.      *)
Drained == /\ \A u \in Users : lane[u] = NoLane
           /\ \A r \in Rooms : room[r].fin # "failed"

PumpDrained == /\ stage = "rewards" /\ pump = "polling"
               /\ work = {} /\ Drained
               /\ PumpEnds("drained")
               /\ UNCHANGED <<actor, work, now, run, store>>

(* The pump returns its retained error once every worker has reported.     *)
PumpFails == /\ pump = "failing" /\ work = {}
             /\ PumpEnds("stopped")
             /\ UNCHANGED <<actor, work, now, run, store>>

(* drain_outbound_producers_once, until nothing is left to publish.        *)
DrainOutboundProducers ==
    /\ stage = "producers"
    /\ \E flushed \in SUBSET {r \in Rooms : room[r].pending},
          reserved \in SUBSET {r \in Rooms : room[r].fin = "ready"} :
            Becomes(room, lane, [r \in Rooms |->
                                    TryFinalize(room[r], r \in flushed, r \in reserved)])
    /\ stage' = IF \A r \in Rooms : ~room'[r].pending /\ room'[r].fin # "ready"
                THEN "ended" ELSE "producers"
    /\ UNCHANGED <<nextEpoch, nextAttempt, work, pump, now, run, store>>

(* Variant: a restart resumes the old run generation.                      *)
RestartSameRun ==
    /\ run < RunMax
    /\ room' = [r \in Rooms |-> Idle] /\ lane' = [u \in Users |-> NoLane]
    /\ nextEpoch' = 1 /\ nextAttempt' = 1
    /\ work' = {} /\ pump' = "polling" /\ stage' = "serving" /\ now' = 0
    /\ UNCHANGED <<run, store>>

(* The process ends, in order or in a crash, and starts again: everything  *)
(* but the profiles is lost and acquire_race_run durably bumps the run.    *)
Restart ==
    /\ run < RunMax
    /\ run' = run + 1
    /\ room' = [r \in Rooms |-> Idle] /\ lane' = [u \in Users |-> NoLane]
    /\ nextEpoch' = 1 /\ nextAttempt' = 1
    /\ work' = {} /\ pump' = "polling" /\ stage' = "serving" /\ now' = 0
    /\ UNCHANGED store

-----------------------------------------------------------------------------
WorkerNext(w) == Pay(w) \/ Recognise(w) \/ \E result \in {"retryable", "fatal", "infra"} :
                                                Reject(w, result)

Next == \/ \E r \in Rooms : \/ \E racers \in SUBSET Users : StartRoom(r, racers)
                            \/ AbortLoading(r) \/ BeginRace(r) \/ BeginSettlement(r)
                            \/ RetryDeadLetter(r)
        \/ \E w \in work : WorkerNext(w) \/ Publish(w)
        \/ Poll \/ Tick \/ Heartbeat
        \/ Quiesce \/ PumpDrained \/ PumpFails \/ DrainOutboundProducers
        \/ Restart

(* The heartbeat and the poll are timers, the pump joins its workers, every*)
(* profile job ends, and a slow client either drains its queue or loses    *)
(* its session, so that some heartbeat finds room in every queue.          *)
Fairness == /\ WF_vars(Tick) /\ WF_vars(Heartbeat)
            /\ WF_vars(Poll)
            /\ WF_vars(\E w \in work : WorkerNext(w))
            /\ WF_vars(\E w \in work : Publish(w))
            /\ WF_vars(PumpDrained) /\ WF_vars(PumpFails)

Spec == Init /\ [][Next]_vars
FairSpec == Spec /\ Fairness

-----------------------------------------------------------------------------
Status == [is : {"queued", "inflight", "durable"}, at : 0..InstantMax,
           fails : 0..(MaxFailures - 1), attempt : 0..AttemptMax]
Fences == [room : Rooms, epoch : 1..EpochMax]
Keys == [run : 1..RunMax, room : Rooms, epoch : 1..EpochMax]

(* The types of the variables.                                             *)
TypeOK ==
    /\ \A r \in Rooms : LET q == room[r] IN
        /\ q.phase \in {"lobby", "loading", "running", "settling"}
        /\ q.epoch \in 0..EpochMax /\ q.racers \subseteq Users
        /\ q.deadline \in 0..InstantMax
        /\ q.fin \in {"none", "awaiting", "persisting", "ready", "failed"}
        /\ q.pending \in BOOLEAN
        /\ q.fin \in {"persisting", "ready"} => q.reward \in [q.racers -> Status]
    /\ lane \in [Users -> Fences \cup {NoLane}]
    /\ nextEpoch \in 1..(EpochMax + 1) /\ nextAttempt \in 1..(AttemptMax + 1)
    /\ \A w \in work : w.user \in Users /\ w.room \in Rooms /\ w.attempt \in 1..AttemptMax
    /\ Cardinality(work) <= MaxWorkers
    /\ pump \in {"polling", "failing", "stopped", "drained"}
    /\ stage \in {"serving", "rewards", "producers", "ended"}
    /\ now \in 0..InstantMax /\ run \in 1..RunMax
    /\ receipt \in [Users -> Keys \cup {NoReceipt}]
    /\ balance \in [Users -> Nat]

(* The reward lanes are exactly those of the frozen racers of the races    *)
(* that have not ended (debug_assert_invariants), so that no user races    *)
(* in two rooms whose rewards are open.                                    *)
LanesAgree ==
    \A u \in Users :
        /\ lane[u] # NoLane => /\ room[lane[u].room].epoch = lane[u].epoch
                               /\ u \in room[lane[u].room].racers
        /\ \A r \in Rooms : u \in room[r].racers => lane[u] = Fence(r, room[r])

(* No profile is paid twice for a race, whatever attempts overlap, expire, *)
(* are retried or are cut off by a restart: apply_race_reward_once.        *)
PaidOnce == \A u \in Users : balance[u] = Cardinality({c \in credited : c.user = u})

(* The store never refuses the reward of an open race as stale: the lanes  *)
(* serialise the races of a user, and a restart begins a newer run.        *)
NeverStale ==
    \A r \in Rooms : \A u \in room[r].racers :
        LET k == [run |-> run, room |-> r, epoch |-> room[r].epoch]
        IN  receipt[u] = k \/ Newer(k, receipt[u])

(* A dead letter that may be retried names a reward still in flight        *)
(* (reward_dead_letters reports RewardDeadLetterInvariant otherwise).      *)
RetryableHasAttempt ==
    \A r \in Rooms : room[r].fin = "failed" /\ room[r].reason = "RewardPersistence" =>
        room[r].reward[room[r].failed].is = "inflight"

(* A reward in flight has its worker until the pump has ended: no task is  *)
(* lost between the actor and the pump.                                    *)
InFlightHasWorker ==
    pump \in {"polling", "failing"} => \A c \in Entries("inflight") :
        \E w \in work : /\ w.room = c[1] /\ w.epoch = room[c[1]].epoch /\ w.user = c[2]
                        /\ w.attempt = Entry(c).attempt

(* A room leaves its settlement only when every frozen racer, present or   *)
(* not, has been paid: neither an early finalisation nor the completion of *)
(* another attempt or race makes a reward durable by mistake.              *)
SettledIsPaid ==
    [][\A r \in Rooms : room[r].phase = "settling" /\ room'[r].phase # "settling"
                            /\ run' = run
        => \A u \in room[r].racers :
            [user |-> u, key |-> [run |-> run, room |-> r, epoch |-> room[r].epoch]]
                \in credited]_vars

(* While the server runs, a settlement ends or becomes a dead letter: an   *)
(* absent racer, a failing store or a slow client cannot hold it for ever. *)
SettlementResolves ==
    \A r \in Rooms : room[r].phase = "settling" ~>
        room[r].phase # "settling" \/ room[r].fin = "failed" \/ stage # "serving"

(* A settlement that is persisting when the World quiesces drains: its     *)
(* room is released, or kept as a dead letter, or the pump fails.          *)
QuiescedSettlementDrains ==
    \A r \in Rooms : stage = "rewards" /\ room[r].fin = "persisting" ~>
        room[r].phase = "lobby" \/ room[r].fin = "failed" \/ pump = "stopped"
=============================================================================

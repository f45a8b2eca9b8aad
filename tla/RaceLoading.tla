---------------------------- MODULE RaceLoading ----------------------------
(***************************************************************************)
(* One room from the start of a race to the close of its finish line       *)
(* (world.rs): the roster that start_room freezes, the loading handshake,  *)
(* the scheduled start, the finish claims and the settlement delay.        *)
(*                                                                         *)
(* A roster entry is a stamp: a user together with the identity generation *)
(* it had at the start.  A user who migrates to another connection inside  *)
(* the same channel stays in the room under a new generation, and is then  *)
(* no participant any more.                                                *)
(*                                                                         *)
(* Deadlines are kept as the number of ticks left, so that the clock needs *)
(* no bound.  The World actor runs advance_loading after every command:    *)
(* every action ends in Advance, unless the World is quiescing.            *)
(***************************************************************************)
EXTENDS Naturals, FiniteSets

CONSTANTS Users,           \* users who may enter the room
          Spectators,      \* those of them who enter as observers
          AIs,             \* the AI racers of the room
          GenMax,          \* bound on the identity generations of a user
          ReadyTimeout,    \* LOADING_READY_TIMEOUT, in ticks
          StartDelay,      \* RACE_START_DELAY, in ticks
          SettlementDelay  \* SETTLEMENT_DELAY, in ticks

ASSUME LoadingAssumption ==
    /\ Spectators \subseteq Users /\ AIs \cap Users = {}
    /\ IsFiniteSet(Users) /\ IsFiniteSet(AIs)
    /\ {GenMax, ReadyTimeout, StartDelay, SettlementDelay} \subseteq Nat \ {0}

VARIABLES phase,     \* RoomPhase of the room
          members,   \* its users (protocol_room_by_user)
          gen,       \* the active identity generation of each user
          frozen,    \* frozen_race.participants, as stamps
          hs,        \* loading_handshake
          finished,  \* finish_times: who has crossed the line
          left,      \* ticks to the settlement deadline
          pending,   \* pending_fanouts, each named by its racer
          quiescing  \* the World no longer advances

vars == <<phase, members, gen, frozen, hs, finished, left, pending, quiescing>>

Stamps == [user : Users, gen : 1..GenMax]
Dormant == [is |-> "dormant", expected |-> {}, ready |-> {}, left |-> 0]

Init == /\ phase = "lobby"
        /\ members = {}
        /\ gen = [u \in Users |-> 1]
        /\ frozen = {}
        /\ hs = Dormant
        /\ finished = {}
        /\ left = 0
        /\ pending = {}
        /\ quiescing = FALSE

-----------------------------------------------------------------------------
(* What a command works on: the variables that Advance may change again.   *)
State == [phase |-> phase, frozen |-> frozen, hs |-> hs, finished |-> finished,
          left |-> left, pending |-> pending]

Lobby == [phase |-> "lobby", frozen |-> {}, hs |-> Dormant, finished |-> {},
          left |-> 0, pending |-> {}]

(* active_frozen_participant_stamps, for the members M and generations G.  *)
Active(q, M, G) == {s \in q.frozen : s.user \in M /\ G[s.user] = s.gen}
RacersOf(S) == {s \in S : s.user \notin Spectators}

(* Variant: whoever has left is still waited for.                          *)
ReconcileHandshakeStrict(q, act) ==
    IF q.hs.is # "awaiting" THEN q
    ELSE IF q.hs.ready = q.hs.expected
         THEN [q EXCEPT !.hs = [Dormant EXCEPT !.is = "scheduled", !.left = StartDelay]]
         ELSE q

(* Variant: the ready reports are counted, and those of the departed too.  *)
ReconcileHandshakeCounting(q, act) ==
    LET expected == q.hs.expected \cap act
    IN  IF q.hs.is # "awaiting" THEN q
        ELSE IF Cardinality(q.hs.ready) >= Cardinality(expected) \/ q.hs.left = 0
             THEN [q EXCEPT !.hs = [Dormant EXCEPT !.is = "scheduled", !.left = StartDelay]]
             ELSE [q EXCEPT !.hs.expected = expected, !.hs.ready = @ \cap expected]

(* reconcile_loading_handshake.                                            *)
ReconcileHandshake(q, act) ==
    LET expected == q.hs.expected \cap act
        ready == q.hs.ready \cap expected
    IN  IF q.hs.is # "awaiting" THEN q
        ELSE IF ready = expected \/ q.hs.left = 0
             THEN [q EXCEPT !.hs = [Dormant EXCEPT !.is = "scheduled", !.left = StartDelay]]
             ELSE [q EXCEPT !.hs.expected = expected, !.hs.ready = ready]

(* try_start_scheduled_room: a start that does not fit into every queue is *)
(* kept for the next heartbeat.                                            *)
TryStart(q, fits) ==
    IF q.hs.is = "scheduled" /\ q.hs.left = 0 /\ fits
    THEN [q EXCEPT !.phase = "running", !.hs = Dormant] ELSE q

(* Variant: a race that only observers or strangers still see goes on.     *)
AdvanceLoadingOnlyEmpty(q, act, fits) ==
    IF act = {} THEN Lobby ELSE TryStart(ReconcileHandshake(q, act), fits)

(* advance_loading_room, with abort_loading_room.                          *)
AdvanceLoading(q, act, fits) ==
    IF RacersOf(act) = {} THEN Lobby
    ELSE TryStart(ReconcileHandshake(q, act), fits)

(* The fan-out of a settlement that no finish has opened.                  *)
BeginSettlement == "begin"

(* reconcile_running_room: nobody is left who could finish.                *)
ReconcileRunning(q, act) ==
    IF RacersOf(act) # {} THEN q
    ELSE [q EXCEPT !.phase = "settling", !.left = SettlementDelay,
                   !.pending = @ \cup {BeginSettlement}]

(* try_flush_pending_race_fanouts.                                         *)
Flush(q, fits) == IF fits THEN [q EXCEPT !.pending = {}] ELSE q

(* Variant: fan-outs are flushed only while the race runs.                 *)
AdvancedFlushRunning(q, M, G, fits) ==
    LET act == Active(q, M, G)
        loaded == IF q.phase = "loading" THEN AdvanceLoading(q, act, fits) ELSE q
        running == IF loaded.phase = "running" THEN ReconcileRunning(loaded, act) ELSE loaded
    IN  IF running.phase = "running" THEN Flush(running, fits) ELSE running

(* advance_loading.  The settling room past its deadline belongs to module *)
(* RewardSettlement; here it only keeps its roster.                        *)
Advanced(q, M, G, fits) ==
    LET act == Active(q, M, G)
        loaded == IF q.phase = "loading" THEN AdvanceLoading(q, act, fits) ELSE q
        running == IF loaded.phase = "running" THEN ReconcileRunning(loaded, act) ELSE loaded
    IN  IF running.phase \in {"running", "settling"} THEN Flush(running, fits) ELSE running

Advance(q, M, G) ==
    /\ members' = M
    /\ gen' = G
    /\ \E fits \in BOOLEAN :
        LET p == IF quiescing THEN q ELSE Advanced(q, M, G, fits)
        IN  /\ phase' = p.phase /\ frozen' = p.frozen /\ hs' = p.hs
            /\ finished' = p.finished /\ left' = p.left /\ pending' = p.pending
    /\ UNCHANGED quiescing

-----------------------------------------------------------------------------
Serving == ~quiescing

(* protocol_create_room and protocol_join_room.                            *)
Join(u) == /\ Serving
           /\ phase = "lobby"
           /\ u \notin members
           /\ Advance(State, members \cup {u}, gen)

(* remove_protocol_user: a room that nobody is left in disappears unless   *)
(* its race is Running or Settling.  Sessions also close while quiescing.  *)
Leave(u) ==
    /\ u \in members
    /\ LET M == members \ {u}
       IN  Advance(IF M = {} /\ phase \in {"lobby", "loading"} THEN Lobby ELSE State, M, gen)

(* complete_preflighted_migration: a new generation, in the same room.     *)
Migrate(u) == /\ Serving
              /\ gen[u] < GenMax
              /\ Advance(State, members, [gen EXCEPT ![u] = @ + 1])

(* start_room with freeze_race_roster.                                     *)
StartRoom ==
    /\ Serving
    /\ phase = "lobby"
    /\ members \ Spectators # {}
    /\ Advance([Lobby EXCEPT !.phase = "loading",
                             !.frozen = {[user |-> u, gen |-> gen[u]] : u \in members}],
               members, gen)

(* The exact identity a command is authorised for.                         *)
Stamp(u) == [user |-> u, gen |-> gen[u]]
Participant(u) == u \in members /\ Stamp(u) \in frozen

(* arm_loading: the first GameControl(0) of a frozen participant.          *)
ArmLoading(u) ==
    /\ Serving
    /\ phase = "loading"
    /\ Participant(u)
    /\ hs.is = "dormant"
    /\ Advance([State EXCEPT !.hs = [is |-> "awaiting", expected |-> frozen, ready |-> {},
                                     left |-> ReadyTimeout]], members, gen)

(* A UDP time sync that was answered: loading_readiness_candidate, then    *)
(* apply_udp_dispatch_readiness and mark_loading_ready in the same turn.   *)
MarkReady(u) ==
    /\ Serving
    /\ phase = "loading"
    /\ Participant(u)
    /\ hs.is = "awaiting"
    /\ Stamp(u) \in hs.expected
    /\ Advance([State EXCEPT !.hs.ready = @ \cup {Stamp(u)}], members, gen)

(* record_finish: the first finish opens the settlement.                   *)
Finished(racer) ==
    LET q == [State EXCEPT !.finished = @ \cup {racer}, !.pending = @ \cup {racer}]
    IN  IF phase = "running" THEN [q EXCEPT !.phase = "settling", !.left = SettlementDelay]
        ELSE q

Claimable(racer) == /\ phase = "running" \/ (phase = "settling" /\ left > 0)
                    /\ racer \notin finished

(* record_human_finish.                                                    *)
RecordHumanFinish(u) ==
    /\ Serving
    /\ Participant(u) /\ u \notin Spectators
    /\ Claimable(u)
    /\ Advance(Finished(u), members, gen)

(* record_ai_finish: any frozen participant may report an AI racer.        *)
RecordAiFinish(u, ai) ==
    /\ Serving
    /\ Participant(u)
    /\ Claimable(ai)
    /\ Advance(Finished(ai), members, gen)

(* A tick of the clock, seen by the loading heartbeat.                     *)
Tick ==
    /\ LET down(n) == IF n > 0 THEN n - 1 ELSE 0
       IN  Advance([State EXCEPT !.left = down(@), !.hs.left = down(@)], members, gen)

(* A heartbeat that finds room in every outbound queue.                    *)
Heartbeat ==
    /\ LET p == IF quiescing THEN State ELSE Advanced(State, members, gen, TRUE)
       IN  /\ phase' = p.phase /\ frozen' = p.frozen /\ hs' = p.hs
           /\ finished' = p.finished /\ left' = p.left /\ pending' = p.pending
    /\ UNCHANGED <<members, gen, quiescing>>

(* try_finalize_settlement after the deadline, once module                 *)
(* RewardSettlement has made every reward durable.                         *)
Settled ==
    /\ Serving
    /\ phase = "settling" /\ left = 0 /\ pending = {}
    /\ Advance(Lobby, members, gen)

Quiesce == /\ Serving
           /\ quiescing' = TRUE
           /\ UNCHANGED <<phase, members, gen, frozen, hs, finished, left, pending>>

(* drain_outbound_producers_once: fan-outs that are already made are still *)
(* sent, and nothing else moves.                                           *)
DrainOutboundProducers ==
    /\ quiescing
    /\ pending # {}
    /\ pending' = {}
    /\ UNCHANGED <<phase, members, gen, frozen, hs, finished, left, quiescing>>

Next == \/ \E u \in Users : \/ Join(u) \/ Leave(u) \/ Migrate(u) \/ ArmLoading(u)
                            \/ MarkReady(u) \/ RecordHumanFinish(u)
                            \/ \E ai \in AIs : RecordAiFinish(u, ai)
        \/ StartRoom \/ Tick \/ Heartbeat \/ Settled \/ Quiesce
        \/ DrainOutboundProducers

(* Time passes, and the loading heartbeat finds room in the queues again:  *)
(* a slow client drains its queue or loses its session.                    *)
Fairness == WF_vars(Tick) /\ WF_vars(Heartbeat)

Spec == Init /\ [][Next]_vars
FairSpec == Spec /\ Fairness

-----------------------------------------------------------------------------
(* The types of the variables.                                             *)
TypeOK ==
    /\ phase \in {"lobby", "loading", "running", "settling"}
    /\ members \subseteq Users
    /\ gen \in [Users -> 1..GenMax]
    /\ frozen \subseteq Stamps
    /\ hs.is \in {"dormant", "awaiting", "scheduled"}
    /\ hs.expected \subseteq Stamps /\ hs.ready \subseteq Stamps
    /\ hs.left \in 0..(ReadyTimeout + StartDelay)
    /\ finished \subseteq Users \cup AIs /\ pending \subseteq finished \cup {BeginSettlement}
    /\ left \in 0..SettlementDelay
    /\ quiescing \in BOOLEAN

(* The handshake waits only for frozen participants who are still present  *)
(* under the generation they started with, and so never for a ghost.       *)
WaitsForThePresent ==
    /\ hs.ready \subseteq hs.expected /\ hs.expected \subseteq frozen
    /\ hs.is # "dormant" => phase = "loading"
    /\ Serving /\ hs.is = "awaiting" => hs.expected \subseteq Active(State, members, gen)

(* A race is loaded or run only while one of its racers can still see it:  *)
(* an abandoned one is aborted or settled in the turn that abandons it.    *)
NoAbandonedRace ==
    Serving /\ phase \in {"loading", "running"} => RacersOf(Active(State, members, gen)) # {}

(* The race is scheduled before the timeout only when everyone present is  *)
(* ready: nobody but the user whose own report completes the handshake was *)
(* missing, and one who leaves completes it only if all others were ready. *)
StartsTogether ==
    [][hs.is = "awaiting" /\ hs'.is = "scheduled" /\ hs.left > 1 =>
          LET late == Active(State, members, gen)' \ hs.ready
          IN  \/ late = {}
              \/ members' = members /\ gen' = gen /\ Cardinality(late) = 1]_vars

(* The race moves on.  An armed handshake ends: nobody who hangs, has left *)
(* or arms it again keeps the others on the loading screen.  A race that   *)
(* has a finisher, or that everybody has left, reaches its deadline with   *)
(* every result sent: nothing holds its settlement back.                   *)
RaceMovesOn ==
    /\ hs.is = "awaiting" ~> phase # "loading" \/ quiescing
    /\ phase = "settling" ~> (left = 0 /\ pending = {}) \/ quiescing
=============================================================================

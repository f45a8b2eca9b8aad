------------------------- MODULE RaceLoadingProofs -------------------------
(***************************************************************************)
(* Proofs about RaceLoading for any users, AI racers, generations and      *)
(* delays.  A record q stands for the room between the parts of a command: *)
(* what the handler made of it, and what advance_loading makes of that.    *)
(***************************************************************************)
EXTENDS RaceLoading, FiniteSetTheorems, TLAPS

-----------------------------------------------------------------------------
RoomFields == {"phase", "frozen", "hs", "finished", "left", "pending"}
HandshakeFields == {"is", "expected", "ready", "left"}

(* The room is well formed and its handshake belongs to its frozen roster, *)
(* whose stamps are not younger than the generations G.                    *)
Sane(q, G) ==
    /\ DOMAIN q = RoomFields /\ DOMAIN q.hs = HandshakeFields
    /\ q.phase \in {"lobby", "loading", "running", "settling"}
    /\ q.frozen \subseteq Stamps
    /\ q.hs.is \in {"dormant", "awaiting", "scheduled"}
    /\ q.hs.ready \subseteq q.hs.expected /\ q.hs.expected \subseteq q.frozen
    /\ q.hs.left \in 0..(ReadyTimeout + StartDelay)
    /\ q.hs.is # "dormant" => q.phase = "loading"
    /\ q.finished \subseteq Users \cup AIs
    /\ q.pending \subseteq q.finished \cup {BeginSettlement}
    /\ q.left \in 0..SettlementDelay
    /\ \A s \in q.frozen : s.gen <= G[s.user]

(* Nobody who is present was forgotten by the handshake: an active stamp   *)
(* leaves the set that is waited for only when it stops being active, and  *)
(* it never becomes active again, because generations only grow.           *)
Complete(q, M, G) == q.hs.is = "awaiting" => Active(q, M, G) \subseteq q.hs.expected

(* What a turn of advance_loading leaves behind.                           *)
Attended(q, M, G) ==
    /\ q.hs.is = "awaiting" => q.hs.expected \subseteq Active(q, M, G)
    /\ q.phase \in {"loading", "running"} => RacersOf(Active(q, M, G)) # {}

IndInv ==
    /\ members \subseteq Users /\ gen \in [Users -> 1..GenMax] /\ quiescing \in BOOLEAN
    /\ Sane(State, gen)
    /\ Complete(State, members, gen)
    /\ Serving => Attended(State, members, gen)

-----------------------------------------------------------------------------
(* Active depends on the frozen roster only.                               *)
LEMMA ActiveOfFrozen ==
    ASSUME NEW q, NEW p, p.frozen = q.frozen, NEW M, NEW G
    PROVE  Active(p, M, G) = Active(q, M, G)
BY DEF Active

(* An empty lobby is well formed, whatever the generations.                *)
LEMMA LobbySane ==
    ASSUME NEW M, NEW G
    PROVE  /\ Sane(Lobby, G) /\ Complete(Lobby, M, G) /\ Attended(Lobby, M, G)
           /\ Lobby.hs.is = "dormant"
BY LoadingAssumption DEF Lobby, Dormant, Sane, Complete, Attended, RoomFields,
    HandshakeFields, LoadingAssumption

(* What an armed handshake tells of the start that it schedules.           *)
Together(q, p, M, G) ==
    p.hs.is = "scheduled" =>
        /\ q.hs.is # "dormant" /\ p.frozen = q.frozen
        /\ q.hs.is = "awaiting" => \/ q.hs.left = 0
                                   \/ Active(q, M, G) \subseteq q.hs.ready

(* advance_loading_room, part by part.                                     *)
LEMMA ReconcileHandshakeKeeps ==
    ASSUME NEW M, NEW G, NEW q, Sane(q, G), Complete(q, M, G), q.phase = "loading",
           NEW p, p = ReconcileHandshake(q, Active(q, M, G))
    PROVE  /\ Sane(p, G) /\ Complete(p, M, G) /\ p.phase = "loading" /\ p.frozen = q.frozen
           /\ p.hs.is = "awaiting" => p.hs.expected \subseteq Active(q, M, G)
           /\ Together(q, p, M, G)
<1> DEFINE act == Active(q, M, G)
           expected == q.hs.expected \cap act
           ready == q.hs.ready \cap expected
<1>1. CASE q.hs.is # "awaiting"
  <2>1. p = q
    BY <1>1 DEF ReconcileHandshake
  <2> QED
    BY <1>1, <2>1 DEF Together, Sane
<1>2. CASE q.hs.is = "awaiting" /\ (ready = expected \/ q.hs.left = 0)
  <2> DEFINE h == [Dormant EXCEPT !.is = "scheduled", !.left = StartDelay]
  <2>1. p = [q EXCEPT !.hs = h]
    BY <1>2 DEF ReconcileHandshake
  <2>a. /\ DOMAIN h = HandshakeFields /\ h.is = "scheduled" /\ h.expected = {}
        /\ h.ready = {} /\ h.left = StartDelay
    BY DEF Dormant, HandshakeFields
  <2> HIDE DEF h
  <2>2. /\ DOMAIN p = RoomFields /\ DOMAIN p.hs = HandshakeFields
        /\ p.phase = q.phase /\ p.frozen = q.frozen /\ p.finished = q.finished
        /\ p.left = q.left /\ p.pending = q.pending
        /\ p.hs.is = "scheduled" /\ p.hs.expected = {} /\ p.hs.ready = {}
        /\ p.hs.left = StartDelay
    BY <2>1, <2>a DEF Sane, RoomFields
  <2>3. Sane(p, G)
    BY <2>2, LoadingAssumption DEF Sane, LoadingAssumption
  <2>4. q.hs.left = 0 \/ act \subseteq q.hs.ready
    BY <1>2 DEF Complete
  <2> QED
    BY <1>2, <2>2, <2>3, <2>4 DEF Complete, Together
<1>3. CASE q.hs.is = "awaiting" /\ ~(ready = expected \/ q.hs.left = 0)
  <2> DEFINE h == [q.hs EXCEPT !.expected = expected, !.ready = ready]
  <2>1. p = [q EXCEPT !.hs = h]
    <3>1. p = [q EXCEPT !.hs.expected = expected, !.hs.ready = ready]
      BY <1>3 DEF ReconcileHandshake
    <3>2. p = [[q EXCEPT !.hs = [@ EXCEPT !.expected = expected]]
                    EXCEPT !.hs = [@ EXCEPT !.ready = ready]]
      BY <3>1
    <3> QED
      BY <3>2 DEF Sane, RoomFields
  <2>a. /\ DOMAIN h = HandshakeFields /\ h.is = q.hs.is /\ h.expected = expected
        /\ h.ready = ready /\ h.left = q.hs.left
    BY DEF Sane, HandshakeFields
  <2> HIDE DEF h
  <2>2. /\ DOMAIN p = RoomFields /\ DOMAIN p.hs = HandshakeFields
        /\ p.phase = q.phase /\ p.frozen = q.frozen /\ p.finished = q.finished
        /\ p.left = q.left /\ p.pending = q.pending
        /\ p.hs.is = q.hs.is /\ p.hs.expected = expected /\ p.hs.ready = ready
        /\ p.hs.left = q.hs.left
    BY <2>1, <2>a DEF Sane, RoomFields
  <2>3. Sane(p, G)
    BY <2>2 DEF Sane
  <2>4. Active(p, M, G) = act
    BY <2>2, ActiveOfFrozen
  <2> QED
    BY <1>3, <2>2, <2>3, <2>4 DEF Complete, Together
<1> QED
  BY <1>1, <1>2, <1>3

LEMMA TryStartKeeps ==
    ASSUME NEW M, NEW G, NEW q, Sane(q, G), Complete(q, M, G), NEW f,
           NEW p, p = TryStart(q, f)
    PROVE  \/ p = q
           \/ /\ Sane(p, G) /\ p.phase = "running" /\ p.frozen = q.frozen
              /\ p.hs.is = "dormant" /\ q.hs.is = "scheduled"
<1>1. CASE q.hs.is = "scheduled" /\ q.hs.left = 0 /\ f
  <2>1. p = [q EXCEPT !.phase = "running", !.hs = Dormant]
    BY <1>1 DEF TryStart
  <2>2. /\ DOMAIN p = RoomFields /\ DOMAIN p.hs = HandshakeFields
        /\ p.phase = "running" /\ p.frozen = q.frozen /\ p.finished = q.finished
        /\ p.left = q.left /\ p.pending = q.pending /\ p.hs.is = "dormant"
        /\ p.hs.expected = {} /\ p.hs.ready = {} /\ p.hs.left = 0
    BY <2>1 DEF Dormant, Sane, RoomFields, HandshakeFields
  <2> QED
    BY <1>1, <2>2, LoadingAssumption DEF Sane, LoadingAssumption
<1>2. CASE ~(q.hs.is = "scheduled" /\ q.hs.left = 0 /\ f)
  BY <1>2 DEF TryStart
<1> QED
  BY <1>1, <1>2

LEMMA ReconcileRunningKeeps ==
    ASSUME NEW M, NEW G, NEW q, Sane(q, G), q.phase = "running", q.hs.is = "dormant",
           NEW p, p = ReconcileRunning(q, Active(q, M, G))
    PROVE  /\ Sane(p, G) /\ Complete(p, M, G) /\ Attended(p, M, G)
           /\ p.hs.is = "dormant" /\ p.frozen = q.frozen
           /\ p.phase \in {"running", "settling"}
<1>1. CASE RacersOf(Active(q, M, G)) # {}
  BY <1>1 DEF ReconcileRunning, Complete, Attended
<1>2. CASE RacersOf(Active(q, M, G)) = {}
  <2>1. p = [q EXCEPT !.phase = "settling", !.left = SettlementDelay,
                      !.pending = @ \cup {BeginSettlement}]
    BY <1>2 DEF ReconcileRunning
  <2>2. /\ DOMAIN p = RoomFields /\ p.hs = q.hs
        /\ p.phase = "settling" /\ p.frozen = q.frozen /\ p.finished = q.finished
        /\ p.left = SettlementDelay /\ p.pending = q.pending \cup {BeginSettlement}
    BY <2>1 DEF Sane, RoomFields
  <2> QED
    BY <2>2, LoadingAssumption DEF Sane, Complete, Attended, LoadingAssumption
<1> QED
  BY <1>1, <1>2

LEMMA FlushKeeps ==
    ASSUME NEW M, NEW G, NEW q, Sane(q, G), Complete(q, M, G), Attended(q, M, G), NEW f,
           NEW p, p = Flush(q, f)
    PROVE  /\ Sane(p, G) /\ Complete(p, M, G) /\ Attended(p, M, G)
           /\ p.hs = q.hs /\ p.frozen = q.frozen /\ p.phase = q.phase
<1>1. CASE ~f
  BY <1>1 DEF Flush
<1>2. CASE f
  <2>1. /\ DOMAIN p = RoomFields /\ p.hs = q.hs
        /\ p.phase = q.phase /\ p.frozen = q.frozen /\ p.finished = q.finished
        /\ p.left = q.left /\ p.pending = {}
    BY <1>2 DEF Flush, Sane, RoomFields
  <2>2. Active(p, M, G) = Active(q, M, G)
    BY <2>1, ActiveOfFrozen
  <2> QED
    BY <2>1, <2>2 DEF Sane, Complete, Attended
<1> QED
  BY <1>1, <1>2

LEMMA AdvanceLoadingKeeps ==
    ASSUME NEW M, NEW G, NEW q, Sane(q, G), Complete(q, M, G), q.phase = "loading", NEW f,
           NEW p, p = AdvanceLoading(q, Active(q, M, G), f)
    PROVE  /\ Sane(p, G) /\ Complete(p, M, G) /\ Together(q, p, M, G)
           /\ p.phase = "running" => p.hs.is = "dormant" /\ p.frozen = q.frozen
           /\ p.phase # "running" => Attended(p, M, G)
<1>1. CASE RacersOf(Active(q, M, G)) = {}
  <2>1. p = Lobby
    BY <1>1 DEF AdvanceLoading
  <2> QED
    BY <2>1, LobbySane DEF Together, Lobby
<1>2. CASE RacersOf(Active(q, M, G)) # {}
  <2> DEFINE h == ReconcileHandshake(q, Active(q, M, G))
  <2>1. p = TryStart(h, f)
    BY <1>2 DEF AdvanceLoading
  <2>2. /\ Sane(h, G) /\ Complete(h, M, G) /\ h.phase = "loading" /\ h.frozen = q.frozen
        /\ h.hs.is = "awaiting" => h.hs.expected \subseteq Active(q, M, G)
        /\ Together(q, h, M, G)
    BY ReconcileHandshakeKeeps
  <2> HIDE DEF h
  <2>3. \/ p = h
        \/ /\ Sane(p, G) /\ p.phase = "running" /\ p.frozen = h.frozen
           /\ p.hs.is = "dormant"
    BY <2>1, <2>2, TryStartKeeps
  <2>4. CASE p = h
    <3>1. Active(p, M, G) = Active(q, M, G)
      BY <2>2, <2>4, ActiveOfFrozen
    <3> QED
      BY <1>2, <2>2, <2>4, <3>1 DEF Attended, Together
  <2>5. CASE /\ Sane(p, G) /\ p.phase = "running" /\ p.frozen = h.frozen
             /\ p.hs.is = "dormant"
    BY <2>2, <2>5 DEF Complete, Together
  <2> QED
    BY <2>3, <2>4, <2>5
<1> QED
  BY <1>1, <1>2

(* advance_loading.                                                        *)
LEMMA AdvancedKeeps ==
    ASSUME NEW M, NEW G, NEW q, Sane(q, G), Complete(q, M, G), NEW f,
           NEW p, p = Advanced(q, M, G, f)
    PROVE  Sane(p, G) /\ Complete(p, M, G) /\ Attended(p, M, G) /\ Together(q, p, M, G)
<1> DEFINE act == Active(q, M, G)
           loaded == IF q.phase = "loading" THEN AdvanceLoading(q, act, f) ELSE q
           running == IF loaded.phase = "running" THEN ReconcileRunning(loaded, act) ELSE loaded
<1>1. p = IF running.phase \in {"running", "settling"} THEN Flush(running, f) ELSE running
  BY DEF Advanced
<1>2. /\ Sane(loaded, G) /\ Complete(loaded, M, G) /\ Together(q, loaded, M, G)
      /\ loaded.phase = "running" => loaded.hs.is = "dormant" /\ loaded.frozen = q.frozen
      /\ loaded.phase # "running" => Attended(loaded, M, G)
  <2>1. CASE q.phase = "loading"
    <3>1. loaded = AdvanceLoading(q, act, f)
      BY <2>1
    <3> HIDE DEF loaded
    <3> QED
      BY <2>1, <3>1, AdvanceLoadingKeeps
  <2>2. CASE q.phase # "loading"
    BY <2>2 DEF Sane, Attended, Together
  <2> QED
    BY <2>1, <2>2
<1> HIDE DEF loaded
<1>3. Sane(running, G) /\ Complete(running, M, G) /\ Attended(running, M, G)
      /\ Together(q, running, M, G)
  <2>1. CASE loaded.phase = "running"
    <3>1. act = Active(loaded, M, G)
      BY <1>2, <2>1, ActiveOfFrozen
    <3>2. running = ReconcileRunning(loaded, Active(loaded, M, G))
      BY <2>1, <3>1
    <3> HIDE DEF running
    <3>3. /\ Sane(running, G) /\ Complete(running, M, G) /\ Attended(running, M, G)
          /\ running.hs.is = "dormant"
      BY <1>2, <2>1, <3>2, ReconcileRunningKeeps
    <3> QED
      BY <3>3 DEF Together
  <2>2. CASE loaded.phase # "running"
    BY <1>2, <2>2
  <2> QED
    BY <2>1, <2>2
<1> HIDE DEF running
<1>4. CASE p = running
  BY <1>3, <1>4
<1>5. CASE p = Flush(running, f)
  <2>1. /\ Sane(p, G) /\ Complete(p, M, G) /\ Attended(p, M, G)
        /\ p.hs = running.hs /\ p.frozen = running.frozen
    BY <1>3, <1>5, FlushKeeps
  <2> QED
    BY <1>3, <2>1 DEF Together
<1> QED
  BY <1>1, <1>4, <1>5

-----------------------------------------------------------------------------
(* The record p is the room after the step.                                *)
Becomes(p) == /\ phase' = p.phase /\ frozen' = p.frozen /\ hs' = p.hs
              /\ finished' = p.finished /\ left' = p.left /\ pending' = p.pending

(* A command leaves q, the members M and the generations G; the turn ends  *)
(* with advance_loading unless the World is quiescing.                     *)
LEMMA Turn ==
    ASSUME NEW q, NEW M, NEW G, NEW f, quiescing \in BOOLEAN, quiescing' = quiescing,
           M \subseteq Users, G \in [Users -> 1..GenMax], members' = M, gen' = G,
           Sane(q, G), Complete(q, M, G),
           Becomes(IF quiescing THEN q ELSE Advanced(q, M, G, f))
    PROVE  /\ IndInv'
           /\ hs'.is = "scheduled" =>
                /\ q.hs.is # "dormant"
                /\ q.hs.is = "awaiting" =>
                     q.hs.left = 0 \/ Active(State, members, gen)' \subseteq q.hs.ready
<1> DEFINE p == IF quiescing THEN q ELSE Advanced(q, M, G, f)
<1>1. /\ Sane(p, G) /\ Complete(p, M, G) /\ Together(q, p, M, G)
      /\ ~quiescing => Attended(p, M, G)
  <2>1. CASE quiescing
    BY <2>1 DEF Together
  <2>2. CASE ~quiescing
    <3>1. p = Advanced(q, M, G, f)
      BY <2>2
    <3> HIDE DEF p
    <3> QED
      BY <3>1, AdvancedKeeps
  <2> QED
    BY <2>1, <2>2
<1>2. Becomes(p)
  OBVIOUS
<1> HIDE DEF p
<1> DEFINE S == State'
<1>3. /\ DOMAIN S = RoomFields
      /\ S.phase = p.phase /\ S.frozen = p.frozen /\ S.hs = p.hs
      /\ S.finished = p.finished /\ S.left = p.left /\ S.pending = p.pending
  BY <1>2 DEF State, RoomFields, Becomes
<1>4. Active(S, M, G) = Active(p, M, G)
  BY <1>3 DEF Active
<1>5. Sane(S, G) /\ Complete(S, M, G) /\ (~quiescing => Attended(S, M, G))
  BY <1>1, <1>3, <1>4 DEF Sane, Complete, Attended
<1>6. IndInv'
  BY <1>5 DEF IndInv, Serving, Sane, Complete, Attended, Active
<1>7. Active(State, members, gen)' = Active(S, M, G)
  BY DEF Active
<1>8. ASSUME hs'.is = "scheduled"
      PROVE  /\ q.hs.is # "dormant"
             /\ q.hs.is = "awaiting" =>
                  q.hs.left = 0 \/ Active(State, members, gen)' \subseteq q.hs.ready
  <2>1. /\ q.hs.is # "dormant" /\ p.frozen = q.frozen
        /\ q.hs.is = "awaiting" => \/ q.hs.left = 0
                                   \/ Active(q, M, G) \subseteq q.hs.ready
    BY <1>1, <1>2, <1>8 DEF Together, Becomes
  <2>2. Active(p, M, G) = Active(q, M, G)
    BY <2>1, ActiveOfFrozen
  <2> QED
    BY <1>4, <1>7, <2>1, <2>2
<1> QED
  BY <1>6, <1>8

-----------------------------------------------------------------------------
(* Late is everybody present who had not reported yet.                     *)
TogetherNow ==
    hs.is = "awaiting" /\ hs'.is = "scheduled" /\ hs.left > 1 =>
        LET late == Active(State, members, gen)' \ hs.ready
        IN  \/ late = {}
            \/ members' = members /\ gen' = gen /\ Cardinality(late) = 1

(* A command adds the reports X to those the handshake has: none, or one   *)
(* while nobody comes, leaves or migrates.                                 *)
LEMMA Command ==
    ASSUME IndInv, NEW q, NEW M, NEW G, NEW X, NEW f,
           Becomes(IF quiescing THEN q ELSE Advanced(q, M, G, f)),
           members' = M, gen' = G, quiescing' = quiescing,
           M \subseteq Users, G \in [Users -> 1..GenMax], Sane(q, G), Complete(q, M, G),
           hs.is = "awaiting" =>
                \/ q.hs.is = "dormant"
                \/ /\ q.hs.is = "awaiting" /\ (hs.left > 1 => q.hs.left # 0)
                   /\ q.hs.ready \subseteq hs.ready \cup X,
           X = {} \/ (M = members /\ G = gen /\ \E s : X = {s})
    PROVE  IndInv' /\ TogetherNow
<1>1. quiescing \in BOOLEAN
  BY DEF IndInv
<1>2. /\ IndInv'
      /\ hs'.is = "scheduled" =>
           /\ q.hs.is # "dormant"
           /\ q.hs.is = "awaiting" =>
                q.hs.left = 0 \/ Active(State, members, gen)' \subseteq q.hs.ready
  BY <1>1, Turn
<1>3. ASSUME hs.is = "awaiting", hs'.is = "scheduled", hs.left > 1,
             NEW late, late = Active(State, members, gen)' \ hs.ready
      PROVE  late = {} \/ (members' = members /\ gen' = gen /\ Cardinality(late) = 1)
  <2>1. late \subseteq X
    BY <1>2, <1>3
  <2>2. CASE X = {}
    BY <2>1, <2>2
  <2>3. CASE M = members /\ G = gen /\ \E s : X = {s}
    <3>1. PICK s : X = {s}
      BY <2>3
    <3>2. late = {} \/ late = {s}
      BY <2>1, <3>1
    <3>3. Cardinality({s}) = 1
      BY FS_Singleton
    <3> QED
      BY <2>3, <3>2, <3>3
  <2> QED
    BY <2>2, <2>3
<1>4. TogetherNow
  BY <1>3 DEF TogetherNow
<1> QED
  BY <1>2, <1>4

(* The current room, for commands that only change who is in it.           *)
LEMMA StateFields ==
    /\ DOMAIN State = RoomFields
    /\ State.phase = phase /\ State.frozen = frozen /\ State.hs = hs
    /\ State.finished = finished /\ State.left = left /\ State.pending = pending
BY DEF State, RoomFields

LEMMA JoinStep ==
    ASSUME IndInv, NEW u \in Users, Join(u)
    PROVE  IndInv' /\ TogetherNow
<1>1. PICK f \in BOOLEAN : Becomes(IF quiescing THEN State
                                   ELSE Advanced(State, members \cup {u}, gen, f))
  BY DEF Join, Advance, Becomes
<1>2. /\ members' = members \cup {u} /\ gen' = gen /\ quiescing' = quiescing
      /\ phase = "lobby"
  BY DEF Join, Advance
<1>3. Sane(State, gen) /\ members \cup {u} \subseteq Users /\ gen \in [Users -> 1..GenMax]
  BY DEF IndInv
<1>4. hs.is = "dormant" /\ State.hs = hs
  BY <1>2, <1>3, StateFields DEF Sane
<1>5. Complete(State, members \cup {u}, gen)
  BY <1>4 DEF Complete
<1> HIDE DEF IndInv
<1> QED
  BY <1>1, <1>2, <1>3, <1>4, <1>5, Command

LEMMA LeaveStep ==
    ASSUME IndInv, NEW u \in Users, Leave(u)
    PROVE  IndInv' /\ TogetherNow
<1> DEFINE M == members \ {u}
           q == IF M = {} /\ phase \in {"lobby", "loading"} THEN Lobby ELSE State
<1>1. PICK f \in BOOLEAN : Becomes(IF quiescing THEN q ELSE Advanced(q, M, gen, f))
  BY DEF Leave, Advance, Becomes
<1>2. members' = M /\ gen' = gen /\ quiescing' = quiescing
  BY DEF Leave, Advance
<1>3. Sane(State, gen) /\ M \subseteq Users /\ gen \in [Users -> 1..GenMax]
  BY DEF IndInv
<1>4. Complete(State, M, gen)
  BY DEF IndInv, Complete, Active
<1>5. q = Lobby \/ q = State
  OBVIOUS
<1> HIDE DEF q
<1>6. Sane(q, gen) /\ Complete(q, M, gen)
  BY <1>3, <1>4, <1>5, LobbySane
<1>7. q.hs.is = "dormant" \/ q.hs = hs
  BY <1>5, LobbySane, StateFields
<1>8. hs.left \in Nat
  BY <1>3, LoadingAssumption, StateFields DEF Sane, LoadingAssumption
<1>9. hs.is = "awaiting" =>
        \/ q.hs.is = "dormant"
        \/ /\ q.hs.is = "awaiting" /\ (hs.left > 1 => q.hs.left # 0)
           /\ q.hs.ready \subseteq hs.ready \cup {}
  BY <1>7, <1>8
<1> HIDE DEF IndInv
<1> QED
  BY <1>1, <1>2, <1>3, <1>6, <1>9, Command

(* A new generation makes no stamp active again.                           *)
LEMMA MigrateStep ==
    ASSUME IndInv, NEW u \in Users, Migrate(u)
    PROVE  IndInv' /\ TogetherNow
<1> DEFINE G == [gen EXCEPT ![u] = @ + 1]
<1>1. PICK f \in BOOLEAN : Becomes(IF quiescing THEN State ELSE Advanced(State, members, G, f))
  BY DEF Migrate, Advance, Becomes
<1>2. members' = members /\ gen' = G /\ quiescing' = quiescing /\ gen[u] < GenMax
  BY DEF Migrate, Advance
<1>3. Sane(State, gen) /\ members \subseteq Users /\ gen \in [Users -> 1..GenMax]
  BY DEF IndInv
<1>4. GenMax \in Nat
  BY LoadingAssumption DEF LoadingAssumption
<1>5. /\ G \in [Users -> 1..GenMax]
      /\ \A v \in Users : G[v] = IF v = u THEN gen[v] + 1 ELSE gen[v]
  BY <1>2, <1>3, <1>4
<1> HIDE DEF G
<1>6. \A s \in State.frozen : s.user \in Users /\ s.gen \in Nat /\ s.gen <= gen[s.user]
  BY <1>3, <1>4 DEF Sane, Stamps
<1>7. \A v \in Users : gen[v] \in Nat
  BY <1>3, <1>4
<1>8. Sane(State, G)
  <2>1. \A s \in State.frozen : s.gen <= G[s.user]
    BY <1>5, <1>6, <1>7
  <2> QED
    BY <1>3, <2>1 DEF Sane
<1>9. Active(State, members, G) \subseteq Active(State, members, gen)
  BY <1>5, <1>6, <1>7 DEF Active
<1>10. Complete(State, members, G)
  BY <1>9 DEF IndInv, Complete
<1>11. State.hs = hs /\ hs.left \in Nat
  BY <1>3, LoadingAssumption, StateFields DEF Sane, LoadingAssumption
<1>12. hs.is = "awaiting" =>
        /\ State.hs.is = "awaiting" /\ (hs.left > 1 => State.hs.left # 0)
        /\ State.hs.ready \subseteq hs.ready \cup {}
  BY <1>11
<1> HIDE DEF IndInv
<1> QED
  BY <1>1, <1>2, <1>3, <1>5, <1>8, <1>10, <1>12, Command

LEMMA StartRoomStep ==
    ASSUME IndInv, StartRoom
    PROVE  IndInv' /\ TogetherNow
<1> DEFINE roster == {[user |-> u, gen |-> gen[u]] : u \in members}
           q == [Lobby EXCEPT !.phase = "loading", !.frozen = roster]
<1>1. PICK f \in BOOLEAN : Becomes(IF quiescing THEN q ELSE Advanced(q, members, gen, f))
  BY DEF StartRoom, Advance, Becomes
<1>2. members' = members /\ gen' = gen /\ quiescing' = quiescing
  BY DEF StartRoom, Advance
<1>3. members \subseteq Users /\ gen \in [Users -> 1..GenMax]
  BY DEF IndInv
<1>4. \A s \in roster : s \in Stamps /\ s.gen <= gen[s.user]
  <2>1. ASSUME NEW u \in members
        PROVE  [user |-> u, gen |-> gen[u]] \in Stamps /\ gen[u] \in Nat
    BY <1>3, LoadingAssumption DEF Stamps, LoadingAssumption
  <2> QED
    BY <2>1
<1> HIDE DEF roster
<1>5. /\ DOMAIN q = RoomFields /\ q.phase = "loading" /\ q.frozen = roster
      /\ q.hs = Dormant /\ q.finished = {} /\ q.left = 0 /\ q.pending = {}
  BY DEF Lobby, RoomFields
<1> HIDE DEF q
<1>6. Sane(q, gen) /\ q.hs.is = "dormant"
  BY <1>4, <1>5, LoadingAssumption DEF Sane, Dormant, HandshakeFields, LoadingAssumption
<1>7. Complete(q, members, gen)
  BY <1>6 DEF Complete
<1> HIDE DEF IndInv
<1> QED
  BY <1>1, <1>2, <1>3, <1>6, <1>7, Command

LEMMA ArmLoadingStep ==
    ASSUME IndInv, NEW u \in Users, ArmLoading(u)
    PROVE  IndInv' /\ TogetherNow
<1> DEFINE h == [is |-> "awaiting", expected |-> frozen, ready |-> {}, left |-> ReadyTimeout]
           q == [State EXCEPT !.hs = h]
<1>1. PICK f \in BOOLEAN : Becomes(IF quiescing THEN q ELSE Advanced(q, members, gen, f))
  BY DEF ArmLoading, Advance, Becomes
<1>2. /\ members' = members /\ gen' = gen /\ quiescing' = quiescing
      /\ phase = "loading" /\ hs.is = "dormant"
  BY DEF ArmLoading, Advance
<1>3. Sane(State, gen) /\ members \subseteq Users /\ gen \in [Users -> 1..GenMax]
  BY DEF IndInv
<1>4. /\ DOMAIN h = HandshakeFields /\ h.is = "awaiting" /\ h.expected = frozen
      /\ h.ready = {} /\ h.left = ReadyTimeout
  BY DEF HandshakeFields
<1> HIDE DEF h
<1>5. /\ DOMAIN q = RoomFields /\ q.phase = "loading" /\ q.frozen = frozen /\ q.hs = h
      /\ q.finished = State.finished /\ q.left = State.left /\ q.pending = State.pending
  BY <1>2, StateFields DEF RoomFields
<1> HIDE DEF q
<1>6. Sane(q, gen)
  BY <1>3, <1>4, <1>5, StateFields, LoadingAssumption DEF Sane, LoadingAssumption
<1>7. Complete(q, members, gen)
  BY <1>4, <1>5 DEF Complete, Active
<1> HIDE DEF IndInv
<1> QED
  BY <1>1, <1>2, <1>3, <1>6, <1>7, Command

LEMMA MarkReadyStep ==
    ASSUME IndInv, NEW u \in Users, MarkReady(u)
    PROVE  IndInv' /\ TogetherNow
<1> DEFINE h == [hs EXCEPT !.ready = @ \cup {Stamp(u)}]
           q == [State EXCEPT !.hs = h]
<1>0. [State EXCEPT !.hs.ready = @ \cup {Stamp(u)}] = q
  BY StateFields
<1>1. PICK f \in BOOLEAN : Becomes(IF quiescing THEN q ELSE Advanced(q, members, gen, f))
  BY <1>0 DEF MarkReady, Advance, Becomes
<1>2. /\ members' = members /\ gen' = gen /\ quiescing' = quiescing
      /\ phase = "loading" /\ hs.is = "awaiting" /\ Stamp(u) \in hs.expected
  BY DEF MarkReady, Advance
<1>3. Sane(State, gen) /\ members \subseteq Users /\ gen \in [Users -> 1..GenMax]
  BY DEF IndInv
<1>4. /\ DOMAIN h = HandshakeFields /\ h.is = hs.is /\ h.expected = hs.expected
      /\ h.ready = hs.ready \cup {Stamp(u)} /\ h.left = hs.left
  BY <1>3, StateFields DEF Sane, HandshakeFields
<1> HIDE DEF h
<1>5. /\ DOMAIN q = RoomFields /\ q.phase = phase /\ q.frozen = frozen /\ q.hs = h
      /\ q.finished = State.finished /\ q.left = State.left /\ q.pending = State.pending
  BY StateFields DEF RoomFields
<1> HIDE DEF q
<1>6. Sane(q, gen)
  BY <1>2, <1>3, <1>4, <1>5, StateFields DEF Sane
<1>7. Complete(q, members, gen)
  BY <1>4, <1>5, StateFields DEF IndInv, Complete, Active
<1>8. hs.left \in Nat
  BY <1>3, LoadingAssumption, StateFields DEF Sane, LoadingAssumption
<1>9. /\ q.hs.is = "awaiting" /\ (hs.left > 1 => q.hs.left # 0)
      /\ q.hs.ready \subseteq hs.ready \cup {Stamp(u)}
  BY <1>2, <1>4, <1>5, <1>8
<1> HIDE DEF IndInv
<1> QED
  BY <1>1, <1>2, <1>3, <1>6, <1>7, <1>9, Command

(* A finish is claimed while the race runs or settles, long after the      *)
(* handshake.                                                              *)
LEMMA FinishStep ==
    ASSUME IndInv, NEW racer \in Users \cup AIs, Claimable(racer),
           Advance(Finished(racer), members, gen)
    PROVE  IndInv' /\ TogetherNow
<1> DEFINE q == Finished(racer)
<1>1. PICK f \in BOOLEAN : Becomes(IF quiescing THEN q ELSE Advanced(q, members, gen, f))
  BY DEF Advance, Becomes
<1>2. members' = members /\ gen' = gen /\ quiescing' = quiescing
  BY DEF Advance
<1>3. Sane(State, gen) /\ members \subseteq Users /\ gen \in [Users -> 1..GenMax]
  BY DEF IndInv
<1>4. phase \in {"running", "settling"} /\ hs.is = "dormant"
  BY <1>3, StateFields DEF Claimable, Sane
<1>5. /\ DOMAIN q = RoomFields /\ q.phase = "settling" /\ q.frozen = frozen /\ q.hs = hs
      /\ q.finished = finished \cup {racer} /\ q.left \in {left, SettlementDelay}
      /\ q.pending = pending \cup {racer}
  BY <1>4 DEF Finished, State, RoomFields
<1> HIDE DEF q
<1>6. Sane(q, gen)
  BY <1>3, <1>4, <1>5, StateFields, LoadingAssumption DEF Sane, LoadingAssumption
<1>7. Complete(q, members, gen) /\ q.hs.is = "dormant"
  BY <1>4, <1>5 DEF Complete
<1> HIDE DEF IndInv
<1> QED
  BY <1>1, <1>2, <1>3, <1>6, <1>7, Command

LEMMA TickStep ==
    ASSUME IndInv, Tick
    PROVE  IndInv' /\ TogetherNow
<1> DEFINE down(n) == IF n > 0 THEN n - 1 ELSE 0
           h == [hs EXCEPT !.left = down(@)]
           q == [State EXCEPT !.left = down(@), !.hs = h]
<1>0. [State EXCEPT !.left = down(@), !.hs.left = down(@)] = q
  BY StateFields
<1>1. PICK f \in BOOLEAN : Becomes(IF quiescing THEN q ELSE Advanced(q, members, gen, f))
  BY <1>0 DEF Tick, Advance, Becomes
<1>2. members' = members /\ gen' = gen /\ quiescing' = quiescing
  BY DEF Tick, Advance
<1>3. Sane(State, gen) /\ members \subseteq Users /\ gen \in [Users -> 1..GenMax]
  BY DEF IndInv
<1>4. /\ DOMAIN h = HandshakeFields /\ h.is = hs.is /\ h.expected = hs.expected
      /\ h.ready = hs.ready /\ h.left = down(hs.left)
  BY <1>3, StateFields DEF Sane, HandshakeFields
<1> HIDE DEF h
<1>5. /\ DOMAIN q = RoomFields /\ q.phase = phase /\ q.frozen = frozen /\ q.hs = h
      /\ q.finished = finished /\ q.left = down(left) /\ q.pending = pending
  BY StateFields DEF RoomFields
<1> HIDE DEF q
<1>6. {ReadyTimeout, StartDelay, SettlementDelay} \subseteq Nat
      /\ hs.left \in 0..(ReadyTimeout + StartDelay) /\ left \in 0..SettlementDelay
  BY <1>3, LoadingAssumption, StateFields DEF Sane, LoadingAssumption
<1>7. /\ down(hs.left) \in 0..(ReadyTimeout + StartDelay) /\ down(left) \in 0..SettlementDelay
      /\ hs.left > 1 => down(hs.left) # 0
  BY <1>6
<1> HIDE DEF down
<1>8. Sane(q, gen)
  BY <1>3, <1>4, <1>5, <1>7, StateFields DEF Sane
<1>9. Complete(q, members, gen)
  BY <1>4, <1>5, StateFields DEF IndInv, Complete, Active
<1>10. hs.is = "awaiting" =>
        /\ q.hs.is = "awaiting" /\ (hs.left > 1 => q.hs.left # 0)
        /\ q.hs.ready \subseteq hs.ready \cup {}
  BY <1>4, <1>5, <1>7
<1> HIDE DEF IndInv
<1> QED
  BY <1>1, <1>2, <1>3, <1>8, <1>9, <1>10, Command

LEMMA HeartbeatStep ==
    ASSUME IndInv, Heartbeat
    PROVE  IndInv' /\ TogetherNow
<1>1. Becomes(IF quiescing THEN State ELSE Advanced(State, members, gen, TRUE))
  BY DEF Heartbeat, Becomes
<1>2. members' = members /\ gen' = gen /\ quiescing' = quiescing
  BY DEF Heartbeat
<1>3. /\ Sane(State, gen) /\ Complete(State, members, gen)
      /\ members \subseteq Users /\ gen \in [Users -> 1..GenMax]
  BY DEF IndInv
<1>4. State.hs = hs /\ hs.left \in Nat
  BY <1>3, LoadingAssumption, StateFields DEF Sane, LoadingAssumption
<1>5. hs.is = "awaiting" =>
        /\ State.hs.is = "awaiting" /\ (hs.left > 1 => State.hs.left # 0)
        /\ State.hs.ready \subseteq hs.ready \cup {}
  BY <1>4
<1> HIDE DEF IndInv
<1> QED
  BY <1>1, <1>2, <1>3, <1>5, Command

LEMMA SettledStep ==
    ASSUME IndInv, Settled
    PROVE  IndInv' /\ TogetherNow
<1>1. PICK f \in BOOLEAN : Becomes(IF quiescing THEN Lobby ELSE Advanced(Lobby, members, gen, f))
  BY DEF Settled, Advance, Becomes
<1>2. members' = members /\ gen' = gen /\ quiescing' = quiescing
  BY DEF Settled, Advance
<1>3. members \subseteq Users /\ gen \in [Users -> 1..GenMax]
  BY DEF IndInv
<1> HIDE DEF IndInv
<1> QED
  BY <1>1, <1>2, <1>3, LobbySane, Command

(* A quiescing World promises nobody its attention.                        *)
LEMMA QuietStep ==
    ASSUME IndInv, UNCHANGED <<phase, members, gen, frozen, hs, finished, left>>,
           pending' \subseteq pending, quiescing' \in BOOLEAN, quiescing => quiescing'
    PROVE  IndInv' /\ TogetherNow
<1>1. Sane(State, gen)' /\ Complete(State, members, gen)'
  BY DEF IndInv, Sane, Complete, Active, State, RoomFields
<1>2. (Serving => Attended(State, members, gen))'
  BY DEF IndInv, Attended, Active, State, Serving
<1>3. TogetherNow
  BY DEF TogetherNow
<1> QED
  BY <1>1, <1>2, <1>3 DEF IndInv

-----------------------------------------------------------------------------
LEMMA InitInd == Init => IndInv
<1> SUFFICES ASSUME Init PROVE IndInv
  OBVIOUS
<1>1. State = Lobby
  BY DEF Init, State, Lobby
<1>2. members \subseteq Users /\ gen \in [Users -> 1..GenMax] /\ quiescing \in BOOLEAN
  <2>1. GenMax \in Nat \ {0}
    BY LoadingAssumption DEF LoadingAssumption
  <2>2. 1 \in 1..GenMax
    BY <2>1
  <2> QED
    BY <2>2 DEF Init
<1>3. Sane(State, gen) /\ Complete(State, members, gen) /\ Attended(State, members, gen)
  BY <1>1, LobbySane
<1> QED
  BY <1>2, <1>3 DEF IndInv

LEMMA StepInd == IndInv /\ [Next]_vars => IndInv' /\ TogetherNow
<1> SUFFICES ASSUME IndInv, [Next]_vars PROVE IndInv' /\ TogetherNow
  OBVIOUS
<1>1. ASSUME NEW u \in Users,
             \/ Join(u) \/ Leave(u) \/ Migrate(u) \/ ArmLoading(u) \/ MarkReady(u)
      PROVE  IndInv' /\ TogetherNow
  BY <1>1, JoinStep, LeaveStep, MigrateStep, ArmLoadingStep, MarkReadyStep
<1>2. ASSUME NEW u \in Users, RecordHumanFinish(u) PROVE IndInv' /\ TogetherNow
  BY <1>2, FinishStep DEF RecordHumanFinish
<1>3. ASSUME NEW u \in Users, NEW ai \in AIs, RecordAiFinish(u, ai)
      PROVE  IndInv' /\ TogetherNow
  BY <1>3, FinishStep DEF RecordAiFinish
<1>4. CASE StartRoom
  BY <1>4, StartRoomStep
<1>5. CASE Tick
  BY <1>5, TickStep
<1>6. CASE Heartbeat
  BY <1>6, HeartbeatStep
<1>7. CASE Settled
  BY <1>7, SettledStep
<1>8. CASE Quiesce
  BY <1>8, QuietStep DEF Quiesce
<1>9. CASE DrainOutboundProducers
  BY <1>9, QuietStep DEF DrainOutboundProducers
<1>10. CASE UNCHANGED vars
  <2>1. quiescing \in BOOLEAN
    BY DEF IndInv
  <2> QED
    BY <1>10, <2>1, QuietStep DEF vars
<1> HIDE DEF IndInv, TogetherNow
<1> QED
  BY <1>1, <1>2, <1>3, <1>4, <1>5, <1>6, <1>7, <1>8, <1>9, <1>10 DEF Next

(* The inductive invariant holds in every reachable state.                 *)
THEOREM InvariantHolds == Spec => []IndInv
BY InitInd, StepInd, PTL DEF Spec

-----------------------------------------------------------------------------
(* The variables keep their types.                                         *)
THEOREM LoadingTypeCorrect == Spec => []TypeOK
<1>1. IndInv => TypeOK
  BY StateFields DEF IndInv, Sane, TypeOK
<1> QED
  BY <1>1, InvariantHolds, PTL

(* The loading handshake waits only for frozen participants who are still  *)
(* present under the generation they started with.                         *)
THEOREM AlwaysWaitsForThePresent == Spec => []WaitsForThePresent
<1>1. IndInv => WaitsForThePresent
  BY StateFields DEF IndInv, Sane, Attended, WaitsForThePresent
<1> QED
  BY <1>1, InvariantHolds, PTL

(* A race is loaded or run only while one of its racers can still see it.  *)
THEOREM RaceNeverAbandoned == Spec => []NoAbandonedRace
<1>1. IndInv => NoAbandonedRace
  BY StateFields DEF IndInv, Attended, NoAbandonedRace
<1> QED
  BY <1>1, InvariantHolds, PTL

(* A race is scheduled before the timeout only when everybody who is       *)
(* present is ready, up to the user whose own report completes it.         *)
THEOREM AlwaysStartsTogether == Spec => StartsTogether
<1>1. IndInv /\ [Next]_vars => [TogetherNow]_vars
  BY StepInd
<1>2. Spec => [][TogetherNow]_vars
  BY <1>1, InvariantHolds, PTL DEF Spec
<1> QED
  BY <1>2, PTL DEF StartsTogether, TogetherNow
=============================================================================

----------------------- MODULE RewardSettlementProofs -----------------------
(***************************************************************************)
(* Proofs about RewardSettlement for any rooms, racers, limits and delays. *)
(* None of its properties is inductive alone.  NeverStale needs to know    *)
(* how far a worker may lag behind the race of its user; PaidOnce, that no *)
(* race was credited beyond the latest receipt; SettledIsPaid, that a      *)
(* durable entry was credited, which rests on every worker that answers    *)
(* durable; and all of them rest on LanesAgree.                            *)
(***************************************************************************)
EXTENDS RewardSettlement, FiniteSetTheorems, WellFoundedInduction, TLAPS

-----------------------------------------------------------------------------
(* The lexicographic order has a first element in every nonempty set, so   *)
(* that the candidate whose room becomes a dead letter is a candidate.     *)
LEMMA NatLeast ==
    ASSUME NEW S, S \subseteq Nat, S # {}
    PROVE  \E x \in S : \A y \in S : x <= y
<1>1. \E x \in S : \A y \in S : ~(<<y, x>> \in OpToRel(<, Nat))
  BY NatLessThanWellFounded, WFMin
<1>2. PICK x \in S : \A y \in S : ~(<<y, x>> \in OpToRel(<, Nat))
  BY <1>1
<1>3. ASSUME NEW y \in S PROVE x <= y
  <2>1. <<y, x>> \notin {ss \in Nat \X Nat : ss[1] < ss[2]}
    BY <1>2, Zenon DEF OpToRel
  <2> QED
    BY <2>1
<1> QED
  BY <1>3

LEMMA FirstBelongs ==
    ASSUME NEW C, C \subseteq Rooms \X Users, C # {}
    PROVE  First(C) \in C
<1> DEFINE Firsts == {c[1] : c \in C}
<1>1. Firsts \subseteq Nat /\ Firsts # {}
  BY RewardAssumption DEF RewardAssumption
<1>2. PICK r \in Firsts : \A s \in Firsts : r <= s
  BY <1>1, NatLeast
<1> DEFINE Seconds == {c[2] : c \in {d \in C : d[1] = r}}
<1>3. Seconds \subseteq Nat /\ Seconds # {}
  BY <1>2, RewardAssumption DEF RewardAssumption
<1>4. PICK u \in Seconds : \A v \in Seconds : u <= v
  BY <1>3, NatLeast
<1>5. <<r, u>> \in C
  <2>1. PICK c \in C : c[1] = r /\ c[2] = u
    BY <1>4
  <2> QED
    BY <2>1
<1>6. \A d \in C \ {<<r, u>>} : Before(<<r, u>>, d)
  <2> SUFFICES ASSUME NEW d \in C, d # <<r, u>> PROVE Before(<<r, u>>, d)
    OBVIOUS
  <2>0. d = <<d[1], d[2]>> /\ d[1] \in Nat /\ d[2] \in Nat /\ r \in Nat /\ u \in Nat
    <3>1. d \in Rooms \X Users
      OBVIOUS
    <3>2. Rooms \subseteq Nat /\ Users \subseteq Nat
      BY RewardAssumption DEF RewardAssumption
    <3>3. d = <<d[1], d[2]>>
      BY <3>1
    <3>4. d[1] \in Rooms /\ d[2] \in Users
      BY <3>1
    <3>5. r \in Nat /\ u \in Nat
      BY <1>1, <1>2, <1>3, <1>4
    <3> QED
      BY <3>2, <3>3, <3>4, <3>5
  <2>1. r <= d[1]
    BY <1>2
  <2>2. d[1] = r => u <= d[2]
    BY <1>4
  <2> QED
    BY <2>0, <2>1, <2>2 DEF Before
<1> QED
  BY <1>5, <1>6 DEF First

-----------------------------------------------------------------------------
Fields == {"phase", "epoch", "racers", "deadline", "fin", "reason", "failed", "reward",
           "pending"}
EntryFields == {"is", "at", "fails", "attempt"}
Opened == {"persisting", "ready", "failed"}

(* A room's record: a race has an epoch, only a settling room finalises,   *)
(* and once rewards exist there is one for every frozen racer.             *)
Shape(q) ==
    /\ DOMAIN q = Fields
    /\ q.phase \in {"lobby", "loading", "running", "settling"}
    /\ q.fin \in {"none", "awaiting"} \cup Opened
    /\ q.epoch \in Nat /\ q.racers \subseteq Users
    /\ q.epoch = 0 <=> q.phase = "lobby"
    /\ q.phase = "lobby" => q.racers = {}
    /\ q.phase # "settling" => q.fin = "none"
    /\ q.fin \in Opened => /\ DOMAIN q.reward = q.racers
                           /\ \A u \in q.racers : DOMAIN q.reward[u] = EntryFields

Credit(r, q, u) == [user |-> u, key |-> [run |-> run, room |-> r, epoch |-> q.epoch]]

(* What the rewards of a room say of the profiles, and a dead letter of    *)
(* its rewards.                                                            *)
Honest(r, q) ==
    /\ q.fin \in Opened => \A u \in q.racers :
            q.reward[u].is = "durable" => Credit(r, q, u) \in credited
    /\ q.fin = "ready" => \A u \in q.racers : q.reward[u].is = "durable"
    /\ q.fin = "failed" /\ q.reason = "RewardPersistence" =>
            q.failed \in q.racers /\ q.reward[q.failed].is = "inflight"

(* How advance_loading moves one room: back to its lobby when everybody is *)
(* paid, on to persistence, or not at all.                                 *)
Released(q, p) == p = Idle /\ q.phase = "settling" /\ q.fin = "ready"
Kept(q, p) ==
    /\ DOMAIN p = Fields
    /\ p.phase = q.phase /\ p.epoch = q.epoch /\ p.racers = q.racers
    /\ p.reason = q.reason /\ p.failed = q.failed
    /\ \/ p.fin = q.fin /\ p.reward = q.reward
       \/ /\ q.fin = "awaiting" /\ p.fin = "persisting"
          /\ DOMAIN p.reward = q.racers
          /\ \A u \in q.racers : DOMAIN p.reward[u] = EntryFields /\ p.reward[u].is = "queued"
Moved(q, p) == Released(q, p) \/ Kept(q, p)

(* The step of one room, whatever its reservations do.                     *)
LEMMA FinalizeMoves ==
    ASSUME NEW q, Shape(q), NEW f, NEW v
    PROVE  Moved(q, TryFinalize(q, f, v))
<1> DEFINE p == Flush(q, f)
<1>1. /\ DOMAIN p = Fields
      /\ p.phase = q.phase /\ p.epoch = q.epoch /\ p.racers = q.racers
      /\ p.reason = q.reason /\ p.failed = q.failed /\ p.fin = q.fin /\ p.reward = q.reward
  BY DEF Flush, Shape, Fields
<1>2. TryFinalize(q, f, v) = IF ~p.pending /\ p.fin = "ready" /\ v THEN Idle ELSE p
  BY DEF TryFinalize
<1>3. q.fin = "ready" => q.phase = "settling"
  BY DEF Shape
<1> HIDE DEF p
<1> QED
  BY <1>1, <1>2, <1>3 DEF Moved, Released, Kept

LEMMA RoomMoves ==
    ASSUME NEW q, Shape(q), NEW at, NEW f, NEW v
    PROVE  Moved(q, AdvanceRoom(q, at, f, v))
<1>1. Moved(q, Flush(q, f)) /\ Moved(q, q)
  BY DEF Moved, Kept, Flush, Shape, Fields
<1>2. CASE q.phase = "settling" /\ at >= q.deadline
  <2> DEFINE p == BeginPersistence(q, at)
  <2>1. AdvanceRoom(q, at, f, v) = TryFinalize(p, f, v)
    BY <1>2 DEF AdvanceRoom
  <2>2. CASE q.fin = "awaiting"
    <3>1. /\ Kept(q, p)
          /\ p.fin = "persisting"
      BY <2>2 DEF Shape, BeginPersistence, Kept, Fields, Queued, EntryFields
    <3>2. Shape(p)
      BY <3>1, <1>2 DEF Shape, Kept, Opened
    <3> HIDE DEF p
    <3>3. Moved(p, TryFinalize(p, f, v))
      BY <3>2, FinalizeMoves
    <3>4. Kept(p, TryFinalize(p, f, v))
      BY <3>1, <3>3 DEF Moved, Released
    <3> QED
      BY <2>1, <2>2, <3>1, <3>4 DEF Kept, Moved
  <2>3. CASE q.fin # "awaiting"
    BY <2>1, <2>3, FinalizeMoves DEF BeginPersistence
  <2> QED
    BY <2>2, <2>3
<1>3. CASE ~(q.phase = "settling" /\ at >= q.deadline)
  <2>1. AdvanceRoom(q, at, f, v) \in {q, Flush(q, f)}
    BY <1>3 DEF AdvanceRoom
  <2> QED
    BY <1>1, <2>1
<1> QED
  BY <1>2, <1>3

(* A moved room is well formed and honest, and lies about no racer.        *)
LEMMA MovedRoom ==
    ASSUME NEW r, NEW q, NEW p, Shape(q), Honest(r, q), Moved(q, p)
    PROVE  Shape(p) /\ Honest(r, p)
<1>1. CASE Released(q, p)
  BY <1>1 DEF Released, Idle, Shape, Honest, Fields, Opened
<1>2. CASE Kept(q, p)
  <2>1. Shape(p)
    BY <1>2 DEF Kept, Shape, Opened
  <2>2. CASE p.fin = q.fin /\ p.reward = q.reward
    BY <1>2, <2>1, <2>2 DEF Kept, Honest, Credit
  <2>3. CASE ~(p.fin = q.fin /\ p.reward = q.reward)
    <3>1. p.fin = "persisting" /\ \A u \in p.racers : p.reward[u].is = "queued"
      BY <1>2, <2>3 DEF Kept
    <3> QED
      BY <2>1, <3>1 DEF Honest
  <2> QED
    BY <2>1, <2>2, <2>3
<1> QED
  BY <1>1, <1>2 DEF Moved

-----------------------------------------------------------------------------
(* The rooms and lanes that advance_loading makes of R and L.              *)
Advanced(R, L) ==
    /\ DOMAIN room' = Rooms /\ DOMAIN lane' = Users
    /\ \A r \in Rooms : Moved(R[r], room'[r])
    /\ \A u \in Users : lane'[u] =
            IF \E r \in Rooms : /\ R[r].phase = "settling" /\ room'[r].phase = "lobby"
                                /\ L[u] = Fence(r, R[r])
            THEN NoLane ELSE L[u]

LEMMA BecomesAdvanced ==
    ASSUME NEW R, NEW L, NEW next, DOMAIN next = Rooms,
           \A r \in Rooms : Moved(R[r], next[r]), Becomes(R, L, next)
    PROVE  Advanced(R, L)
BY DEF Becomes, Release, Advanced

LEMMA SettleAdvances ==
    ASSUME NEW R, NEW L, NEW at, DOMAIN R = Rooms, DOMAIN L = Users,
           \A r \in Rooms : Shape(R[r]), Settle(R, L, at)
    PROVE  Advanced(R, L)
<1>1. CASE stage = "serving"
  <2>1. PICK F \in SUBSET {r \in Rooms : R[r].pending},
             V \in SUBSET {r \in Rooms : R[r].fin = "ready"} : Advance(R, L, at, F, V)
    BY <1>1 DEF Settle
  <2> DEFINE next == [r \in Rooms |-> AdvanceRoom(R[r], at, r \in F, r \in V)]
  <2>2. \A r \in Rooms : Moved(R[r], next[r])
    BY RoomMoves
  <2>3. Becomes(R, L, next)
    BY <2>1 DEF Advance
  <2> QED
    BY <2>2, <2>3, BecomesAdvanced
<1>2. CASE stage # "serving"
  <2>1. room' = R /\ lane' = L
    BY <1>2 DEF Settle
  <2>2. \A r \in Rooms : Kept(R[r], R[r])
    BY DEF Kept, Shape
  <2>3. \A r \in Rooms : ~(R[r].phase = "settling" /\ R[r].phase = "lobby")
    OBVIOUS
  <2> QED
    BY <2>1, <2>2, <2>3 DEF Advanced, Moved
<1> QED
  BY <1>1, <1>2

(* LanesAgree, for the rooms R and lanes L between two parts of a step.    *)
Lanes(R, L) ==
    \A u \in Users :
        /\ L[u] # NoLane => \E r \in Rooms : L[u] = Fence(r, R[r]) /\ u \in R[r].racers
        /\ \A r \in Rooms : u \in R[r].racers => L[u] = Fence(r, R[r])

(* The actor's tables, while every race is older than n.                   *)
Tables(R, L, n) ==
    /\ DOMAIN R = Rooms /\ DOMAIN L = Users
    /\ \A r \in Rooms : Shape(R[r]) /\ Honest(r, R[r]) /\ R[r].epoch < n
    /\ Lanes(R, L)

LEMMA FenceIsFence ==
    ASSUME NEW r, NEW q, NEW s, NEW p
    PROVE  Fence(r, q) = Fence(s, p) <=> r = s /\ q.epoch = p.epoch
BY DEF Fence

LEMMA FenceIsLane ==
    ASSUME NEW r, NEW q, Shape(q), q.phase # "lobby"
    PROVE  Fence(r, q) # NoLane
BY DEF Fence, NoLane, Shape

(* Advancing keeps the tables: exactly the lanes of the rooms that return  *)
(* to their lobby are released.                                            *)
LEMMA AdvancedTables ==
    ASSUME NEW R, NEW L, NEW n \in Nat \ {0}, Tables(R, L, n), Advanced(R, L)
    PROVE  Tables(room', lane', n)
<1>1. \A r \in Rooms : Shape(room'[r]) /\ Honest(r, room'[r])
  BY MovedRoom DEF Tables, Advanced
<1>2. \A r \in Rooms : Released(R[r], room'[r]) \/ Kept(R[r], room'[r])
  BY DEF Advanced, Moved
<1>3. \A r \in Rooms : \/ room'[r].epoch = R[r].epoch /\ room'[r].racers = R[r].racers
                          /\ room'[r].phase = R[r].phase
                       \/ room'[r].epoch = 0 /\ room'[r].racers = {}
                          /\ room'[r].phase = "lobby" /\ R[r].phase = "settling"
  BY <1>2 DEF Released, Kept, Idle
<1>4. \A r \in Rooms : room'[r].epoch < n
  BY <1>3 DEF Tables
<1>5. ASSUME NEW u \in Users, lane'[u] # NoLane
      PROVE  \E r \in Rooms : lane'[u] = Fence(r, room'[r]) /\ u \in room'[r].racers
  <2>1. /\ lane'[u] = L[u]
        /\ \A r \in Rooms : R[r].phase = "settling" /\ room'[r].phase = "lobby"
                                => L[u] # Fence(r, R[r])
    BY <1>5 DEF Advanced
  <2>2. PICK r \in Rooms : L[u] = Fence(r, R[r]) /\ u \in R[r].racers
    BY <1>5, <2>1 DEF Tables, Lanes
  <2>3. room'[r].epoch = R[r].epoch /\ room'[r].racers = R[r].racers
    BY <1>3, <2>1, <2>2
  <2> QED
    BY <2>1, <2>2, <2>3 DEF Fence
<1>6. ASSUME NEW u \in Users, NEW r \in Rooms, u \in room'[r].racers
      PROVE  lane'[u] = Fence(r, room'[r])
  <2>1. room'[r].epoch = R[r].epoch /\ u \in R[r].racers /\ room'[r].phase = R[r].phase
    BY <1>3, <1>6
  <2>2. L[u] = Fence(r, R[r])
    BY <2>1 DEF Tables, Lanes
  <2>3. ~ \E s \in Rooms : /\ R[s].phase = "settling" /\ room'[s].phase = "lobby"
                           /\ L[u] = Fence(s, R[s])
    BY <2>1, <2>2, FenceIsFence
  <2> QED
    BY <2>1, <2>2, <2>3 DEF Advanced, Fence
<1> QED
  BY <1>1, <1>4, <1>5, <1>6 DEF Tables, Lanes, Advanced

-----------------------------------------------------------------------------
(* The profiles: no race was credited beyond the latest receipt, which was *)
(* credited itself and lies before every race that is still to be started. *)
KeySpace == [run : Nat, room : Nat, epoch : Nat]

NotAfter(k, last) == /\ last # NoReceipt
                     /\ k.run < last.run \/ (k.run = last.run /\ k.epoch <= last.epoch)

Profiles ==
    /\ DOMAIN receipt = Users /\ balance \in [Users -> Nat]
    /\ \A u \in Users : /\ receipt[u] \in KeySpace
                        /\ receipt[u].run <= run
                        /\ receipt[u].run = run => receipt[u].epoch < nextEpoch
                        /\ receipt[u] # NoReceipt =>
                                [user |-> u, key |-> receipt[u]] \in credited
    /\ IsFiniteSet(credited)
    /\ \A c \in credited : /\ c = [user |-> c.user, key |-> c.key]
                           /\ c.user \in Users /\ c.key \in KeySpace
                           /\ NotAfter(c.key, receipt[c.user])

(* NeverStale for the rooms R between two parts of a step.                 *)
Fresh(R) ==
    \A r \in Rooms : \A u \in R[r].racers :
        LET k == [run |-> run, room |-> r, epoch |-> R[r].epoch]
        IN  receipt[u] = k \/ Newer(k, receipt[u])

(* The workers W serve races older than n, and none a later race than the  *)
(* one its user is in; a worker that answers durable has paid.             *)
WorkerFields == {"room", "epoch", "user", "attempt", "result"}
Workers(R, W, n) ==
    \A w \in W :
        /\ DOMAIN w = WorkerFields
        /\ w.room \in Rooms /\ w.user \in Users
        /\ w.epoch \in Nat \ {0} /\ w.epoch < n
        /\ w.result = "durable" => [user |-> w.user, key |-> Key(w)] \in credited
        /\ \A r \in Rooms : w.user \in R[r].racers =>
                w.epoch < R[r].epoch \/ (w.epoch = R[r].epoch /\ w.room = r)

(* A room whose rewards in flight all have a worker in W.                  *)
Employed(r, q, W) ==
    q.fin = "persisting" => \A u \in q.racers : q.reward[u].is = "inflight" =>
        \E w \in W : /\ w.room = r /\ w.epoch = q.epoch /\ w.user = u
                     /\ w.attempt = q.reward[u].attempt

Pumping == pump \in {"polling", "failing"}

IndInv ==
    /\ run \in Nat \ {0} /\ nextEpoch \in Nat \ {0}
    /\ Tables(room, lane, nextEpoch)
    /\ Profiles /\ PaidOnce
    /\ Fresh(room)
    /\ Workers(room, work, nextEpoch)
    /\ Pumping => \A r \in Rooms : Employed(r, room[r], work)

(* The same race goes on.                                                  *)
SameRace(q, p) == p.epoch = q.epoch /\ p.racers = q.racers
Continues(q, p) == q.phase = "settling" => p.phase = "settling" /\ SameRace(q, p)

PaidNow == \A r \in Rooms : room[r].phase = "settling" /\ room'[r].phase # "settling"
                /\ run' = run
            => \A u \in room[r].racers :
                [user |-> u, key |-> [run |-> run, room |-> r, epoch |-> room[r].epoch]]
                    \in credited

(* A turn of the actor: what holds of the rooms R that the command left    *)
(* holds after advance_loading.                                            *)
LEMMA ActorTurn ==
    ASSUME IndInv, NEW R, NEW L,
           nextEpoch' \in Nat \ {0}, nextEpoch <= nextEpoch',
           Tables(R, L, nextEpoch'), Advanced(R, L), UNCHANGED <<run, store>>,
           Workers(R, work', nextEpoch'), Fresh(R),
           \A r \in Rooms : Continues(room[r], R[r]),
           Pumping' => \A r \in Rooms : Employed(r, R[r], work')
    PROVE  IndInv' /\ PaidNow
<1>1. Tables(room', lane', nextEpoch')
  BY AdvancedTables
<1>2. Tables(room, lane, nextEpoch)'
  BY <1>1 DEF Tables, Honest, Credit, store
<1>3. \A r \in Rooms : Released(R[r], room'[r]) \/ Kept(R[r], room'[r])
  BY DEF Advanced, Moved
<1>4. \A r \in Rooms : SameRace(R[r], room'[r]) \/ room'[r].racers = {}
  BY <1>3 DEF Released, Kept, Idle, SameRace
<1>5. Fresh(room)'
  BY <1>4 DEF Fresh, SameRace, Newer, store
<1>6. Workers(room, work, nextEpoch)'
  BY <1>4 DEF Workers, SameRace, Key, store
<1>7. ASSUME NEW r \in Rooms, Employed(r, R[r], work') PROVE Employed(r, room'[r], work')
  <2> SUFFICES ASSUME room'[r].fin = "persisting", NEW u \in room'[r].racers,
                      room'[r].reward[u].is = "inflight"
               PROVE  \E w \in work' : /\ w.room = r /\ w.epoch = room'[r].epoch /\ w.user = u
                                       /\ w.attempt = room'[r].reward[u].attempt
    BY DEF Employed
  <2>1. Kept(R[r], room'[r])
    BY <1>3 DEF Released, Idle
  <2>2. R[r].fin = "persisting" /\ R[r].reward = room'[r].reward
        /\ R[r].epoch = room'[r].epoch /\ R[r].racers = room'[r].racers
    BY <2>1 DEF Kept
  <2> QED
    BY <1>7, <2>2 DEF Employed
<1>8. Profiles' /\ PaidOnce'
  <2>1. receipt' = receipt /\ balance' = balance /\ credited' = credited /\ run' = run
    BY DEF store
  <2>2. \A u \in Users : receipt[u].epoch \in Nat /\
            (receipt[u].run = run => receipt[u].epoch < nextEpoch')
    <3>1. nextEpoch \in Nat /\ nextEpoch' \in Nat /\ nextEpoch <= nextEpoch'
      BY DEF IndInv
    <3>2. \A u \in Users : receipt[u] \in KeySpace
                /\ (receipt[u].run = run => receipt[u].epoch < nextEpoch)
      BY DEF IndInv, Profiles
    <3>3. \A u \in Users : receipt[u].epoch \in Nat
      BY <3>2 DEF KeySpace
    <3> QED
      BY <3>1, <3>2, <3>3
  <2>3. Profiles'
    BY <2>1, <2>2 DEF IndInv, Profiles, NotAfter
  <2> QED
    BY <2>1, <2>3 DEF IndInv, PaidOnce
<1>9. IndInv'
  <2>1. (\A r \in Rooms : Employed(r, room[r], work))' <=>
            \A r \in Rooms : Employed(r, room'[r], work')
    BY DEF Employed
  <2>2. run' \in Nat \ {0}
    BY DEF IndInv
  <2> QED
    BY <1>2, <1>5, <1>6, <1>7, <1>8, <2>1, <2>2 DEF IndInv
<1>10. PaidNow
  <2> SUFFICES ASSUME NEW r \in Rooms, room[r].phase = "settling",
                      room'[r].phase # "settling", NEW u \in room[r].racers
               PROVE  Credit(r, room[r], u) \in credited
    BY DEF PaidNow, Credit
  <2>1. R[r].phase = "settling" /\ SameRace(room[r], R[r])
    BY DEF Continues
  <2>2. R[r].fin = "ready"
    BY <1>3, <2>1 DEF Kept, Released
  <2>3. Credit(r, R[r], u) \in credited
    BY <2>1, <2>2 DEF Tables, Honest, SameRace, Opened
  <2> QED
    BY <2>1, <2>3 DEF SameRace, Credit
<1> QED
  BY <1>9, <1>10

(* A turn that starts and ends no race before advance_loading.             *)
LEMMA TurnOnRooms ==
    ASSUME IndInv, NEW R, NEW at, DOMAIN R = Rooms,
           \A r \in Rooms : /\ Shape(R[r]) /\ Honest(r, R[r])
                            /\ SameRace(room[r], R[r]) /\ Continues(room[r], R[r]),
           \/ Settle(R, lane, at) \/ Advanced(R, lane),
           UNCHANGED <<nextEpoch, run, store>>,
           Workers(room, work', nextEpoch),
           Pumping' => \A r \in Rooms : Employed(r, R[r], work')
    PROVE  IndInv' /\ PaidNow
<1>1. DOMAIN lane = Users /\ nextEpoch \in Nat \ {0}
  BY DEF IndInv, Tables
<1>2. Tables(R, lane, nextEpoch)
  <2>1. Lanes(R, lane)
    BY DEF IndInv, Tables, Lanes, SameRace, Fence
  <2>2. \A r \in Rooms : R[r].epoch < nextEpoch
    BY DEF IndInv, Tables, SameRace
  <2> QED
    BY <1>1, <2>1, <2>2 DEF Tables
<1>3. Advanced(R, lane)
  BY <1>1, SettleAdvances
<1>4. Workers(R, work', nextEpoch)
  BY DEF Workers, SameRace
<1>5. Fresh(R)
  BY DEF IndInv, Fresh, SameRace
<1>6. \A r \in Rooms : Continues(room[r], R[r])
  OBVIOUS
<1>7. nextEpoch' = nextEpoch /\ nextEpoch <= nextEpoch'
  BY <1>1
<1> HIDE DEF IndInv
<1> QED
  BY <1>1, <1>2, <1>3, <1>4, <1>5, <1>6, <1>7, ActorTurn

(* Rewards in flight keep their workers if no new ones are in flight.      *)
NoNewTasks(q, p) ==
    p.fin = "persisting" => \A u \in p.racers : p.reward[u].is = "inflight" =>
        /\ q.fin = "persisting" /\ u \in q.racers
        /\ q.reward[u].is = "inflight" /\ q.reward[u].attempt = p.reward[u].attempt

LEMMA StillEmployed ==
    ASSUME NEW r, NEW q, NEW p, NEW W, Employed(r, q, W), NoNewTasks(q, p), SameRace(q, p)
    PROVE  Employed(r, p, W)
BY DEF Employed, NoNewTasks, SameRace

-----------------------------------------------------------------------------
(* The life of a race.                                                     *)

(* An idle room is well formed, honest, and has nobody at work.            *)
LEMMA IdleRoom ==
    /\ Shape(Idle)
    /\ \A r : Honest(r, Idle) /\ \A W : Employed(r, Idle, W)
    /\ Idle.racers = {} /\ Idle.epoch = 0 /\ Idle.phase = "lobby" /\ Idle.fin = "none"
BY DEF Shape, Honest, Employed, Idle, Fields, Opened

LEMMA StartStep ==
    ASSUME IndInv, NEW r \in Rooms, NEW racers \in SUBSET Users, StartRoom(r, racers)
    PROVE  IndInv' /\ PaidNow
<1> DEFINE q == [Idle EXCEPT !.phase = "loading", !.epoch = nextEpoch, !.racers = racers]
           R == [room EXCEPT ![r] = q]
           L == [u \in Users |-> IF u \in racers THEN Fence(r, q) ELSE lane[u]]
<1>0. /\ room[r].phase = "lobby" /\ \A u \in racers : lane[u] = NoLane
      /\ nextEpoch' = nextEpoch + 1 /\ Settle(R, L, now)
      /\ UNCHANGED <<nextAttempt, work, pump, stage, now, run, store>>
  BY DEF StartRoom
<1>1. /\ DOMAIN q = Fields /\ q.phase = "loading" /\ q.epoch = nextEpoch
      /\ q.racers = racers /\ q.fin = "none"
  BY DEF Idle, Fields
<1> HIDE DEF q
<1>2. nextEpoch \in Nat \ {0} /\ nextEpoch' \in Nat \ {0} /\ nextEpoch < nextEpoch'
  BY <1>0 DEF IndInv
<1>3. Shape(q) /\ Honest(r, q) /\ Employed(r, q, work)
  BY <1>1, <1>2 DEF Shape, Honest, Employed, Opened
<1>4. DOMAIN R = Rooms /\ R[r] = q /\ \A s \in Rooms \ {r} : R[s] = room[s]
  BY DEF IndInv, Tables
<1> HIDE DEF R
<1>5. Lanes(R, L)
  <2>1. ASSUME NEW u \in Users, L[u] # NoLane
        PROVE  \E s \in Rooms : L[u] = Fence(s, R[s]) /\ u \in R[s].racers
    <3>1. CASE u \in racers
      BY <1>1, <1>4, <3>1
    <3>2. CASE u \notin racers
      <4>1. PICK s \in Rooms : lane[u] = Fence(s, room[s]) /\ u \in room[s].racers
        BY <2>1, <3>2 DEF IndInv, Tables, Lanes
      <4>2. s # r
        BY <1>0, <4>1 DEF IndInv, Tables, Shape
      <4> QED
        BY <1>4, <3>2, <4>1, <4>2
    <3> QED
      BY <3>1, <3>2
  <2>2. ASSUME NEW u \in Users, NEW s \in Rooms, u \in R[s].racers
        PROVE  L[u] = Fence(s, R[s])
    <3>1. CASE s = r
      BY <1>1, <1>4, <2>2, <3>1
    <3>2. CASE s # r
      <4>1. lane[u] = Fence(s, room[s]) /\ u \in room[s].racers
        BY <1>4, <2>2, <3>2 DEF IndInv, Tables, Lanes
      <4>2. room[s].phase # "lobby" /\ Shape(room[s])
        BY <4>1 DEF IndInv, Tables, Shape
      <4>3. lane[u] # NoLane
        BY <4>1, <4>2, FenceIsLane
      <4> QED
        BY <1>0, <1>4, <3>2, <4>1, <4>3
    <3> QED
      BY <3>1, <3>2
  <2> QED
    BY <2>1, <2>2 DEF Lanes
<1>6. DOMAIN L = Users
  OBVIOUS
<1> HIDE DEF L
<1>7. \A s \in Rooms : room[s].epoch \in Nat /\ room[s].epoch < nextEpoch
  BY DEF IndInv, Tables, Shape
<1>8. Tables(R, L, nextEpoch')
  <2>1. \A s \in Rooms : R[s].epoch < nextEpoch'
    BY <1>1, <1>2, <1>4, <1>7
  <2>2. \A s \in Rooms : Shape(R[s]) /\ Honest(s, R[s])
    BY <1>3, <1>4 DEF IndInv, Tables
  <2> QED
    BY <1>4, <1>5, <1>6, <2>1, <2>2 DEF Tables
<1>9. Advanced(R, L)
  BY <1>0, <1>4, <1>6, <1>8, SettleAdvances DEF Tables
<1>10. Workers(R, work', nextEpoch')
  <2>0. Workers(room, work, nextEpoch)
    BY DEF IndInv
  <2>1. \A w \in work : w.epoch < nextEpoch /\ w.epoch \in Nat
    BY <2>0 DEF Workers
  <2>2. \A w \in work : \A s \in Rooms : w.user \in R[s].racers =>
            w.epoch < R[s].epoch \/ (w.epoch = R[s].epoch /\ w.room = s)
    <3> TAKE w \in work
    <3> TAKE s \in Rooms
    <3>1. w.user \in room[s].racers =>
            w.epoch < room[s].epoch \/ (w.epoch = room[s].epoch /\ w.room = s)
      BY <2>0 DEF Workers
    <3>2. CASE s = r
      BY <1>1, <1>4, <2>1, <3>2
    <3>3. CASE s # r
      BY <1>4, <3>1, <3>3
    <3> QED
      BY <3>2, <3>3
  <2>3. \A w \in work : w.epoch < nextEpoch'
    BY <1>2, <2>1
  <2>4. work' = work
    BY <1>0
  <2> QED
    BY <2>0, <2>2, <2>3, <2>4 DEF Workers
<1>11. Fresh(R)
  <2>1. ASSUME NEW u \in racers
        PROVE  Newer([run |-> run, room |-> r, epoch |-> nextEpoch], receipt[u])
    <3>1. /\ receipt[u] \in KeySpace /\ receipt[u].run <= run
          /\ receipt[u].run = run => receipt[u].epoch < nextEpoch
      BY DEF IndInv, Profiles
    <3>2. receipt[u].run \in Nat /\ receipt[u].epoch \in Nat
      BY <3>1 DEF KeySpace
    <3>3. run \in Nat
      BY DEF IndInv
    <3> QED
      BY <1>2, <3>1, <3>2, <3>3 DEF Newer
  <2>2. \A s \in Rooms \ {r} : \A u \in R[s].racers :
            LET k == [run |-> run, room |-> s, epoch |-> R[s].epoch]
            IN  receipt[u] = k \/ Newer(k, receipt[u])
    BY <1>4 DEF IndInv, Fresh
  <2> QED
    BY <1>1, <1>4, <2>1, <2>2 DEF Fresh
<1>12. \A s \in Rooms : Continues(room[s], R[s])
  BY <1>0, <1>4 DEF Continues, SameRace
<1>13. Pumping' => \A s \in Rooms : Employed(s, R[s], work')
  BY <1>0, <1>3, <1>4 DEF IndInv, Pumping
<1>14. UNCHANGED <<run, store>> /\ nextEpoch <= nextEpoch'
  BY <1>0, <1>2
<1> QED
  BY <1>2, <1>8, <1>9, <1>10, <1>11, <1>12, <1>13, <1>14, ActorTurn

LEMMA AbortStep ==
    ASSUME IndInv, NEW r \in Rooms, AbortLoading(r)
    PROVE  IndInv' /\ PaidNow
<1> DEFINE R == [room EXCEPT ![r] = Idle]
           L == Release(lane, {Fence(r, room[r])})
<1>0. /\ room[r].phase = "loading" /\ Settle(R, L, now)
      /\ UNCHANGED <<nextEpoch, nextAttempt, work, pump, stage, now, run, store>>
  BY DEF AbortLoading
<1>1. DOMAIN R = Rooms /\ R[r] = Idle /\ \A s \in Rooms \ {r} : R[s] = room[s]
  BY DEF IndInv, Tables
<1>2. /\ DOMAIN L = Users
      /\ \A u \in Users : L[u] = IF lane[u] = Fence(r, room[r]) THEN NoLane ELSE lane[u]
  BY DEF Release
<1> HIDE DEF R, L
<1>3. Lanes(R, L)
  <2>1. ASSUME NEW u \in Users, L[u] # NoLane
        PROVE  \E s \in Rooms : L[u] = Fence(s, R[s]) /\ u \in R[s].racers
    <3>1. lane[u] # Fence(r, room[r]) /\ L[u] = lane[u]
      BY <1>2, <2>1
    <3>2. PICK s \in Rooms : lane[u] = Fence(s, room[s]) /\ u \in room[s].racers
      BY <2>1, <3>1 DEF IndInv, Tables, Lanes
    <3> QED
      BY <1>1, <3>1, <3>2
  <2>2. ASSUME NEW u \in Users, NEW s \in Rooms, u \in R[s].racers
        PROVE  L[u] = Fence(s, R[s])
    <3>1. s # r
      BY <1>1, <2>2, IdleRoom
    <3>2. lane[u] = Fence(s, room[s])
      BY <1>1, <2>2, <3>1 DEF IndInv, Tables, Lanes
    <3>3. Fence(s, room[s]) # Fence(r, room[r])
      BY <3>1, FenceIsFence
    <3> QED
      BY <1>1, <1>2, <3>1, <3>2, <3>3
  <2> QED
    BY <2>1, <2>2 DEF Lanes
<1>4. nextEpoch \in Nat \ {0} /\ nextEpoch' = nextEpoch /\ nextEpoch <= nextEpoch'
  BY <1>0 DEF IndInv
<1>5. Tables(R, L, nextEpoch)
  <2>1. \A s \in Rooms : Shape(R[s]) /\ Honest(s, R[s])
    BY <1>1, IdleRoom DEF IndInv, Tables
  <2>2. \A s \in Rooms : R[s].epoch < nextEpoch
    BY <1>1, <1>4, IdleRoom DEF IndInv, Tables
  <2> QED
    BY <1>1, <1>2, <1>3, <2>1, <2>2 DEF Tables
<1>6. Advanced(R, L)
  BY <1>0, <1>1, <1>2, <1>5, SettleAdvances DEF Tables
<1>7. Workers(R, work', nextEpoch')
  BY <1>0, <1>1, IdleRoom DEF IndInv, Workers
<1>8. Fresh(R)
  BY <1>1, IdleRoom DEF IndInv, Fresh
<1>9. \A s \in Rooms : Continues(room[s], R[s])
  BY <1>0, <1>1 DEF Continues, SameRace
<1>10. Pumping' => \A s \in Rooms : Employed(s, R[s], work')
  BY <1>0, <1>1, IdleRoom DEF IndInv, Pumping
<1>11. UNCHANGED <<run, store>>
  BY <1>0
<1> HIDE DEF IndInv
<1> QED
  BY <1>4, <1>5, <1>6, <1>7, <1>8, <1>9, <1>10, <1>11, ActorTurn

(* A command that changes the one room r to q, without changing its race.  *)
LEMMA TurnOnRoom ==
    ASSUME IndInv, NEW r \in Rooms, NEW q, NEW at,
           Settle([room EXCEPT ![r] = q], lane, at),
           Shape(q), Honest(r, q), SameRace(room[r], q), Continues(room[r], q),
           NoNewTasks(room[r], q),
           UNCHANGED <<nextEpoch, run, store, work, pump>>
    PROVE  IndInv' /\ PaidNow
<1> DEFINE R == [room EXCEPT ![r] = q]
<1>1. DOMAIN R = Rooms /\ R[r] = q /\ \A s \in Rooms \ {r} : R[s] = room[s]
  BY DEF IndInv, Tables
<1> HIDE DEF R
<1>2. \A s \in Rooms : /\ Shape(R[s]) /\ Honest(s, R[s])
                       /\ SameRace(room[s], R[s]) /\ Continues(room[s], R[s])
  BY <1>1 DEF IndInv, Tables, SameRace, Continues
<1>3. Pumping' => \A s \in Rooms : Employed(s, R[s], work')
  <2>1. \A s \in Rooms : NoNewTasks(room[s], R[s])
    BY <1>1 DEF NoNewTasks
  <2>2. Pumping' = Pumping /\ work' = work
    BY DEF Pumping
  <2> QED
    BY <1>2, <2>1, <2>2, StillEmployed DEF IndInv
<1>4. Workers(room, work', nextEpoch)
  BY DEF IndInv
<1>5. Settle(R, lane, at) \/ Advanced(R, lane)
  BY DEF R
<1> HIDE DEF IndInv
<1> QED
  BY <1>1, <1>2, <1>3, <1>4, <1>5, TurnOnRooms

LEMMA BeginRaceStep ==
    ASSUME IndInv, NEW r \in Rooms, BeginRace(r)
    PROVE  IndInv' /\ PaidNow
<1> DEFINE q == [room[r] EXCEPT !.phase = "running"]
<1>1. /\ room[r].phase = "loading" /\ Settle([room EXCEPT ![r] = q], lane, now)
      /\ UNCHANGED <<nextEpoch, run, store, work, pump>>
  BY DEF BeginRace
<1>2. Shape(room[r]) /\ Honest(r, room[r])
  BY DEF IndInv, Tables
<1>3. room[r].fin = "none"
  BY <1>1, <1>2 DEF Shape
<1>4. /\ DOMAIN q = Fields /\ q.phase = "running" /\ SameRace(room[r], q)
      /\ q.fin = "none"
  BY <1>2, <1>3 DEF Shape, Fields, SameRace
<1> HIDE DEF q
<1>5. Shape(q) /\ Honest(r, q) /\ Continues(room[r], q) /\ NoNewTasks(room[r], q)
  BY <1>1, <1>2, <1>4 DEF Shape, Honest, Continues, NoNewTasks, SameRace, Opened
<1> HIDE DEF IndInv
<1> QED
  BY <1>1, <1>4, <1>5, TurnOnRoom

LEMMA BeginSettlementStep ==
    ASSUME IndInv, NEW r \in Rooms, BeginSettlement(r)
    PROVE  IndInv' /\ PaidNow
<1> DEFINE late == now + SettlementDelay > InstantMax
           deadline == IF late THEN now ELSE now + SettlementDelay
           q == [room[r] EXCEPT !.phase = "settling", !.deadline = deadline,
                                !.fin = "awaiting", !.pending = TRUE]
<1>1. /\ room[r].phase = "running" /\ Settle([room EXCEPT ![r] = q], lane, now)
      /\ UNCHANGED <<nextEpoch, run, store, work, pump>>
  BY DEF BeginSettlement
<1>2. Shape(room[r]) /\ Honest(r, room[r])
  BY DEF IndInv, Tables
<1> HIDE DEF deadline
<1>3. /\ DOMAIN q = Fields /\ q.phase = "settling" /\ SameRace(room[r], q)
      /\ q.fin = "awaiting"
  BY <1>2 DEF Shape, Fields, SameRace
<1> HIDE DEF q
<1>4. Shape(q) /\ Honest(r, q) /\ Continues(room[r], q) /\ NoNewTasks(room[r], q)
  BY <1>1, <1>2, <1>3 DEF Shape, Honest, Continues, NoNewTasks, SameRace, Opened
<1> HIDE DEF IndInv
<1> QED
  BY <1>1, <1>3, <1>4, TurnOnRoom

LEMMA RetryStep ==
    ASSUME IndInv, NEW r \in Rooms, RetryDeadLetter(r)
    PROVE  IndInv' /\ PaidNow
<1> DEFINE reward == [u \in room[r].racers |->
                        IF room[r].reward[u].is = "durable" THEN Durable ELSE Queued(now, 0)]
           q == [room[r] EXCEPT !.fin = "persisting", !.reason = "none",
                                !.failed = NoUser, !.reward = reward]
<1>1. /\ room[r].fin = "failed" /\ Settle([room EXCEPT ![r] = q], lane, now)
      /\ UNCHANGED <<nextEpoch, run, store, work, pump>>
  BY DEF RetryDeadLetter
<1>2. Shape(room[r]) /\ Honest(r, room[r])
  BY DEF IndInv, Tables
<1>3. /\ DOMAIN q = Fields /\ q.phase = room[r].phase /\ SameRace(room[r], q)
      /\ q.fin = "persisting" /\ q.reward = reward
  BY <1>2 DEF Shape, Fields, SameRace
<1>4. /\ DOMAIN reward = room[r].racers
      /\ \A u \in room[r].racers :
            /\ DOMAIN reward[u] = EntryFields /\ reward[u].is \in {"durable", "queued"}
            /\ reward[u].is = "durable" => room[r].reward[u].is = "durable"
  BY DEF Durable, Queued, EntryFields
<1> HIDE DEF q, reward
<1>5. Shape(q)
  BY <1>1, <1>2, <1>3, <1>4 DEF Shape, SameRace, Opened
<1>6. Honest(r, q)
  BY <1>1, <1>2, <1>3, <1>4 DEF Honest, SameRace, Opened, Credit
<1>7. Continues(room[r], q) /\ NoNewTasks(room[r], q)
  BY <1>3, <1>4 DEF Continues, NoNewTasks, SameRace
<1> HIDE DEF IndInv
<1> QED
  BY <1>1, <1>3, <1>5, <1>6, <1>7, TurnOnRoom

-----------------------------------------------------------------------------
(* The workers and the profiles.                                           *)

(* A worker that answers is still the worker of its task.                  *)
LEMMA AnswerWorkers ==
    ASSUME IndInv, NEW w \in work, NEW result, Answer(w, result),
           UNCHANGED <<actor, pump, run>>, credited \subseteq credited',
           result = "durable" => [user |-> w.user, key |-> Key(w)] \in credited'
    PROVE  /\ Workers(room, work, nextEpoch)'
           /\ (Pumping => \A r \in Rooms : Employed(r, room[r], work))'
           /\ Tables(room, lane, nextEpoch)'
<1> DEFINE x == [w EXCEPT !.result = result]
<1>1. DOMAIN w = WorkerFields
  BY DEF IndInv, Workers
<1>2. /\ DOMAIN x = WorkerFields /\ x.result = result
      /\ x.room = w.room /\ x.epoch = w.epoch /\ x.user = w.user /\ x.attempt = w.attempt
  BY <1>1 DEF WorkerFields
<1>3. work' = (work \ {w}) \cup {x}
  BY DEF Answer
<1> HIDE DEF x
<1>4. \A v \in work' : \/ v \in work
                       \/ v = x
  BY <1>3
<1>5. UNCHANGED <<room, lane, nextEpoch, pump, run>>
  BY DEF actor
<1>6. Workers(room, work, nextEpoch)'
  <2>1. ASSUME NEW v \in work'
        PROVE  /\ DOMAIN v = WorkerFields
               /\ v.room \in Rooms /\ v.user \in Users
               /\ v.epoch \in Nat \ {0} /\ v.epoch < nextEpoch
               /\ v.result = "durable" => [user |-> v.user, key |-> Key(v)] \in credited'
               /\ \A r \in Rooms : v.user \in room[r].racers =>
                    v.epoch < room[r].epoch \/ (v.epoch = room[r].epoch /\ v.room = r)
    <3>1. Workers(room, work, nextEpoch)
      BY DEF IndInv
    <3>2. CASE v \in work
      BY <3>1, <3>2 DEF Workers
    <3>3. CASE v = x
      <4>1. Key(x) = Key(w)
        BY <1>2 DEF Key
      <4> QED
        BY <1>2, <3>1, <3>3, <4>1 DEF Workers
    <3> QED
      BY <1>4, <3>2, <3>3
  <2>2. \A v : Key(v)' = Key(v)
    BY <1>5 DEF Key
  <2> QED
    BY <1>5, <2>1, <2>2 DEF Workers
<1>7. ASSUME Pumping, NEW r \in Rooms PROVE Employed(r, room[r], work')
  <2>1. Employed(r, room[r], work)
    BY <1>7 DEF IndInv
  <2> QED
    BY <1>2, <1>3, <2>1 DEF Employed
<1>8. (Pumping => \A r \in Rooms : Employed(r, room[r], work))'
  BY <1>5, <1>7 DEF Pumping, Employed
<1>9. Tables(room, lane, nextEpoch)'
  BY <1>5 DEF IndInv, Tables, Honest, Credit
<1> QED
  BY <1>6, <1>8, <1>9

(* The profile's next payment is for a race it was never paid for.         *)
LEMMA PayStep ==
    ASSUME IndInv, NEW w \in work, Pay(w)
    PROVE  IndInv' /\ PaidNow
<1> DEFINE k == Key(w)
           u == w.user
           c == [user |-> u, key |-> k]
<1>0. /\ Newer(k, receipt[u]) /\ receipt' = [receipt EXCEPT ![u] = k]
      /\ balance' = [balance EXCEPT ![u] = @ + 1] /\ credited' = credited \cup {c}
      /\ \E result : Answer(w, result)
      /\ UNCHANGED <<actor, pump, run>>
  BY DEF Pay
<1>1. UNCHANGED <<room, lane, nextEpoch, run>>
  BY <1>0 DEF actor
<1>2. /\ u \in Users /\ w.room \in Nat /\ w.epoch \in Nat /\ w.epoch < nextEpoch
      /\ run \in Nat /\ nextEpoch \in Nat
  BY RewardAssumption DEF IndInv, Workers, RewardAssumption
<1>3. k = [run |-> run, room |-> w.room, epoch |-> w.epoch] /\ k \in KeySpace
      /\ k.run = run /\ k.epoch = w.epoch
  BY <1>2 DEF Key, KeySpace
<1>4. c.user = u /\ c.key = k /\ k # NoReceipt
  <2>1. w.epoch # 0
    BY DEF IndInv, Workers
  <2> QED
    BY <1>3, <2>1 DEF NoReceipt
<1> HIDE DEF k, c
<1>5. /\ receipt[u] \in KeySpace /\ DOMAIN receipt = Users
      /\ receipt[u].run \in Nat /\ receipt[u].epoch \in Nat
  BY <1>2 DEF IndInv, Profiles, KeySpace
<1>6. \A d \in credited : d.user = u => /\ d.key # k
                                        /\ NotAfter(d.key, k)
  <2> SUFFICES ASSUME NEW d \in credited, d.user = u PROVE d.key # k /\ NotAfter(d.key, k)
    OBVIOUS
  <2>1. NotAfter(d.key, receipt[u]) /\ d.key \in KeySpace
    BY DEF IndInv, Profiles
  <2>2. d.key.run \in Nat /\ d.key.epoch \in Nat
    BY <2>1 DEF KeySpace
  <2>3. d.key.run < k.run \/ (d.key.run = k.run /\ d.key.epoch < k.epoch)
    BY <1>0, <1>2, <1>3, <1>5, <2>1, <2>2 DEF Newer, NotAfter
  <2> QED
    BY <1>2, <1>3, <1>4, <2>2, <2>3 DEF NotAfter
<1>7. Profiles'
  <2>1. \A v \in Users : receipt'[v] = IF v = u THEN k ELSE receipt[v]
    BY <1>5, <1>0
  <2>2. DOMAIN receipt' = Users /\ balance' \in [Users -> Nat]
    BY <1>0, <1>2, <1>5 DEF IndInv, Profiles
  <2>3. \A v \in Users : /\ receipt'[v] \in KeySpace
                         /\ receipt'[v].run <= run
                         /\ receipt'[v].run = run => receipt'[v].epoch < nextEpoch
                         /\ receipt'[v] # NoReceipt =>
                                [user |-> v, key |-> receipt'[v]] \in credited'
    BY <1>0, <1>2, <1>3, <2>1 DEF IndInv, Profiles, c
  <2>4. IsFiniteSet(credited')
    BY <1>0, FS_AddElement DEF IndInv, Profiles
  <2>5. ASSUME NEW d \in credited'
        PROVE  /\ d = [user |-> d.user, key |-> d.key]
               /\ d.user \in Users /\ d.key \in KeySpace /\ NotAfter(d.key, receipt'[d.user])
    <3>1. CASE d \in credited
      <4>1. /\ d = [user |-> d.user, key |-> d.key]
            /\ d.user \in Users /\ d.key \in KeySpace /\ NotAfter(d.key, receipt[d.user])
        BY <3>1 DEF IndInv, Profiles
      <4> QED
        BY <1>6, <2>1, <3>1, <4>1
    <3>2. CASE d = c
      <4>1. NotAfter(k, k)
        BY <1>2, <1>3, <1>4 DEF NotAfter
      <4> QED
        BY <1>2, <1>3, <1>4, <2>1, <3>2, <4>1 DEF c
    <3> QED
      BY <1>0, <3>1, <3>2
  <2> QED
    BY <1>1, <2>2, <2>3, <2>4, <2>5 DEF Profiles
<1>8. PaidOnce'
  <2> SUFFICES ASSUME NEW v \in Users
               PROVE  balance'[v] = Cardinality({d \in credited' : d.user = v})
    BY DEF PaidOnce
  <2> DEFINE paid == {d \in credited : d.user = v}
  <2>1. IsFiniteSet(paid) /\ balance[v] = Cardinality(paid) /\ balance \in [Users -> Nat]
    BY FS_Subset DEF IndInv, PaidOnce, Profiles
  <2>2. CASE v = u
    <3>1. {d \in credited' : d.user = v} = paid \cup {c}
      BY <1>0, <1>4, <2>2
    <3>2. c \notin paid
      BY <1>4, <1>6, <2>2
    <3>3. Cardinality(paid \cup {c}) = Cardinality(paid) + 1
      BY <2>1, <3>2, FS_AddElement
    <3>4. balance'[v] = balance[v] + 1
      BY <1>0, <2>1, <2>2
    <3> QED
      BY <2>1, <3>1, <3>3, <3>4
  <2>3. CASE v # u
    <3>1. {d \in credited' : d.user = v} = paid
      BY <1>0, <1>4, <2>3
    <3>2. balance'[v] = balance[v]
      BY <1>0, <2>1, <2>3
    <3> QED
      BY <2>1, <3>1, <3>2
  <2> QED
    BY <2>2, <2>3
<1>9. Fresh(room)'
  <2> SUFFICES ASSUME NEW r \in Rooms, NEW v \in room[r].racers,
                      NEW new, new = [run |-> run, room |-> r, epoch |-> room[r].epoch]
               PROVE  receipt'[v] = new \/ Newer(new, receipt'[v])
    BY <1>1 DEF Fresh, Newer
  <2>1. v \in Users
    BY DEF IndInv, Tables, Shape
  <2>2. CASE v = u
    <3>1. \/ w.epoch < room[r].epoch
          \/ w.epoch = room[r].epoch /\ w.room = r
      BY <2>2 DEF IndInv, Workers
    <3>2. receipt'[v] = k
      BY <1>0, <1>5, <2>1, <2>2
    <3> QED
      BY <1>3, <3>1, <3>2 DEF Newer
  <2>3. CASE v # u
    <3>1. receipt'[v] = receipt[v]
      BY <1>0, <1>5, <2>1, <2>3
    <3> QED
      BY <3>1, <2>3 DEF IndInv, Fresh
  <2> QED
    BY <2>2, <2>3
<1>10. /\ Workers(room, work, nextEpoch)'
       /\ (Pumping => \A r \in Rooms : Employed(r, room[r], work))'
       /\ Tables(room, lane, nextEpoch)'
  <2>1. credited \subseteq credited' /\ c \in credited'
    BY <1>0
  <2> QED
    BY <1>0, <2>1, AnswerWorkers DEF c, k
<1>11. run' \in Nat \ {0} /\ nextEpoch' \in Nat \ {0}
  BY <1>1 DEF IndInv
<1>12. PaidNow
  BY <1>1 DEF PaidNow
<1> QED
  BY <1>7, <1>8, <1>9, <1>10, <1>11, <1>12 DEF IndInv

(* A worker that does not pay leaves the profiles as they are.             *)
LEMMA NoPayStep ==
    ASSUME IndInv, NEW w \in work,
           Recognise(w) \/ \E result \in {"retryable", "fatal", "infra"} : Reject(w, result)
    PROVE  IndInv' /\ PaidNow
<1>1. PICK result : /\ Answer(w, result)
                    /\ result = "durable" => receipt[w.user] = Key(w)
                    /\ UNCHANGED <<actor, pump, stage, now, run, store>>
  BY DEF Recognise, Reject
<1>2. result = "durable" => [user |-> w.user, key |-> Key(w)] \in credited
  <2>1. w.user \in Users /\ w.epoch # 0
    BY DEF IndInv, Workers
  <2>2. Key(w) # NoReceipt
    BY <2>1 DEF Key, NoReceipt
  <2> QED
    BY <1>1, <2>1, <2>2 DEF IndInv, Profiles
<1>3. UNCHANGED <<room, lane, nextEpoch, run, receipt, balance, credited>>
  BY <1>1 DEF actor, store
<1>4. /\ Workers(room, work, nextEpoch)'
      /\ (Pumping => \A r \in Rooms : Employed(r, room[r], work))'
      /\ Tables(room, lane, nextEpoch)'
  BY <1>1, <1>2, <1>3, AnswerWorkers
<1>5. Profiles' /\ PaidOnce' /\ Fresh(room)'
  BY <1>3 DEF IndInv, Profiles, PaidOnce, Fresh, Newer, NotAfter
<1>6. PaidNow
  BY <1>3 DEF PaidNow
<1> QED
  BY <1>3, <1>4, <1>5, <1>6 DEF IndInv

-----------------------------------------------------------------------------
(* What the actor does to the rewards of a room.                           *)

(* The attempt of u is over and nothing else of the room has changed.      *)
Handled(r, q, u, p) ==
    /\ Shape(p) /\ Honest(r, p) /\ SameRace(q, p) /\ p.phase = q.phase
    /\ NoNewTasks(q, p)
    /\ p.fin = "persisting" => p.reward[u].is # "inflight"

(* An entry of a persisting room is replaced, or the room is given up.     *)
LEMMA FailureKeepsRoom ==
    ASSUME NEW r, NEW q, Shape(q), Honest(r, q), q.fin = "persisting",
           NEW u \in q.racers, q.reward[u].is = "inflight", NEW at,
           NEW p, p = FailAttempt(q, u, at)
    PROVE  Handled(r, q, u, p)
<1>1. CASE \E why : p = DeadLetter(q, why, u)
  <2>1. PICK why : p = [q EXCEPT !.fin = "failed", !.reason = why, !.failed = u]
    BY <1>1 DEF DeadLetter
  <2>2. /\ DOMAIN p = Fields /\ p.phase = q.phase /\ SameRace(q, p)
        /\ p.fin = "failed" /\ p.failed = u /\ p.reward = q.reward
    BY <2>1 DEF Shape, Fields, SameRace
  <2> QED
    BY <2>2 DEF Handled, Shape, Honest, NoNewTasks, SameRace, Opened, Credit
<1>2. CASE p = [q EXCEPT !.reward[u] = Retried(@, at)]
  <2>1. /\ DOMAIN p = Fields /\ p.phase = q.phase /\ SameRace(q, p) /\ p.fin = q.fin
        /\ DOMAIN p.reward = DOMAIN q.reward /\ p.reward[u] = Retried(q.reward[u], at)
        /\ \A v \in q.racers \ {u} : p.reward[v] = q.reward[v]
    BY <1>2 DEF Shape, Fields, SameRace, Opened
  <2>2. p.reward[u].is = "queued" /\ DOMAIN p.reward[u] = EntryFields
    BY <2>1 DEF Retried, Queued, EntryFields
  <2>3. Shape(p)
    BY <2>1, <2>2 DEF Shape, SameRace, Opened
  <2>4. Honest(r, p)
    BY <2>1, <2>2 DEF Honest, SameRace, Opened, Credit
  <2>5. NoNewTasks(q, p)
    BY <2>1, <2>2 DEF NoNewTasks, SameRace
  <2> QED
    BY <2>1, <2>2, <2>3, <2>4, <2>5 DEF Handled
<1>3. \/ \E why : p = DeadLetter(q, why, u)
      \/ p = [q EXCEPT !.reward[u] = Retried(@, at)]
  BY DEF FailAttempt
<1> QED
  BY <1>1, <1>2, <1>3

(* A completion of the current attempt.                                    *)
LEMMA CompletionKeepsRoom ==
    ASSUME NEW r, NEW q, NEW w, Shape(q), Honest(r, q), q.fin = "persisting",
           w.user \in q.racers, q.reward[w.user].is = "inflight",
           w.result = "durable" => Credit(r, q, w.user) \in credited, NEW at,
           NEW p, p = Completed(q, w, at)
    PROVE  Handled(r, q, w.user, p)
<1> DEFINE u == w.user
           d == [q EXCEPT !.reward[w.user] = Durable]
<1>1. CASE p = FailAttempt(q, u, at)
  BY <1>1, FailureKeepsRoom
<1>2. CASE p = DeadLetter(q, "RewardPersistence", u)
  <2>1. p = [q EXCEPT !.fin = "failed", !.reason = "RewardPersistence", !.failed = u]
    BY <1>2 DEF DeadLetter
  <2>2. /\ DOMAIN p = Fields /\ p.phase = q.phase /\ SameRace(q, p)
        /\ p.fin = "failed" /\ p.failed = u /\ p.reward = q.reward
    BY <2>1 DEF Shape, Fields, SameRace
  <2> QED
    BY <2>2 DEF Handled, Shape, Honest, NoNewTasks, SameRace, Opened, Credit
<1>3. CASE w.result = "durable" /\ p = PrepareReady(d)
  <2>1. /\ DOMAIN d = Fields /\ d.phase = q.phase /\ SameRace(q, d) /\ d.fin = q.fin
        /\ DOMAIN d.reward = DOMAIN q.reward /\ d.reward[u] = Durable
        /\ \A v \in q.racers \ {u} : d.reward[v] = q.reward[v]
    BY DEF Shape, Fields, SameRace, Opened
  <2>2. d.reward[u].is = "durable" /\ DOMAIN d.reward[u] = EntryFields
    BY <2>1 DEF Durable, EntryFields
  <2> HIDE DEF d
  <2>3. \/ p = d
        \/ p = [d EXCEPT !.fin = "ready"] /\ \A v \in d.racers : d.reward[v].is = "durable"
    BY <1>3 DEF PrepareReady
  <2>4. /\ DOMAIN p = Fields /\ p.phase = q.phase /\ SameRace(q, p) /\ p.reward = d.reward
        /\ p.fin \in {"persisting", "ready"}
        /\ p.fin = "ready" => \A v \in d.racers : d.reward[v].is = "durable"
    BY <2>1, <2>3 DEF Fields, SameRace
  <2>5. Shape(p)
    BY <2>1, <2>2, <2>4 DEF Shape, SameRace, Opened
  <2>6. Honest(r, p)
    BY <1>3, <2>1, <2>2, <2>4 DEF Honest, SameRace, Opened, Credit
  <2>7. NoNewTasks(q, p)
    BY <2>1, <2>2, <2>4 DEF NoNewTasks, SameRace
  <2> QED
    BY <2>1, <2>2, <2>4, <2>5, <2>6, <2>7 DEF Handled, SameRace
<1>4. \/ p = FailAttempt(q, u, at)
      \/ p = DeadLetter(q, "RewardPersistence", u)
      \/ w.result = "durable" /\ p = PrepareReady(d)
  BY DEF Completed
<1> QED
  BY <1>1, <1>2, <1>3, <1>4

(* publish_reward_completion: the worker is gone, and either it was the    *)
(* current attempt, which is no longer in flight, or it was nobody's.      *)
LEMMA PublishStep ==
    ASSUME IndInv, NEW w \in work, NEW at, Complete(w, at), Pumping
    PROVE  IndInv' /\ PaidNow
<1> DEFINE q == Completed(room[w.room], w, at)
<1>0. /\ work' = work \ {w}
      /\ Current(w) => Settle([room EXCEPT ![w.room] = q], lane, now)
      /\ ~Current(w) => Settle(room, lane, now)
      /\ UNCHANGED <<nextEpoch, nextAttempt, stage, now, run, store>>
  BY DEF Complete
<1>1. Workers(room, work', nextEpoch)
  BY <1>0 DEF IndInv, Workers
<1>2. w.room \in Rooms /\ \A r \in Rooms : Shape(room[r]) /\ Honest(r, room[r])
  BY DEF IndInv, Workers, Tables
<1>3. CASE Current(w)
  <2> DEFINE R == [room EXCEPT ![w.room] = q]
  <2>0. Settle(R, lane, now)
    BY <1>0, <1>3
  <2>a. q = Completed(room[w.room], w, at)
    OBVIOUS
  <2> HIDE DEF q
  <2>1. /\ room[w.room].fin = "persisting" /\ w.user \in room[w.room].racers
        /\ room[w.room].reward[w.user].is = "inflight" /\ room[w.room].epoch = w.epoch
    BY <1>3 DEF Current
  <2>2. w.result = "durable" => Credit(w.room, room[w.room], w.user) \in credited
    BY <2>1 DEF IndInv, Workers, Key, Credit
  <2>3. /\ Shape(q) /\ Honest(w.room, q) /\ SameRace(room[w.room], q)
        /\ q.phase = room[w.room].phase /\ NoNewTasks(room[w.room], q)
        /\ q.fin = "persisting" => q.reward[w.user].is # "inflight"
    <3>1. Handled(w.room, room[w.room], w.user, q)
      BY <1>2, <2>1, <2>2, <2>a, CompletionKeepsRoom
    <3> QED
      BY <3>1 DEF Handled
  <2>4. /\ DOMAIN R = Rooms /\ R[w.room] = q
        /\ \A r \in Rooms \ {w.room} : R[r] = room[r]
    BY <1>2 DEF IndInv, Tables
  <2> HIDE DEF R
  <2>5. \A r \in Rooms : /\ Shape(R[r]) /\ Honest(r, R[r])
                         /\ SameRace(room[r], R[r]) /\ Continues(room[r], R[r])
    BY <1>2, <2>3, <2>4 DEF SameRace, Continues
  <2>6. ASSUME NEW r \in Rooms PROVE Employed(r, R[r], work')
    <3>1. Employed(r, room[r], work)
      BY DEF IndInv
    <3> SUFFICES ASSUME R[r].fin = "persisting", NEW u \in R[r].racers,
                        R[r].reward[u].is = "inflight"
                 PROVE  \E v \in work' : /\ v.room = r /\ v.epoch = R[r].epoch /\ v.user = u
                                         /\ v.attempt = R[r].reward[u].attempt
      BY DEF Employed
    <3>2. NoNewTasks(room[r], R[r]) /\ SameRace(room[r], R[r])
      BY <2>3, <2>4, <2>5 DEF NoNewTasks
    <3>3. PICK v \in work : /\ v.room = r /\ v.epoch = R[r].epoch /\ v.user = u
                            /\ v.attempt = R[r].reward[u].attempt
      BY <3>1, <3>2 DEF NoNewTasks, SameRace, Employed
    <3>4. v # w
      BY <2>3, <2>4, <3>3
    <3> QED
      BY <1>0, <3>3, <3>4
  <2>7. UNCHANGED <<nextEpoch, run, store>>
    BY <1>0
  <2>8. Settle(R, lane, now) \/ Advanced(R, lane)
    BY <2>0
  <2> HIDE DEF IndInv
  <2> QED
    BY <1>1, <2>4, <2>5, <2>6, <2>7, <2>8, TurnOnRooms
<1>4. CASE ~Current(w)
  <2>2. ASSUME NEW r \in Rooms PROVE Employed(r, room[r], work')
    <3>1. Employed(r, room[r], work)
      BY DEF IndInv
    <3> SUFFICES ASSUME room[r].fin = "persisting", NEW u \in room[r].racers,
                        room[r].reward[u].is = "inflight"
                 PROVE  \E v \in work' : /\ v.room = r /\ v.epoch = room[r].epoch /\ v.user = u
                                         /\ v.attempt = room[r].reward[u].attempt
      BY DEF Employed
    <3>2. PICK v \in work : /\ v.room = r /\ v.epoch = room[r].epoch /\ v.user = u
                            /\ v.attempt = room[r].reward[u].attempt
      BY <3>1 DEF Employed
    <3>3. v # w
      BY <1>4, <3>2 DEF Current
    <3> QED
      BY <1>0, <3>2, <3>3
  <2>3. \A r \in Rooms : SameRace(room[r], room[r]) /\ Continues(room[r], room[r])
    BY DEF SameRace, Continues
  <2>4. DOMAIN room = Rooms /\ UNCHANGED <<nextEpoch, run, store>>
    BY <1>0 DEF IndInv, Tables
  <2>5. Settle(room, lane, now) \/ Advanced(room, lane)
    BY <1>0, <1>4
  <2> HIDE DEF IndInv
  <2> QED
    BY <1>1, <1>2, <2>2, <2>3, <2>4, <2>5, TurnOnRooms
<1> QED
  BY <1>3, <1>4

-----------------------------------------------------------------------------
(* The polls of the pump.                                                  *)

(* A room whose race goes on in the same phase.                            *)
Sound(r, q, p) == Shape(p) /\ Honest(r, p) /\ SameRace(q, p) /\ p.phase = q.phase

(* A poll that issues no attempt.                                          *)
LEMMA PollTurn ==
    ASSUME IndInv, NEW R, DOMAIN R = Rooms, Settle(R, lane, now),
           \A r \in Rooms : Sound(r, room[r], R[r]) /\ NoNewTasks(room[r], R[r]),
           UNCHANGED <<nextEpoch, run, store, work, pump>>
    PROVE  IndInv' /\ PaidNow
<1>1. \A r \in Rooms : /\ Shape(R[r]) /\ Honest(r, R[r])
                       /\ SameRace(room[r], R[r]) /\ Continues(room[r], R[r])
  BY DEF Sound, Continues
<1>2. Pumping' => \A r \in Rooms : Employed(r, R[r], work')
  <2>1. Pumping' = Pumping /\ work' = work
    BY DEF Pumping
  <2> QED
    BY <1>1, <2>1, StillEmployed DEF IndInv
<1>3. Workers(room, work', nextEpoch)
  BY DEF IndInv
<1>4. Settle(R, lane, now) \/ Advanced(R, lane)
  OBVIOUS
<1> HIDE DEF IndInv
<1> QED
  BY <1>1, <1>2, <1>3, <1>4, TurnOnRooms

(* The entries of C are put back in the queue, the others stay.            *)
LEMMA RequeueKeeps ==
    ASSUME IndInv, NEW at, NEW C, C \subseteq Entries("inflight"), NEW r \in Rooms,
           NEW p, p = Requeue(C, at)[r]
    PROVE  /\ Sound(r, room[r], p) /\ NoNewTasks(room[r], p) /\ p.fin = room[r].fin
           /\ p.fin \in Opened => \A u \in room[r].racers :
                IF <<r, u>> \in C THEN p.reward[u].is = "queued"
                                  ELSE p.reward[u] = room[r].reward[u]
<1> DEFINE q == room[r]
           reward == [u \in DOMAIN q.reward |-> IF <<r, u>> \in C THEN Retried(q.reward[u], at)
                                                                  ELSE q.reward[u]]
<1>0. Shape(q) /\ Honest(r, q)
  BY DEF IndInv, Tables
<1>1. p = [q EXCEPT !.reward = reward]
  BY DEF Requeue
<1>2. \A e : Retried(e, at).is = "queued" /\ DOMAIN Retried(e, at) = EntryFields
  BY DEF Retried, Queued, EntryFields
<1>3. \A u \in q.racers : <<r, u>> \in C =>
            q.fin = "persisting" /\ q.reward[u].is = "inflight"
  BY DEF Entries
<1>4. /\ DOMAIN reward = DOMAIN q.reward
      /\ q.fin \in Opened => \A u \in q.racers :
            IF <<r, u>> \in C THEN reward[u].is = "queued" /\ DOMAIN reward[u] = EntryFields
                              ELSE reward[u] = q.reward[u]
  BY <1>0, <1>2 DEF Shape
<1> HIDE DEF reward
<1>5. /\ DOMAIN p = Fields /\ SameRace(q, p) /\ p.phase = q.phase /\ p.fin = q.fin
      /\ p.reason = q.reason /\ p.failed = q.failed /\ p.reward = reward
  BY <1>0, <1>1 DEF Shape, Fields, SameRace
<1> HIDE DEF q
<1>6. Shape(p)
  BY <1>0, <1>4, <1>5 DEF Shape, SameRace
<1>7. Honest(r, p)
  BY <1>0, <1>3, <1>4, <1>5 DEF Honest, SameRace, Credit, Opened
<1>8. NoNewTasks(q, p)
  BY <1>4, <1>5 DEF NoNewTasks, SameRace, Opened
<1> QED
  BY <1>4, <1>5, <1>6, <1>7, <1>8 DEF Sound, q

(* A dead letter of any room that is persisting.                           *)
LEMMA DeadLetterKeeps ==
    ASSUME NEW r, NEW q, Shape(q), Honest(r, q), q.fin = "persisting",
           NEW u \in q.racers, NEW why, why # "RewardPersistence",
           NEW p, p = DeadLetter(q, why, u)
    PROVE  Sound(r, q, p) /\ NoNewTasks(q, p)
<1>1. p = [q EXCEPT !.fin = "failed", !.reason = why, !.failed = u]
  BY DEF DeadLetter
<1>2. /\ DOMAIN p = Fields /\ p.phase = q.phase /\ SameRace(q, p)
      /\ p.fin = "failed" /\ p.reason = why /\ p.reward = q.reward
  BY <1>1 DEF Shape, Fields, SameRace
<1> QED
  BY <1>2 DEF Sound, Shape, Honest, NoNewTasks, SameRace, Opened, Credit

LEMMA NoNewTasksTwice ==
    ASSUME NEW q, NEW p, NEW o, NoNewTasks(q, p), NoNewTasks(p, o)
    PROVE  NoNewTasks(q, o)
BY DEF NoNewTasks

(* The rooms of a poll: those of Requeue, except that one becomes p.       *)
LEMMA GiveUpRoom ==
    ASSUME IndInv, NEW at, NEW C, C \subseteq Entries("inflight"), NEW r \in Rooms, NEW p,
           LET q == Requeue(C, at)[r] IN Sound(r, q, p) /\ NoNewTasks(q, p),
           Settle([Requeue(C, at) EXCEPT ![r] = p], lane, now),
           UNCHANGED <<nextEpoch, run, store, work, pump>>
    PROVE  IndInv' /\ PaidNow
<1> DEFINE Q == Requeue(C, at)
           R == [Q EXCEPT ![r] = p]
<1>1. DOMAIN Q = Rooms
  BY DEF Requeue
<1>2. \A s \in Rooms : Sound(s, room[s], Q[s]) /\ NoNewTasks(room[s], Q[s])
  BY RequeueKeeps
<1>3. Sound(r, Q[r], p) /\ NoNewTasks(Q[r], p)
  OBVIOUS
<1>4. Settle(R, lane, now)
  OBVIOUS
<1> HIDE DEF Q
<1>5. DOMAIN R = Rooms /\ R[r] = p /\ \A s \in Rooms \ {r} : R[s] = Q[s]
  BY <1>1
<1> HIDE DEF R
<1>6. ASSUME NEW s \in Rooms PROVE Sound(s, room[s], R[s]) /\ NoNewTasks(room[s], R[s])
  <2>1. CASE s = r
    <3>1. Sound(r, room[r], Q[r]) /\ NoNewTasks(room[r], Q[r])
      BY <1>2
    <3>2. Sound(r, room[r], p)
      BY <1>3, <3>1 DEF Sound, SameRace
    <3>3. NoNewTasks(room[r], p)
      BY <1>3, <3>1, NoNewTasksTwice
    <3> QED
      BY <1>5, <2>1, <3>2, <3>3
  <2>2. CASE s # r
    BY <1>2, <1>5, <2>2
  <2> QED
    BY <2>1, <2>2
<1> HIDE DEF IndInv
<1> QED
  BY <1>4, <1>5, <1>6, PollTurn

(* An expired lease that cannot be retried.                                *)
LEMMA ExpireFailsStep ==
    ASSUME IndInv, NEW at, ExpireFails(at)
    PROVE  IndInv' /\ PaidNow
<1> DEFINE c == First(Doomed(at))
           D == {d \in Expired(at) : Before(d, c)}
           q == Requeue(D, at)[c[1]]
           p == FailAttempt(q, c[2], at)
<1>1. Doomed(at) \subseteq Entries("inflight") /\ D \subseteq Entries("inflight")
  BY DEF Doomed, Expired
<1>2. Doomed(at) # {} /\ UNCHANGED <<nextEpoch, run, store, work, pump>>
  BY DEF ExpireFails
<1>3. Entries("inflight") \subseteq Rooms \X Users
  BY DEF Entries
<1>4. c \in Entries("inflight")
  BY <1>1, <1>2, <1>3, FirstBelongs
<1>5. Settle([Requeue(D, at) EXCEPT ![c[1]] = p], lane, now)
  BY DEF ExpireFails
<1>6. c \notin D
  <2>1. c[1] \in Nat /\ c[2] \in Nat
    BY <1>3, <1>4, RewardAssumption DEF RewardAssumption
  <2> QED
    BY <2>1 DEF Before
<1> HIDE DEF D, p
<1>7. /\ c = <<c[1], c[2]>> /\ c[1] \in Rooms
      /\ room[c[1]].fin = "persisting" /\ c[2] \in room[c[1]].racers
      /\ room[c[1]].reward[c[2]].is = "inflight"
  BY <1>4 DEF Entries
<1> HIDE DEF c
<1>8. /\ Sound(c[1], room[c[1]], q) /\ q.fin = "persisting"
      /\ q.reward[c[2]].is = "inflight"
  BY <1>1, <1>6, <1>7, RequeueKeeps DEF Opened
<1> HIDE DEF q
<1>9. Handled(c[1], q, c[2], p)
  <2>1. c[2] \in q.racers /\ Shape(q) /\ Honest(c[1], q)
    BY <1>7, <1>8 DEF Sound, SameRace
  <2> QED
    BY <1>8, <2>1, FailureKeepsRoom DEF p
<1>10. Sound(c[1], q, p) /\ NoNewTasks(q, p)
  BY <1>9 DEF Handled, Sound
<1> HIDE DEF IndInv
<1> QED
  BY <1>1, <1>2, <1>5, <1>7, <1>10, GiveUpRoom DEF q

(* A take that fails as a whole.                                           *)
LEMMA TakeFailsStep ==
    ASSUME IndInv, NEW at, Batch(at) # {}, NEW why, why # "RewardPersistence",
           TakeFails(at, why), UNCHANGED <<nextEpoch, run, store, work, pump>>
    PROVE  IndInv' /\ PaidNow
<1> DEFINE c == First(Batch(at))
           C == Expired(at)
           q == Requeue(C, at)[c[1]]
           p == DeadLetter(q, why, c[2])
<1>1. Batch(at) \subseteq Entries("queued") /\ C \subseteq Entries("inflight")
  BY DEF Batch, DueAt, Expired
<1>2. Entries("queued") \subseteq Rooms \X Users
  BY DEF Entries
<1>3. c \in Entries("queued")
  BY <1>1, <1>2, FirstBelongs
<1>4. Settle([Requeue(C, at) EXCEPT ![c[1]] = p], lane, now)
  BY DEF TakeFails
<1> HIDE DEF C, p
<1>5. c[1] \in Rooms /\ room[c[1]].fin = "persisting" /\ c[2] \in room[c[1]].racers
  BY <1>3 DEF Entries
<1> HIDE DEF c
<1>6. Sound(c[1], room[c[1]], q) /\ q.fin = "persisting"
  BY <1>1, <1>5, RequeueKeeps
<1> HIDE DEF q
<1>7. Sound(c[1], q, p) /\ NoNewTasks(q, p)
  <2>1. c[2] \in q.racers /\ Shape(q) /\ Honest(c[1], q)
    BY <1>5, <1>6 DEF Sound, SameRace
  <2> QED
    BY <1>6, <2>1, DeadLetterKeeps DEF p
<1> HIDE DEF IndInv
<1> QED
  BY <1>1, <1>4, <1>5, <1>7, GiveUpRoom DEF q

(* The attempts issued to the candidates C.                                *)
LEMMA IssuedKeeps ==
    ASSUME IndInv, NEW at, NEW C, C \subseteq Entries("queued"), NEW r \in Rooms,
           NEW p, p = Issued(C, at)[r]
    PROVE  /\ Sound(r, room[r], p) /\ p.fin = room[r].fin
           /\ p.fin = "persisting" => \A u \in room[r].racers : p.reward[u].is = "inflight" =>
                IF <<r, u>> \in C
                THEN p.reward[u].attempt = nextAttempt + Position(<<r, u>>, C)
                ELSE /\ room[r].reward[u].is = "inflight"
                     /\ p.reward[u].attempt = room[r].reward[u].attempt
<1> DEFINE D == Expired(at)
           q == Requeue(D, at)[r]
           reward == [u \in DOMAIN q.reward |->
                        IF <<r, u>> \in C
                        THEN InFlight(nextAttempt + Position(<<r, u>>, C), q.reward[u].fails,
                                      at + Lease)
                        ELSE q.reward[u]]
<1>1. D \subseteq Entries("inflight")
  BY DEF Expired
<1>2. p = [q EXCEPT !.reward = reward]
  BY DEF Issued
<1> HIDE DEF D
<1>3. /\ Sound(r, room[r], q) /\ NoNewTasks(room[r], q) /\ q.fin = room[r].fin
      /\ q.fin \in Opened => \A u \in room[r].racers :
            IF <<r, u>> \in D THEN q.reward[u].is = "queued"
                              ELSE q.reward[u] = room[r].reward[u]
  BY <1>1, RequeueKeeps
<1> HIDE DEF q
<1>4. \A a, f, l : /\ InFlight(a, f, l).is = "inflight" /\ InFlight(a, f, l).attempt = a
                   /\ DOMAIN InFlight(a, f, l) = EntryFields
  BY DEF InFlight, EntryFields
<1>5. /\ DOMAIN reward = DOMAIN q.reward
      /\ q.fin \in Opened => \A u \in q.racers :
            IF <<r, u>> \in C THEN /\ reward[u].is = "inflight" /\ DOMAIN reward[u] = EntryFields
                                   /\ reward[u].attempt = nextAttempt + Position(<<r, u>>, C)
                              ELSE reward[u] = q.reward[u]
  BY <1>3, <1>4 DEF Sound, Shape
<1> HIDE DEF reward
<1>6. \A u : <<r, u>> \in C => room[r].fin = "persisting"
  BY DEF Entries
<1>7. /\ DOMAIN p = Fields /\ SameRace(q, p) /\ p.phase = q.phase /\ p.fin = q.fin
      /\ p.reason = q.reason /\ p.failed = q.failed /\ p.reward = reward
  BY <1>2, <1>3 DEF Sound, Shape, Fields, SameRace
<1>8. Shape(p)
  BY <1>3, <1>5, <1>7 DEF Sound, Shape, SameRace
<1>9. Honest(r, p)
  BY <1>3, <1>5, <1>6, <1>7 DEF Sound, Honest, SameRace, Credit, Opened
<1>10. Sound(r, room[r], p)
  BY <1>3, <1>7, <1>8, <1>9 DEF Sound, SameRace
<1>11. ASSUME p.fin = "persisting", NEW u \in room[r].racers, p.reward[u].is = "inflight"
       PROVE  IF <<r, u>> \in C
              THEN p.reward[u].attempt = nextAttempt + Position(<<r, u>>, C)
              ELSE /\ room[r].reward[u].is = "inflight"
                   /\ p.reward[u].attempt = room[r].reward[u].attempt
  <2>1. u \in q.racers /\ q.fin \in Opened
    BY <1>3, <1>7, <1>11 DEF Sound, SameRace, Opened
  <2> QED
    BY <1>3, <1>5, <1>7, <1>11, <2>1
<1> QED
  BY <1>3, <1>7, <1>10, <1>11

LEMMA LimitedQueued ==
    ASSUME NEW at, Batch(at) # {}
    PROVE  Limited(at) \subseteq Entries("queued")
<1>1. Batch(at) \subseteq Entries("queued") /\ Entries("queued") \subseteq Rooms \X Users
  BY DEF Batch, DueAt, Entries
<1>2. First(Batch(at)) \in Batch(at)
  BY <1>1, FirstBelongs
<1> QED
  BY <1>1, <1>2 DEF Limited

(* The pump stops: nobody promises its tasks a worker any more.            *)
LEMMA TakeBreaksStep ==
    ASSUME IndInv, NEW at, TakeBreaks(at)
    PROVE  IndInv' /\ PaidNow
<1> DEFINE C == {c \in Limited(at) : nextAttempt + Position(c, Limited(at)) <= AttemptMax}
           R == Issued(C, at)
<1>1. /\ Batch(at) # {} /\ Settle(R, lane, now) /\ pump' = "stopped"
      /\ UNCHANGED <<nextEpoch, run, store, work>>
  BY DEF TakeBreaks, PumpEnds
<1>2. C \subseteq Entries("queued")
  BY <1>1, LimitedQueued
<1> HIDE DEF C
<1>3. DOMAIN R = Rooms
  BY DEF Issued
<1>4. \A r \in Rooms : Sound(r, room[r], R[r])
  BY <1>2, IssuedKeeps
<1> HIDE DEF R
<1>5. \A r \in Rooms : /\ Shape(R[r]) /\ Honest(r, R[r])
                       /\ SameRace(room[r], R[r]) /\ Continues(room[r], R[r])
  BY <1>4 DEF Sound, Continues
<1>6. Workers(room, work', nextEpoch) /\ ~Pumping'
  BY <1>1 DEF IndInv, Pumping
<1>7. Settle(R, lane, now) \/ Advanced(R, lane)
  BY <1>1
<1> HIDE DEF IndInv
<1> QED
  BY <1>1, <1>3, <1>5, <1>6, <1>7, TurnOnRooms

(* Every attempt that is issued gets a worker, and this is the only race   *)
(* of its user.                                                            *)
LEMMA TakeIssuesStep ==
    ASSUME IndInv, NEW at, TakeIssues(at)
    PROVE  IndInv' /\ PaidNow
<1> DEFINE C == IF Batch(at) = {} THEN {} ELSE Limited(at)
           R == Issued(C, at)
           new == {Task(c, nextAttempt + Position(c, C)) : c \in C}
<1>1. /\ work' = work \cup new /\ Settle(R, lane, now)
      /\ UNCHANGED <<nextEpoch, pump, run, store>>
  BY DEF TakeIssues
<1>2. C \subseteq Entries("queued")
  BY LimitedQueued
<1>3. \A x \in new : \E c \in C : x = Task(c, nextAttempt + Position(c, C))
  OBVIOUS
<1>4. \A c \in C : Task(c, nextAttempt + Position(c, C)) \in new
  OBVIOUS
<1> HIDE DEF C, new
<1>5. DOMAIN R = Rooms
  BY DEF Issued
<1>6. ASSUME NEW r \in Rooms, NEW p, p = R[r]
      PROVE  /\ Sound(r, room[r], p) /\ p.fin = room[r].fin
             /\ p.fin = "persisting" => \A u \in room[r].racers : p.reward[u].is = "inflight" =>
                  IF <<r, u>> \in C
                  THEN p.reward[u].attempt = nextAttempt + Position(<<r, u>>, C)
                  ELSE /\ room[r].reward[u].is = "inflight"
                       /\ p.reward[u].attempt = room[r].reward[u].attempt
  BY <1>2, <1>6, IssuedKeeps
<1> HIDE DEF R
<1>7. \A r \in Rooms : /\ Shape(R[r]) /\ Honest(r, R[r])
                       /\ SameRace(room[r], R[r]) /\ Continues(room[r], R[r])
  BY <1>6 DEF Sound, Continues
<1>8. Workers(room, work', nextEpoch)
  <2>1. Workers(room, work, nextEpoch)
    BY DEF IndInv
  <2>2. Workers(room, new, nextEpoch)
    <3> SUFFICES ASSUME NEW x \in new
                 PROVE  /\ DOMAIN x = WorkerFields
                        /\ x.room \in Rooms /\ x.user \in Users
                        /\ x.epoch \in Nat \ {0} /\ x.epoch < nextEpoch
                        /\ x.result # "durable"
                        /\ \A r \in Rooms : x.user \in room[r].racers =>
                                x.epoch = room[r].epoch /\ x.room = r
      BY DEF Workers
    <3>1. PICK c \in C : x = Task(c, nextAttempt + Position(c, C))
      BY <1>3
    <3>2. /\ DOMAIN x = WorkerFields /\ x.room = c[1] /\ x.user = c[2]
          /\ x.epoch = room[c[1]].epoch /\ x.result = "running"
      BY <3>1 DEF Task, WorkerFields
    <3>3. /\ c[1] \in Rooms /\ c[2] \in Users /\ c[2] \in room[c[1]].racers
          /\ room[c[1]].fin = "persisting"
      BY <1>2 DEF Entries
    <3>4. /\ room[c[1]].epoch \in Nat \ {0} /\ room[c[1]].epoch < nextEpoch
      BY <3>3 DEF IndInv, Tables, Shape
    <3>5. \A r \in Rooms : c[2] \in room[r].racers => r = c[1]
      <4>1. \A r \in Rooms : c[2] \in room[r].racers => lane[c[2]] = Fence(r, room[r])
        BY <3>3 DEF IndInv, Tables, Lanes
      <4> QED
        BY <3>3, <4>1, FenceIsFence
    <3> QED
      BY <3>2, <3>3, <3>4, <3>5
  <2> QED
    BY <1>1, <2>1, <2>2 DEF Workers
<1>9. ASSUME Pumping, NEW r \in Rooms PROVE Employed(r, R[r], work')
  <2>1. Employed(r, room[r], work)
    BY <1>9 DEF IndInv
  <2> SUFFICES ASSUME R[r].fin = "persisting", NEW u \in R[r].racers,
                      R[r].reward[u].is = "inflight"
               PROVE  \E w \in work' : /\ w.room = r /\ w.epoch = R[r].epoch /\ w.user = u
                                       /\ w.attempt = R[r].reward[u].attempt
    BY DEF Employed
  <2>2. u \in room[r].racers /\ R[r].epoch = room[r].epoch /\ room[r].fin = "persisting"
    BY <1>6 DEF Sound, SameRace
  <2>3. CASE <<r, u>> \in C
    <3> DEFINE x == Task(<<r, u>>, nextAttempt + Position(<<r, u>>, C))
    <3>1. x \in new
      BY <1>4, <2>3
    <3>2. R[r].reward[u].attempt = nextAttempt + Position(<<r, u>>, C)
      BY <1>6, <2>2, <2>3
    <3>3. /\ x.room = r /\ x.epoch = room[r].epoch /\ x.user = u
          /\ x.attempt = nextAttempt + Position(<<r, u>>, C)
      BY DEF Task
    <3> HIDE DEF x
    <3> QED
      BY <1>1, <2>2, <3>1, <3>2, <3>3
  <2>4. CASE <<r, u>> \notin C
    <3>1. /\ room[r].reward[u].is = "inflight"
          /\ R[r].reward[u].attempt = room[r].reward[u].attempt
      BY <1>6, <2>2, <2>4
    <3> QED
      BY <1>1, <2>1, <2>2, <3>1 DEF Employed
  <2> QED
    BY <2>3, <2>4
<1>10. Pumping' => \A r \in Rooms : Employed(r, R[r], work')
  BY <1>1, <1>9 DEF Pumping
<1>11. Settle(R, lane, now) \/ Advanced(R, lane)
  BY <1>1
<1> HIDE DEF IndInv
<1> QED
  BY <1>1, <1>5, <1>7, <1>8, <1>10, <1>11, TurnOnRooms

LEMMA PollStep ==
    ASSUME IndInv, Poll
    PROVE  IndInv' /\ PaidNow
<1>1. PICK lag \in 0..MaxLag : \/ ExpireFails(now - lag) \/ TakeExhausted(now - lag)
                               \/ TakeUntimed(now - lag) \/ TakeBreaks(now - lag)
                               \/ TakeIssues(now - lag)
  BY DEF Poll
<1> DEFINE at == now - lag
<1>2. CASE TakeExhausted(at)
  <2>1. /\ Batch(at) # {} /\ TakeFails(at, "RewardAttemptIdExhausted")
        /\ UNCHANGED <<nextEpoch, run, store, work, pump>>
    BY <1>2 DEF TakeExhausted
  <2> QED
    BY <2>1, TakeFailsStep
<1>3. CASE TakeUntimed(at)
  <2>1. /\ Batch(at) # {} /\ TakeFails(at, "RewardAttemptLeaseDeadlineOverflow")
        /\ UNCHANGED <<nextEpoch, run, store, work, pump>>
    BY <1>3 DEF TakeUntimed
  <2> QED
    BY <2>1, TakeFailsStep
<1> HIDE DEF at
<1>4. CASE ExpireFails(at)
  BY <1>4, ExpireFailsStep
<1>5. CASE TakeBreaks(at)
  BY <1>5, TakeBreaksStep
<1>6. CASE TakeIssues(at)
  BY <1>6, TakeIssuesStep
<1> QED
  BY <1>1, <1>2, <1>3, <1>4, <1>5, <1>6 DEF at

-----------------------------------------------------------------------------
(* The turns that only advance, the end of the pump and the restart.       *)

LEMMA PlainTurn ==
    ASSUME IndInv, NEW at, Settle(room, lane, at) \/ Advanced(room, lane),
           UNCHANGED <<nextEpoch, run, store, work, pump>>
    PROVE  IndInv' /\ PaidNow
<1>1. DOMAIN room = Rooms /\ \A r \in Rooms : Shape(room[r]) /\ Honest(r, room[r])
  BY DEF IndInv, Tables
<1>2. \A r \in Rooms : SameRace(room[r], room[r]) /\ Continues(room[r], room[r])
  BY DEF SameRace, Continues
<1>3. Workers(room, work', nextEpoch)
  BY DEF IndInv
<1>4. Pumping' => \A r \in Rooms : Employed(r, room[r], work')
  BY DEF IndInv, Pumping
<1> HIDE DEF IndInv
<1> QED
  BY <1>1, <1>2, <1>3, <1>4, TurnOnRooms

LEMMA HeartbeatStep ==
    ASSUME IndInv, Heartbeat
    PROVE  IndInv' /\ PaidNow
<1> DEFINE next == [r \in Rooms |-> AdvanceRoom(room[r], now, r \in Rooms, r \in Rooms)]
<1>1. Becomes(room, lane, next) /\ UNCHANGED <<nextEpoch, run, store, work, pump>>
  BY DEF Heartbeat, Advance
<1>2. \A r \in Rooms : Moved(room[r], next[r])
  BY RoomMoves DEF IndInv, Tables
<1>3. DOMAIN next = Rooms
  OBVIOUS
<1> HIDE DEF next
<1>4. Advanced(room, lane)
  BY <1>1, <1>2, <1>3, BecomesAdvanced
<1> QED
  BY <1>1, <1>4, PlainTurn

LEMMA DrainStep ==
    ASSUME IndInv, DrainOutboundProducers
    PROVE  IndInv' /\ PaidNow
<1>1. PICK flushed, reserved :
            Becomes(room, lane, [r \in Rooms |->
                                    TryFinalize(room[r], r \in flushed, r \in reserved)])
  BY DEF DrainOutboundProducers
<1> DEFINE next == [r \in Rooms |-> TryFinalize(room[r], r \in flushed, r \in reserved)]
<1>2. UNCHANGED <<nextEpoch, run, store, work, pump>>
  BY DEF DrainOutboundProducers
<1>3. \A r \in Rooms : Moved(room[r], next[r])
  BY FinalizeMoves DEF IndInv, Tables
<1>4. DOMAIN next = Rooms /\ Becomes(room, lane, next)
  BY <1>1
<1> HIDE DEF next
<1>5. Advanced(room, lane)
  BY <1>3, <1>4, BecomesAdvanced
<1> QED
  BY <1>2, <1>5, PlainTurn

(* Nothing that IndInv speaks of changes, except that the pump may end.    *)
LEMMA QuietStep ==
    ASSUME IndInv, UNCHANGED <<actor, work, run, store>>, Pumping' => Pumping
    PROVE  IndInv' /\ PaidNow
<1>1. UNCHANGED <<room, lane, nextEpoch, work, run, receipt, balance, credited>>
  BY DEF actor, store
<1>2. Tables(room, lane, nextEpoch)'
  BY <1>1 DEF IndInv, Tables, Honest, Credit
<1>3. Profiles' /\ PaidOnce' /\ Fresh(room)'
  BY <1>1 DEF IndInv, Profiles, PaidOnce, Fresh, Newer, NotAfter
<1>4. Workers(room, work, nextEpoch)'
  BY <1>1 DEF IndInv, Workers, Key
<1>5. (Pumping => \A r \in Rooms : Employed(r, room[r], work))'
  BY <1>1 DEF IndInv, Employed
<1>6. PaidNow
  BY <1>1 DEF PaidNow
<1> QED
  BY <1>1, <1>2, <1>3, <1>4, <1>5, <1>6 DEF IndInv

(* Whatever the crash left behind, the profiles know only older runs.      *)
LEMMA EmptyTables ==
    ASSUME NEW n \in Nat \ {0}, NEW L, L = [u \in Users |-> NoLane],
           NEW R, R = [r \in Rooms |-> Idle]
    PROVE  Tables(R, L, n) /\ Fresh(R) /\ Workers(R, {}, n)
           /\ \A r \in Rooms : Employed(r, R[r], {})
<1>1. DOMAIN R = Rooms /\ \A r \in Rooms : R[r] = Idle
  OBVIOUS
<1>2. DOMAIN L = Users /\ \A u \in Users : L[u] = NoLane
  OBVIOUS
<1> QED
  BY <1>1, <1>2, IdleRoom DEF Tables, Lanes, Fresh, Workers

LEMMA RestartStep ==
    ASSUME IndInv, Restart
    PROVE  IndInv' /\ PaidNow
<1>1. /\ run' = run + 1 /\ nextEpoch' = 1 /\ work' = {}
      /\ room' = [r \in Rooms |-> Idle] /\ lane' = [u \in Users |-> NoLane]
      /\ receipt' = receipt /\ balance' = balance /\ credited' = credited
  BY DEF Restart, store
<1>2. run \in Nat /\ run' \in Nat \ {0} /\ nextEpoch' \in Nat \ {0}
  BY <1>1 DEF IndInv
<1>3. \A r \in Rooms : room'[r] = Idle
  BY <1>1
<1>4. Tables(room, lane, nextEpoch)'
  <2>1. Tables(room', lane', nextEpoch')
    BY <1>1, <1>2, EmptyTables
  <2>2. \A r \in Rooms : Honest(r, Idle)'
    BY DEF Honest, Idle, Opened
  <2> QED
    BY <1>3, <2>1, <2>2 DEF Tables
<1>5. Fresh(room)' /\ Workers(room, work, nextEpoch)'
  BY <1>1, <1>3, IdleRoom DEF Fresh, Workers
<1>6. (Pumping => \A r \in Rooms : Employed(r, room[r], work))'
  BY <1>3, IdleRoom DEF Employed
<1>7. Profiles' /\ PaidOnce'
  <2>1. \A u \in Users : receipt[u].run \in Nat /\ receipt[u].run <= run
    BY DEF IndInv, Profiles, KeySpace
  <2>2. \A u \in Users : receipt[u].run < run'
    BY <1>1, <1>2, <2>1
  <2>3. \A u \in Users : receipt[u].run <= run' /\ receipt[u].run # run'
    BY <1>2, <2>1, <2>2
  <2>4. Profiles'
    BY <1>1, <2>3 DEF IndInv, Profiles, NotAfter
  <2> QED
    BY <1>1, <2>4 DEF IndInv, PaidOnce
<1>8. PaidNow
  BY <1>1, <1>2 DEF PaidNow
<1> QED
  BY <1>2, <1>4, <1>5, <1>6, <1>7, <1>8 DEF IndInv

-----------------------------------------------------------------------------
LEMMA InitInd == Init => IndInv
<1> SUFFICES ASSUME Init PROVE IndInv
  OBVIOUS
<1>1. Tables(room, lane, nextEpoch) /\ Fresh(room) /\ Workers(room, work, nextEpoch)
      /\ \A r \in Rooms : Employed(r, room[r], work)
  BY EmptyTables DEF Init
<1>2. run = 1 /\ nextEpoch = 1
  BY DEF Init
<1>3. Profiles
  BY <1>2, FS_EmptySet DEF Init, Profiles, KeySpace, NoReceipt
<1>4. PaidOnce
  <2>1. \A u \in Users : {c \in credited : c.user = u} = {}
    BY DEF Init
  <2> QED
    BY <2>1, FS_EmptySet DEF Init, PaidOnce
<1> QED
  BY <1>1, <1>2, <1>3, <1>4 DEF IndInv

LEMMA StepInd == IndInv /\ [Next]_vars => IndInv' /\ PaidNow
<1> SUFFICES ASSUME IndInv, [Next]_vars PROVE IndInv' /\ PaidNow
  OBVIOUS
<1>1. ASSUME NEW r \in Rooms, NEW racers \in SUBSET Users, StartRoom(r, racers)
      PROVE  IndInv' /\ PaidNow
  BY <1>1, StartStep
<1>2. ASSUME NEW r \in Rooms,
             AbortLoading(r) \/ BeginRace(r) \/ BeginSettlement(r) \/ RetryDeadLetter(r)
      PROVE  IndInv' /\ PaidNow
  BY <1>2, AbortStep, BeginRaceStep, BeginSettlementStep, RetryStep
<1>3. ASSUME NEW w \in work, WorkerNext(w) PROVE IndInv' /\ PaidNow
  BY <1>3, PayStep, NoPayStep DEF WorkerNext
<1>4. ASSUME NEW w \in work, Publish(w) PROVE IndInv' /\ PaidNow
  BY <1>4, PublishStep DEF Publish, Pumping
<1>5. CASE Poll
  BY <1>5, PollStep
<1>6. CASE Tick
  <2>1. Settle(room, lane, now + 1) /\ UNCHANGED <<nextEpoch, run, store, work, pump>>
    BY <1>6 DEF Tick
  <2> QED
    BY <2>1, PlainTurn
<1>7. CASE Heartbeat
  BY <1>7, HeartbeatStep
<1>8. CASE Quiesce
  BY <1>8, QuietStep DEF Quiesce, Pumping
<1>9. CASE PumpDrained
  BY <1>9, QuietStep DEF PumpDrained, PumpEnds, Pumping
<1>10. CASE PumpFails
  BY <1>10, QuietStep DEF PumpFails, PumpEnds, Pumping
<1>11. CASE DrainOutboundProducers
  BY <1>11, DrainStep
<1>12. CASE Restart
  BY <1>12, RestartStep
<1>13. CASE UNCHANGED vars
  BY <1>13, QuietStep DEF vars, actor, store, Pumping
<1> HIDE DEF IndInv, PaidNow
<1> QED
  BY <1>1, <1>2, <1>3, <1>4, <1>5, <1>6, <1>7, <1>8, <1>9, <1>10, <1>11, <1>12, <1>13 DEF Next

(* The inductive invariant holds in every reachable state.                 *)
THEOREM InvariantHolds == Spec => []IndInv
BY InitInd, StepInd, PTL DEF Spec

-----------------------------------------------------------------------------
(* No user races in two rooms whose rewards are open: a reward lane is     *)
(* occupied exactly by the open race of its user.                          *)
THEOREM LanesAlwaysAgree == Spec => []LanesAgree
<1>1. IndInv => LanesAgree
  <2> SUFFICES ASSUME IndInv, NEW u \in Users
               PROVE  /\ lane[u] # NoLane => /\ room[lane[u].room].epoch = lane[u].epoch
                                             /\ u \in room[lane[u].room].racers
                      /\ \A r \in Rooms : u \in room[r].racers => lane[u] = Fence(r, room[r])
    BY DEF LanesAgree
  <2>1. /\ lane[u] # NoLane => \E r \in Rooms : lane[u] = Fence(r, room[r])
                                                /\ u \in room[r].racers
        /\ \A r \in Rooms : u \in room[r].racers => lane[u] = Fence(r, room[r])
    BY DEF IndInv, Tables, Lanes
  <2>2. ASSUME NEW r \in Rooms, lane[u] = Fence(r, room[r])
        PROVE  lane[u].room = r /\ lane[u].epoch = room[r].epoch
    BY <2>2 DEF Fence
  <2> QED
    BY <2>1, <2>2
<1> QED
  BY <1>1, InvariantHolds, PTL

(* No profile is paid twice for a race, however attempts, leases, retries  *)
(* and restarts overlap.                                                   *)
THEOREM AlwaysPaidOnce == Spec => []PaidOnce
<1>1. IndInv => PaidOnce
  BY DEF IndInv
<1> QED
  BY <1>1, InvariantHolds, PTL

(* The store never refuses the reward of an open race as stale.            *)
THEOREM AlwaysNeverStale == Spec => []NeverStale
<1>1. IndInv => NeverStale
  BY DEF IndInv, Fresh, NeverStale
<1> QED
  BY <1>1, InvariantHolds, PTL

(* A dead letter that may be retried names a reward still in flight.       *)
THEOREM RetryableAlwaysHasAttempt == Spec => []RetryableHasAttempt
<1>1. IndInv => RetryableHasAttempt
  BY DEF IndInv, Tables, Honest, RetryableHasAttempt
<1> QED
  BY <1>1, InvariantHolds, PTL

(* As long as the pump runs, a reward in flight has its worker.            *)
THEOREM InFlightAlwaysHasWorker == Spec => []InFlightHasWorker
<1>1. IndInv => InFlightHasWorker
  <2> SUFFICES ASSUME IndInv, Pumping, NEW c \in Entries("inflight")
               PROVE  \E w \in work : /\ w.room = c[1] /\ w.epoch = room[c[1]].epoch
                                      /\ w.user = c[2] /\ w.attempt = Entry(c).attempt
    BY DEF InFlightHasWorker, Pumping
  <2>1. /\ c[1] \in Rooms /\ room[c[1]].fin = "persisting" /\ c[2] \in room[c[1]].racers
        /\ room[c[1]].reward[c[2]].is = "inflight"
    BY DEF Entries
  <2>2. Employed(c[1], room[c[1]], work)
    BY <2>1 DEF IndInv
  <2> DEFINE r == c[1]
             u == c[2]
  <2>3. room[r].reward[u] = Entry(c)
    BY DEF Entry
  <2> HIDE DEF r, u
  <2>4. /\ room[r].fin = "persisting" /\ u \in room[r].racers
        /\ room[r].reward[u].is = "inflight" /\ Employed(r, room[r], work)
    BY <2>1, <2>2 DEF r, u
  <2>5. \E w \in work : /\ w.room = r /\ w.epoch = room[r].epoch /\ w.user = u
                       /\ w.attempt = room[r].reward[u].attempt
    BY <2>4 DEF Employed
  <2> QED
    BY <2>3, <2>5 DEF r, u
<1> QED
  BY <1>1, InvariantHolds, PTL

(* A room leaves its settlement only when each of its frozen racers has    *)
(* been paid for that race.                                                *)
THEOREM SettledIsAlwaysPaid == Spec => SettledIsPaid
<1>1. IndInv /\ [Next]_vars => [PaidNow]_vars
  BY StepInd
<1>2. Spec => [][PaidNow]_vars
  BY <1>1, InvariantHolds, PTL DEF Spec
<1> QED
  BY <1>2, PTL DEF SettledIsPaid, PaidNow
=============================================================================

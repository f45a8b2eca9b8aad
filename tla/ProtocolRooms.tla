--------------------------- MODULE ProtocolRooms ---------------------------
(***************************************************************************)
(* The rooms of the World actor (world.rs): who sits where, on which team, *)
(* who is the master, and which room a user is in.  A room is the record   *)
(* ProtocolRoomState; its methods are operators from a room to a room, and *)
(* every command works on a copy that replaces the room at the end, so a   *)
(* command whose reply cannot be queued changes nothing and is no step.    *)
(*                                                                         *)
(* A racer is a member: it has a seat (its player id) and a slot (its      *)
(* place on the grid; in team rooms the lower half is blue, the upper red).*)
(* The race itself is RaceLoading and RewardSettlement; here it only       *)
(* starts, ends or aborts.                                                 *)
(***************************************************************************)
EXTENDS Integers, FiniteSets, FiniteSetsExt

CONSTANTS Users,
          MAX_ROOM_ID,     \* u16::MAX
          ROOM_SLOT_COUNT,
          ROOM_OBSERVER_COUNT,
          None

RoomIds == 1..MAX_ROOM_ID
Seats == 0..(ROOM_SLOT_COUNT - 1)
Slots == 0..(ROOM_SLOT_COUNT - 1)
Booths == 0..(ROOM_OBSERVER_COUNT - 1)
NoTeam == 0
Red == 1
Blue == 2

(* ProtocolRoomState.                                                      *)
Room == [phase : {"lobby", "loading", "racing"}, teams : BOOLEAN,
         master : -1..(ROOM_SLOT_COUNT + ROOM_OBSERVER_COUNT - 1),
         member : [Seats -> Users \cup {None}], team : [Seats -> {NoTeam, Red, Blue}],
         ready : [Seats -> BOOLEAN], rank : [Seats -> 0..(ROOM_SLOT_COUNT - 1)],
         ai : [Seats -> {None, NoTeam, Red, Blue}], closed : [Seats -> Slots \cup {None}],
         observer : [Booths -> Users \cup {None}], slot : [Slots -> Seats \cup {None}]]

ASSUME RoomsAssumption ==
    /\ MAX_ROOM_ID \in Nat \ {0}
    /\ ROOM_SLOT_COUNT \in Nat \ {0} /\ ROOM_SLOT_COUNT % 2 = 0
    /\ ROOM_OBSERVER_COUNT \in Nat
    /\ None \notin Users /\ None \notin Int /\ None \notin Room

VARIABLES rooms,   \* protocol_rooms: the room of each live id, else None
          roomOf,  \* protocol_room_by_user
          freeIds, \* free_protocol_room_ids
          nextId   \* next_room_id

vars == <<rooms, roomOf, freeIds, nextId>>

Live == {r \in RoomIds : rooms[r] # None}

Init == /\ rooms = [r \in RoomIds |-> None]
        /\ roomOf = [u \in Users |-> None]
        /\ freeIds = {}
        /\ nextId = 1

-----------------------------------------------------------------------------
(* Readings of a room.                                                     *)
Racers(R) == {m \in Seats : R.member[m] # None}
Watchers(R) == {o \in Booths : R.observer[o] # None}
VacantSeats(R) == {m \in Seats : R.member[m] = None /\ R.ai[m] = None /\ R.closed[m] = None}
VacantSlots(R) == {s \in Slots : R.slot[s] = None}
IsEmpty(R) == Racers(R) = {} /\ Watchers(R) = {}

Half(team) == CASE team = Blue -> {s \in Slots : s < ROOM_SLOT_COUNT \div 2}
                [] team = Red  -> {s \in Slots : s >= ROOM_SLOT_COUNT \div 2}
                [] OTHER       -> Slots

(* equipment_player_id and member_by_player_id.                            *)
PlayerIds(R, u) == {m \in Racers(R) : R.member[m] = u}
                     \cup {ROOM_SLOT_COUNT + o : o \in {b \in Watchers(R) : R.observer[b] = u}}
Seated(R, id) == id \in Racers(R) \/ id - ROOM_SLOT_COUNT \in Watchers(R)

NewRoom(teams) ==
    [phase |-> "lobby", teams |-> teams, master |-> 0,
     member |-> [m \in Seats |-> None], team |-> [m \in Seats |-> NoTeam],
     ready |-> [m \in Seats |-> FALSE], rank |-> [m \in Seats |-> 0],
     ai |-> [m \in Seats |-> None], closed |-> [m \in Seats |-> None],
     observer |-> [o \in Booths |-> None], slot |-> [s \in Slots |-> None]]

-----------------------------------------------------------------------------
TeamSize(R, t) == Cardinality({m \in Racers(R) : R.team[m] = t})
                    + Cardinality({m \in Seats : R.ai[m] = t})

(* admission_slot_and_team: the smaller team, blue on a tie, or the other  *)
(* one when the preferred half is full.                                    *)
AdmissionTeam(R) ==
    LET preferred == IF TeamSize(R, Blue) <= TeamSize(R, Red) THEN Blue ELSE Red
        other == IF preferred = Blue THEN Red ELSE Blue
    IN  IF ~R.teams THEN NoTeam
        ELSE IF VacantSlots(R) \cap Half(preferred) # {} THEN preferred ELSE other

(* add_participant, for a racer.                                           *)
HasSeat(R) == VacantSeats(R) # {} /\ VacantSlots(R) # {}

AddRacer(R, u) ==
    LET m == Min(VacantSeats(R))
        t == AdmissionTeam(R)
        s == Min(VacantSlots(R) \cap Half(t))
    IN  [R EXCEPT !.member[m] = u, !.team[m] = t, !.ready[m] = FALSE,
                  !.rank[m] = Cardinality(Racers(R)),
                  !.slot[s] = m,
                  !.master = IF Seated(R, R.master) THEN R.master ELSE m]

(* add_participant, for an observer: pmap 718 takes the room over.         *)
HasBooth(R) == Watchers(R) # Booths

AddObserver(R, u, takesOver) ==
    LET o == Min(Booths \ Watchers(R)) IN
    [R EXCEPT !.observer[o] = u,
              !.master = IF takesOver THEN ROOM_SLOT_COUNT + o ELSE R.master]

(* A participant's profile makes it a racer or an observer.                *)
Admissible(R, kind) == IF kind = "racer" THEN HasSeat(R) ELSE HasBooth(R)
Add(R, u, kind) == IF kind = "racer" THEN AddRacer(R, u)
                   ELSE AddObserver(R, u, kind = "observer master")

(* assign_next_room_master: the lowest racer, not ready, then the lowest   *)
(* observer.                                                               *)
AssignNextMaster(R) ==
    IF Racers(R) # {} THEN [R EXCEPT !.master = Min(Racers(R)),
                                     !.ready[Min(Racers(R))] = FALSE]
    ELSE IF Watchers(R) # {} THEN [R EXCEPT !.master = ROOM_SLOT_COUNT + Min(Watchers(R))]
    ELSE [R EXCEPT !.master = -1]

(* Variant of CompactRanks that leaves the gap.                            *)
KeepRanks(R) == [R EXCEPT !.rank = [m \in Seats |-> IF m \in Racers(R) THEN @[m] ELSE 0]]

(* Close the gap that a racer left in the grid order.                      *)
CompactRanks(R) ==
    LET before(m) == {n \in Racers(R) : \/ R.rank[n] < R.rank[m]
                                        \/ R.rank[n] = R.rank[m] /\ n < m}
    IN  [R EXCEPT !.rank = [m \in Seats |-> IF m \in Racers(R)
                                            THEN Cardinality(before(m)) ELSE 0]]

Unseat(R, m) == [R EXCEPT !.member[m] = None, !.team[m] = NoTeam, !.ready[m] = FALSE,
                          !.slot = [s \in Slots |-> IF @[s] = m THEN None ELSE @[s]]]

(* Variant of RemoveUser that never names a new master.                    *)
RemoveUserOnly(R, u) ==
    LET id == CHOOSE i \in PlayerIds(R, u) : TRUE
    IN  IF id \in Seats THEN CompactRanks(Unseat(R, id))
        ELSE [R EXCEPT !.observer[id - ROOM_SLOT_COUNT] = None]

RemoveUser(R, u) ==
    LET id == CHOOSE i \in PlayerIds(R, u) : TRUE
        gone == IF id \in Seats THEN Unseat(R, id)
                ELSE [R EXCEPT !.observer[id - ROOM_SLOT_COUNT] = None]
        led == IF R.master = id THEN AssignNextMaster(gone) ELSE gone
    IN  IF id \in Seats THEN CompactRanks(led) ELSE led

-----------------------------------------------------------------------------
(* allocate_protocol_room_id: the lowest freed id, else the next unused    *)
(* one, counting round.                                                    *)
Cyclic(i) == {r \in RoomIds : r >= i /\ r \notin Live}
AllocatedId == LET freed == freeIds \ Live IN
               IF freed # {} THEN Min(freed)
               ELSE IF Cyclic(nextId) # {} THEN Min(Cyclic(nextId)) ELSE Min(Cyclic(1))

Create(u, teams, kind) ==
    LET r == AllocatedId IN
    /\ roomOf[u] = None
    /\ Live # RoomIds
    /\ Admissible(NewRoom(teams), kind)
    /\ rooms' = [rooms EXCEPT ![r] = Add(NewRoom(teams), u, kind)]
    /\ roomOf' = [roomOf EXCEPT ![u] = r]
    /\ freeIds' = {i \in freeIds : i > r}
    /\ nextId' = IF freeIds \ Live # {} THEN nextId
                 ELSE IF r = MAX_ROOM_ID THEN 1 ELSE r + 1

(* Variant of Join that lets a user into a room whose race has begun.      *)
JoinAnyPhase(u, r, kind) ==
    /\ roomOf[u] = None
    /\ Admissible(rooms[r], kind)
    /\ rooms' = [rooms EXCEPT ![r] = Add(@, u, kind)]
    /\ roomOf' = [roomOf EXCEPT ![u] = r]
    /\ UNCHANGED <<freeIds, nextId>>

Join(u, r, kind) ==
    /\ rooms[r].phase = "lobby"
    /\ roomOf[u] = None
    /\ Admissible(rooms[r], kind)
    /\ rooms' = [rooms EXCEPT ![r] = Add(@, u, kind)]
    /\ roomOf' = [roomOf EXCEPT ![u] = r]
    /\ UNCHANGED <<freeIds, nextId>>

(* Replace room r by R, or delete it and free its id.                      *)
Put(r, R) == rooms' = [rooms EXCEPT ![r] = R] /\ UNCHANGED <<freeIds, nextId>>
Delete(r) == /\ rooms' = [rooms EXCEPT ![r] = None]
             /\ freeIds' = freeIds \cup {r}
             /\ UNCHANGED nextId

(* remove_protocol_user and plan_protocol_room_exit: a leave, a stage      *)
(* change, a move to another channel or the release of the identity.  A    *)
(* room that empties while its race runs stays until the settlement.       *)
Leave(u) ==
    LET r == roomOf[u] IN
    /\ r # None
    /\ LET R == RemoveUser(rooms[r], u) IN
       IF IsEmpty(R) /\ R.phase # "racing" THEN Delete(r) ELSE Put(r, R)
    /\ roomOf' = [roomOf EXCEPT ![u] = None]

-----------------------------------------------------------------------------
(* Lobby commands by user u of room r.                                     *)
InLobby(u, r) == roomOf[u] = r /\ rooms[r].phase = "lobby"
IsMaster(u, r) == InLobby(u, r) /\ rooms[r].master \in PlayerIds(rooms[r], u)
SeatOf(u, r) == CHOOSE m \in Racers(rooms[r]) : rooms[r].member[m] = u
IsRacer(u, r) == \E m \in Racers(rooms[r]) : rooms[r].member[m] = u

SetSlotState(u, r, ready) ==
    /\ InLobby(u, r)
    /\ IsRacer(u, r)
    /\ Put(r, [rooms[r] EXCEPT !.ready[SeatOf(u, r)] = ready])
    /\ UNCHANGED roomOf

ChangeTeam(u, r, t) ==
    LET R == rooms[r]
        m == SeatOf(u, r)
        free == VacantSlots(R) \cap Half(t) IN
    /\ InLobby(u, r)
    /\ R.teams
    /\ IsRacer(u, r)
    /\ R.team[m] # t
    /\ free # {}
    /\ Put(r, [R EXCEPT !.team[m] = t, !.ready[m] = FALSE,
                        !.slot = [s \in Slots |-> IF s = Min(free) THEN m
                                                  ELSE IF @[s] = m THEN None ELSE @[s]]])
    /\ UNCHANGED roomOf

ChangeMaster(u, r, m) ==
    /\ IsMaster(u, r)
    /\ IsRacer(u, r)
    /\ m \in Racers(rooms[r])
    /\ Put(r, [rooms[r] EXCEPT !.master = m, !.ready[m] = FALSE, !.ready[SeatOf(u, r)] = FALSE])
    /\ UNCHANGED roomOf

(* add_basic_ais: one AI, or one on each team; all of them or none.        *)
AddAi(R, t) ==
    [R EXCEPT !.ai[Min(VacantSeats(R))] = t,
              !.slot[Min(VacantSlots(R) \cap Half(t))] = Min(VacantSeats(R))]
CanAddAi(R, t) == VacantSeats(R) # {} /\ VacantSlots(R) \cap Half(t) # {}

ChangeBasicAi(u, r, m) ==
    LET R == rooms[r] IN
    /\ IsMaster(u, r)
    /\ \/ /\ R.ai[m] # None
          /\ Put(r, [R EXCEPT !.ai[m] = None,
                              !.slot = [s \in Slots |-> IF @[s] = m THEN None ELSE @[s]]])
       \/ /\ R.ai[m] = None /\ ~R.teams
          /\ CanAddAi(R, NoTeam)
          /\ Put(r, AddAi(R, NoTeam))
       \/ /\ R.ai[m] = None /\ R.teams
          /\ CanAddAi(R, Blue) /\ CanAddAi(AddAi(R, Blue), Red)
          /\ Put(r, AddAi(AddAi(R, Blue), Red))
    /\ UNCHANGED roomOf

(* set_close_slots: the (seat, slot) pairs of the request, one (q is not   *)
(* read) or, in team rooms, two, are all valid or nothing changes.         *)
Closable(R, p) == p[1] \in VacantSeats(R) /\ p[2] \in VacantSlots(R)
Openable(R, p) == R.closed[p[1]] = p[2] /\ R.slot[p[2]] = p[1]
Distinct(p, q) == p[1] # q[1] /\ p[2] # q[2]

CloseSlot(R, p) == [R EXCEPT !.closed[p[1]] = p[2], !.slot[p[2]] = p[1]]
OpenSlot(R, p) == [R EXCEPT !.closed[p[1]] = None, !.slot[p[2]] = None]

(* Variant of ChangeClosedSlots that checks the pairs one by one only.     *)
ChangeClosedSlotsSeparately(u, r, p, q) ==
    LET R == rooms[r] IN
    /\ IsMaster(u, r)
    /\ \/ /\ Closable(R, p) /\ (R.teams => Closable(R, q))
          /\ Put(r, IF R.teams THEN CloseSlot(CloseSlot(R, p), q) ELSE CloseSlot(R, p))
       \/ /\ Openable(R, p) /\ (R.teams => Openable(R, q))
          /\ Put(r, IF R.teams THEN OpenSlot(OpenSlot(R, p), q) ELSE OpenSlot(R, p))
    /\ UNCHANGED roomOf

ChangeClosedSlots(u, r, p, q) ==
    LET R == rooms[r] IN
    /\ IsMaster(u, r)
    /\ IF R.teams THEN Distinct(p, q) ELSE q = p
    /\ \/ /\ Closable(R, p) /\ (R.teams => Closable(R, q))
          /\ Put(r, IF R.teams THEN CloseSlot(CloseSlot(R, p), q) ELSE CloseSlot(R, p))
       \/ /\ Openable(R, p) /\ (R.teams => Openable(R, q))
          /\ Put(r, IF R.teams THEN OpenSlot(OpenSlot(R, p), q) ELSE OpenSlot(R, p))
    /\ UNCHANGED roomOf

(* Variant of KickPlayer that forgets the membership index.                *)
KickPlayerIndexed(u, r, m) ==
    /\ IsMaster(u, r)
    /\ m \in Racers(rooms[r])
    /\ LET R == RemoveUser(rooms[r], rooms[r].member[m]) IN
       IF IsEmpty(R) THEN Delete(r) ELSE Put(r, R)
    /\ UNCHANGED roomOf

(* A master may kick itself; the last one out deletes the room.            *)
KickPlayer(u, r, m) ==
    LET target == rooms[r].member[m] IN
    /\ IsMaster(u, r)
    /\ m \in Racers(rooms[r])
    /\ LET R == RemoveUser(rooms[r], target) IN
       IF IsEmpty(R) THEN Delete(r) ELSE Put(r, R)
    /\ roomOf' = [roomOf EXCEPT ![target] = None]

-----------------------------------------------------------------------------
NotReady(R) == [R EXCEPT !.ready = [m \in Seats |-> FALSE]]

(* start_room: every racer but the requesting master is ready.             *)
StartRoom(u, r) ==
    LET R == rooms[r] IN
    /\ IsMaster(u, r)
    /\ Racers(R) # {}
    /\ \A m \in Racers(R) : m = R.master \/ R.ready[m]
    /\ Put(r, [R EXCEPT !.phase = "loading"])
    /\ UNCHANGED roomOf

(* try_start_scheduled_room.                                               *)
BeginRace(r) ==
    /\ rooms[r].phase = "loading"
    /\ Put(r, [rooms[r] EXCEPT !.phase = "racing"])
    /\ UNCHANGED roomOf

(* abort_loading_room: nobody of the frozen roster is left to race, which  *)
(* depends on identity generations that this module does not keep.         *)
AbortLoading(r) ==
    /\ rooms[r].phase = "loading"
    /\ Put(r, [NotReady(rooms[r]) EXCEPT !.phase = "lobby"])
    /\ UNCHANGED roomOf

(* apply_next_grid_ranking and apply_next_lobby_master for the result      *)
(* order of the racers that are still here: a live observer stays master,  *)
(* else the first finisher, in team rooms of the winning team.             *)
Orders(S) == {f \in [S -> 0..(Cardinality(S) - 1)] : \A m, n \in S : f[m] = f[n] => m = n}

NextMaster(R, order, winner) ==
    LET candidates == {m \in Racers(R) : R.teams => R.team[m] = winner} IN
    IF R.master >= ROOM_SLOT_COUNT \/ candidates = {} THEN R.master
    ELSE CHOOSE m \in candidates : \A n \in candidates : order[m] <= order[n]

(* try_finalize_settlement.                                                *)
EndRace(r, order, winner) ==
    LET R == rooms[r] IN
    /\ R.phase = "racing"
    /\ IF IsEmpty(R) THEN Delete(r)
       ELSE Put(r, [NotReady(R) EXCEPT
                      !.phase = "lobby",
                      !.master = NextMaster(R, order, winner),
                      !.rank = [m \in Seats |-> IF m \in Racers(R) THEN order[m] ELSE 0]])
    /\ UNCHANGED roomOf

-----------------------------------------------------------------------------
Kinds == {"racer", "observer", "observer master"}

Command(u, r) ==
    \/ \E ready \in BOOLEAN : SetSlotState(u, r, ready)
    \/ \E t \in {Red, Blue} : ChangeTeam(u, r, t)
    \/ \E m \in Seats : ChangeMaster(u, r, m) \/ ChangeBasicAi(u, r, m) \/ KickPlayer(u, r, m)
    \/ IsMaster(u, r) /\ \E p, q \in Seats \X Slots : ChangeClosedSlots(u, r, p, q)
    \/ StartRoom(u, r)

Next == \/ \E u \in Users, kind \in Kinds : \/ \E teams \in BOOLEAN : Create(u, teams, kind)
                                            \/ \E r \in Live : Join(u, r, kind)
        \/ \E u \in Users : Leave(u)
        \/ \E u \in Users, r \in Live : Command(u, r)
        \/ \E r \in Live : \/ BeginRace(r) \/ AbortLoading(r)
                           \/ \E order \in Orders(Racers(rooms[r])), winner \in {Red, Blue} :
                                 EndRace(r, order, winner)

Spec == Init /\ [][Next]_vars

-----------------------------------------------------------------------------
(* Every table is well formed.                                             *)
TypeOK == /\ rooms \in [RoomIds -> Room \cup {None}]
          /\ roomOf \in [Users -> RoomIds \cup {None}]
          /\ freeIds \in SUBSET RoomIds
          /\ nextId \in RoomIds

(* The parallel arrays of a room agree: a seat has at most one occupant,   *)
(* an occupied seat has exactly one slot, a free seat none, and a closed   *)
(* seat is in the slot it closed ("every actor-owned AI occupies one       *)
(* physical room slot", and the unwraps behind it); in a team room every   *)
(* racer and AI stands in the half of its team, in the others nobody has   *)
(* a team.                                                                 *)
SeatsConsistent ==
    \A r \in Live : LET R == rooms[r] IN
        /\ \A m \in Seats :
            /\ Cardinality({k \in {"member", "ai", "closed"} : R[k][m] # None}) <= 1
            /\ Cardinality({s \in Slots : R.slot[s] = m}) = IF m \in VacantSeats(R) THEN 0 ELSE 1
            /\ R.closed[m] # None => R.slot[R.closed[m]] = m
        /\ \A m \in Seats, s \in Slots :
            R.slot[s] = m /\ R.closed[m] = None =>
                LET t == IF R.ai[m] # None THEN R.ai[m] ELSE R.team[m]
                IN  (t = NoTeam <=> ~R.teams) /\ s \in Half(t)

(* The membership index, the rooms and the id allocator agree: a user sits *)
(* in one place of one room, an index entry never outlives its room or its *)
(* seat, no room is left without users outside of its own race, a freed id *)
(* belongs to no room and the id counter has wrapped before it left u16.   *)
DirectoryAgrees ==
    /\ \A u \in Users :
        /\ roomOf[u] # None => roomOf[u] \in Live
        /\ \A r \in Live : Cardinality(PlayerIds(rooms[r], u)) = IF roomOf[u] = r THEN 1 ELSE 0
    /\ \A r \in Live : IsEmpty(rooms[r]) => rooms[r].phase = "racing"
    /\ freeIds \cap Live = {} /\ nextId \in RoomIds

(* A populated room has a live master, so somebody can always start, kick  *)
(* or change it; only a room of plain observers may have the placeholder.  *)
MasterLives ==
    \A r \in Live : LET R == rooms[r] IN
        ~IsEmpty(R) => Seated(R, R.master) \/ (Racers(R) = {} /\ R.master = 0)

(* The grid order of the racers has no gap and no tie.                     *)
RanksArePermutation ==
    \A r \in Live : LET R == rooms[r] IN
        {R.rank[m] : m \in Racers(R)} = 0..(Cardinality(Racers(R)) - 1)

(* While a race is on its roster only shrinks: nobody enters, and those    *)
(* who stay keep the seat, slot and team that the frozen roster recorded.  *)
RosterOnlyShrinks ==
    [][\A r \in RoomIds :
          rooms[r] # None /\ rooms'[r] # None /\ rooms[r].phase # "lobby" =>
             /\ \A m \in Seats : rooms'[r].member[m] \in {rooms[r].member[m], None}
             /\ \A o \in Booths : rooms'[r].observer[o] \in {rooms[r].observer[o], None}
             /\ \A s \in Slots : LET m == rooms[r].slot[s] IN
                   m \in Seats => \/ rooms'[r].slot[s] = m
                                  \/ rooms'[r].member[m] # rooms[r].member[m]
             /\ rooms'[r].ai = rooms[r].ai /\ rooms'[r].closed = rooms[r].closed]_vars
=============================================================================

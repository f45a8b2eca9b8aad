------------------------- MODULE ProtocolRoomsProofs -------------------------
(***************************************************************************)
(* Proofs about ProtocolRooms for any number of users, rooms, seats and    *)
(* booths.  A room's methods are operators from a room to a room, so the   *)
(* invariant is mostly one of a single room (RoomInv), kept by every       *)
(* method; what a command does to the directory is shown once (Settles).   *)
(***************************************************************************)
EXTENDS ProtocolRooms, FiniteSetTheorems, WellFoundedInduction, TLAPS

-----------------------------------------------------------------------------
(* Numbers.                                                                *)
LEMMA Sizes ==
    /\ ROOM_SLOT_COUNT \in Nat \ {0} /\ ROOM_OBSERVER_COUNT \in Nat
    /\ MAX_ROOM_ID \in Nat \ {0}
    /\ None \notin Users /\ None \notin Int /\ None \notin Room
BY RoomsAssumption DEF RoomsAssumption

LEMMA MinBelongs ==
    ASSUME NEW S, S \subseteq Nat, S # {}
    PROVE  Min(S) \in S /\ \A y \in S : Min(S) <= y
<1>1. PICK x \in S : \A y \in S : ~(<<y, x>> \in OpToRel(<, Nat))
  BY NatLessThanWellFounded, WFMin
<1>2. ASSUME NEW y \in S PROVE x <= y
  <2>1. <<y, x>> \notin {ss \in Nat \X Nat : ss[1] < ss[2]}
    BY <1>1, Zenon DEF OpToRel
  <2> QED
    BY <2>1
<1>3. \E z \in S : \A y \in S : z <= y
  BY <1>2
<1> QED
  BY <1>3 DEF Min

LEMMA Halves == /\ Half(NoTeam) = Slots /\ Half(Blue) \subseteq Slots /\ Half(Red) \subseteq Slots
                /\ Half(Blue) \cup Half(Red) = Slots
<1>1. Half(NoTeam) = Slots
  BY DEF Half, NoTeam, Red, Blue
<1>2. Half(Blue) = {s \in Slots : s < ROOM_SLOT_COUNT \div 2}
  BY DEF Half, Red, Blue
<1>3. Half(Red) = {s \in Slots : s >= ROOM_SLOT_COUNT \div 2}
  BY DEF Half, Red, Blue
<1>4. \A s \in Slots : s < ROOM_SLOT_COUNT \div 2 \/ s >= ROOM_SLOT_COUNT \div 2
  BY Sizes DEF Slots
<1> QED
  BY <1>1, <1>2, <1>3, <1>4

-----------------------------------------------------------------------------
(* The invariant of one room.                                              *)

Occupied(R, m) == R.member[m] # None \/ R.ai[m] # None \/ R.closed[m] # None
TeamOf(R, m) == IF R.ai[m] # None THEN R.ai[m] ELSE R.team[m]

(* A seat has at most one occupant, an occupied one has one slot, a free   *)
(* one none, and a closed one the slot that was closed with it.            *)
OneOccupant(R) == \A m \in Seats :
    /\ R.member[m] # None => R.ai[m] = None /\ R.closed[m] = None
    /\ R.ai[m] # None => R.closed[m] = None
Slotted(R) ==
    /\ \A s \in Slots : R.slot[s] # None => Occupied(R, R.slot[s])
    /\ \A s, t \in Slots : R.slot[s] # None /\ R.slot[s] = R.slot[t] => s = t
    /\ \A m \in Seats : Occupied(R, m) => \E s \in Slots : R.slot[s] = m
    /\ \A m \in Seats : R.closed[m] # None => R.slot[R.closed[m]] = m

(* Who stands in a slot stands in the half of its team.                    *)
Fits(R, t, s) == (t = NoTeam <=> ~R.teams) /\ s \in Half(t)
Teamed(R) == \A s \in Slots : LET m == R.slot[s] IN
    m # None /\ R.closed[m] = None => Fits(R, TeamOf(R, m), s)

(* Nobody sits in two places.                                              *)
Apart(R) ==
    /\ \A m, n \in Seats : R.member[m] # None /\ R.member[m] = R.member[n] => m = n
    /\ \A o, p \in Booths : R.observer[o] # None /\ R.observer[o] = R.observer[p] => o = p
    /\ \A m \in Seats, o \in Booths : R.member[m] # None => R.member[m] # R.observer[o]

(* A populated room has a master, or is one of plain observers.            *)
Led(R) == ~IsEmpty(R) => Seated(R, R.master) \/ (Racers(R) = {} /\ R.master = 0)

(* The ranks of the racers are distinct and have no gap.                   *)
Ranked(R) ==
    /\ \A m, n \in Racers(R) : R.rank[m] = R.rank[n] => m = n
    /\ {R.rank[m] : m \in Racers(R)} = 0..(Cardinality(Racers(R)) - 1)

SeatInv(R) == OneOccupant(R) /\ Slotted(R) /\ Teamed(R)
RoomInv(R) == R \in Room /\ SeatInv(R) /\ Apart(R) /\ Led(R) /\ Ranked(R)

(* The users in a room.                                                    *)
Inside(R) == {u \in Users : \/ \E m \in Seats : R.member[m] = u
                            \/ \E o \in Booths : R.observer[o] = u}

-----------------------------------------------------------------------------
(* add_participant, for a racer.                                           *)
LEMMA AdmissionFits ==
    ASSUME NEW R \in Room, HasSeat(R)
    PROVE  /\ AdmissionTeam(R) \in {NoTeam, Red, Blue}
           /\ AdmissionTeam(R) = NoTeam <=> ~R.teams
           /\ VacantSlots(R) \cap Half(AdmissionTeam(R)) # {}
<1>1. VacantSlots(R) \subseteq Slots /\ VacantSlots(R) # {}
  BY DEF HasSeat, VacantSlots
<1>2. CASE ~R.teams
  <2>1. AdmissionTeam(R) = NoTeam
    BY <1>2 DEF AdmissionTeam
  <2> QED
    BY <1>1, <1>2, <2>1, Halves
<1>3. CASE R.teams
  <2>1. \/ AdmissionTeam(R) = Blue /\ (VacantSlots(R) \cap Half(Blue) # {} \/ VacantSlots(R) \cap Half(Red) = {})
        \/ AdmissionTeam(R) = Red /\ (VacantSlots(R) \cap Half(Red) # {} \/ VacantSlots(R) \cap Half(Blue) = {})
    BY <1>3 DEF AdmissionTeam, Blue, Red
  <2> QED
    BY <1>1, <1>3, <2>1, Halves DEF NoTeam, Red, Blue
<1> QED
  BY <1>2, <1>3

LEMMA RacersCount ==
    ASSUME NEW R
    PROVE  /\ Racers(R) \subseteq Seats /\ IsFiniteSet(Racers(R))
           /\ Cardinality(Racers(R)) \in 0..ROOM_SLOT_COUNT
           /\ \A m \in Seats : R.member[m] = None => Cardinality(Racers(R)) \in 0..(ROOM_SLOT_COUNT - 1)
<1>1. IsFiniteSet(Seats) /\ Cardinality(Seats) = ROOM_SLOT_COUNT
  BY Sizes, FS_Interval DEF Seats
<1>2. Racers(R) \subseteq Seats
  BY DEF Racers
<1>3. IsFiniteSet(Racers(R)) /\ Cardinality(Racers(R)) <= ROOM_SLOT_COUNT
  BY <1>1, <1>2, FS_Subset
<1>4. Cardinality(Racers(R)) \in Nat
  BY <1>3, FS_CardinalityType
<1>5. ASSUME NEW m \in Seats, R.member[m] = None
      PROVE  Cardinality(Racers(R)) # ROOM_SLOT_COUNT
  BY <1>1, <1>2, <1>5, FS_Subset DEF Racers
<1> QED
  BY <1>2, <1>3, <1>4, <1>5, Sizes

LEMMA MasterRange ==
    /\ Seats \subseteq 0..(ROOM_SLOT_COUNT + ROOM_OBSERVER_COUNT - 1)
    /\ \A o \in Booths : ROOM_SLOT_COUNT + o \in 0..(ROOM_SLOT_COUNT + ROOM_OBSERVER_COUNT - 1)
    /\ \A m \in Seats, o \in Booths : m # ROOM_SLOT_COUNT + o /\ m - ROOM_SLOT_COUNT \notin Booths
BY Sizes DEF Seats, Booths

(* What add_participant does for racer u, with a seat, a slot and a team.  *)
RacerAdded(R, P, u, m, s, t) ==
    /\ P.phase = R.phase /\ P.teams = R.teams
    /\ P.ai = R.ai /\ P.closed = R.closed /\ P.observer = R.observer
    /\ P.member = [R.member EXCEPT ![m] = u] /\ P.team = [R.team EXCEPT ![m] = t]
    /\ P.rank = [R.rank EXCEPT ![m] = Cardinality(Racers(R))]
    /\ P.slot = [R.slot EXCEPT ![s] = m]
    /\ P.master = IF Seated(R, R.master) THEN R.master ELSE m
    /\ Fits(R, t, s)
    /\ P \in Room

LEMMA AddRacerIs ==
    ASSUME NEW R \in Room, HasSeat(R), NEW u \in Users, NEW P, P = AddRacer(R, u)
    PROVE  \E m \in VacantSeats(R), s \in VacantSlots(R), t \in {NoTeam, Red, Blue} :
             RacerAdded(R, P, u, m, s, t)
<1> DEFINE m == Min(VacantSeats(R))
           t == AdmissionTeam(R)
           s == Min(VacantSlots(R) \cap Half(t))
           master == IF Seated(R, R.master) THEN R.master ELSE m
           rank == Cardinality(Racers(R))
<1>1. m \in VacantSeats(R)
  <2>1. VacantSeats(R) \subseteq Nat /\ VacantSeats(R) # {}
    BY Sizes DEF HasSeat, VacantSeats, Seats
  <2> QED
    BY <2>1, MinBelongs
<1>2. t \in {NoTeam, Red, Blue} /\ (t = NoTeam <=> ~R.teams) /\ VacantSlots(R) \cap Half(t) # {}
  BY AdmissionFits
<1>3. s \in VacantSlots(R) \cap Half(t)
  <2>1. VacantSlots(R) \cap Half(t) \subseteq Nat
    BY Sizes DEF VacantSlots, Slots
  <2> QED
    BY <1>2, <2>1, MinBelongs
<1>4. P = [R EXCEPT !.member[m] = u, !.team[m] = t, !.ready[m] = FALSE,
                    !.rank[m] = rank, !.slot[s] = m, !.master = master]
  BY DEF AddRacer
<1> HIDE DEF m, t, s, master, rank
<1>5. /\ P.phase = R.phase /\ P.teams = R.teams
      /\ P.ai = R.ai /\ P.closed = R.closed /\ P.observer = R.observer
      /\ P.member = [R.member EXCEPT ![m] = u] /\ P.team = [R.team EXCEPT ![m] = t]
      /\ P.ready = [R.ready EXCEPT ![m] = FALSE]
      /\ P.rank = [R.rank EXCEPT ![m] = rank]
      /\ P.slot = [R.slot EXCEPT ![s] = m]
      /\ P.master = master
  BY <1>4 DEF Room
<1>6. P \in Room
  <2>1. m \in Seats /\ s \in Slots /\ R.member[m] = None
    BY <1>1, <1>3 DEF VacantSeats, VacantSlots
  <2>2. rank \in 0..(ROOM_SLOT_COUNT - 1)
    BY <2>1, RacersCount DEF rank
  <2>3. master \in -1..(ROOM_SLOT_COUNT + ROOM_OBSERVER_COUNT - 1)
    <3>1. R.master \in -1..(ROOM_SLOT_COUNT + ROOM_OBSERVER_COUNT - 1)
      BY DEF Room
    <3>2. m \in -1..(ROOM_SLOT_COUNT + ROOM_OBSERVER_COUNT - 1)
      BY <2>1, Sizes DEF Seats
    <3> QED
      BY <3>1, <3>2 DEF master
  <2>4. t \in {NoTeam, Red, Blue}
    BY <1>2
  <2>5. [R EXCEPT !.member[m] = u, !.team[m] = t, !.ready[m] = FALSE,
                  !.rank[m] = rank, !.slot[s] = m, !.master = master] \in Room
    BY <2>1, <2>2, <2>3, <2>4 DEF Room
  <2> QED
    BY <1>4, <2>5, Zenon
<1> QED
  BY <1>1, <1>2, <1>3, <1>5, <1>6 DEF Fits, master, rank, RacerAdded

(* A new occupant of a free seat and a free slot.                          *)
LEMMA OccupyKeepsSeats ==
    ASSUME NEW R \in Room, SeatInv(R), NEW P \in Room,
           NEW m \in VacantSeats(R), NEW s \in VacantSlots(R),
           P.slot = [R.slot EXCEPT ![s] = m], P.teams = R.teams,
           \A n \in Seats \ {m} : /\ P.member[n] = R.member[n] /\ P.ai[n] = R.ai[n]
                                  /\ P.closed[n] = R.closed[n] /\ P.team[n] = R.team[n],
           \/ P.member[m] # None /\ P.ai[m] = None /\ P.closed[m] = None
           \/ P.member[m] = None /\ P.ai[m] # None /\ P.closed[m] = None
           \/ P.member[m] = None /\ P.ai[m] = None /\ P.closed[m] = s,
           P.closed[m] = None => Fits(R, TeamOf(P, m), s)
    PROVE  SeatInv(P)
<1>1. /\ m \in Seats /\ s \in Slots /\ ~Occupied(R, m) /\ R.slot[s] = None
      /\ m # None /\ s # None
  BY Sizes DEF VacantSeats, VacantSlots, Occupied, Seats, Slots
<1>2. /\ P.slot[s] = m /\ \A t \in Slots : t # s => P.slot[t] = R.slot[t]
      /\ \A t \in Slots : R.slot[t] \in Seats \cup {None}
      /\ \A t \in Slots : R.slot[t] # m
  <2>1. R.slot \in [Slots -> Seats \cup {None}]
    BY DEF Room
  <2> QED
    BY <1>1, <2>1 DEF SeatInv, Slotted
<1>3. Occupied(P, m) /\ \A n \in Seats : n # m => (Occupied(P, n) <=> Occupied(R, n))
  BY <1>1 DEF Occupied
<1>4. OneOccupant(P)
  <2>1. \A n \in Seats : n # m => /\ P.member[n] # None => P.ai[n] = None /\ P.closed[n] = None
                                  /\ P.ai[n] # None => P.closed[n] = None
    BY DEF SeatInv, OneOccupant
  <2> QED
    BY <2>1 DEF OneOccupant
<1>5. Slotted(P)
  <2>1. \A t \in Slots : P.slot[t] # None => Occupied(P, P.slot[t])
    BY <1>1, <1>2, <1>3 DEF SeatInv, Slotted
  <2>2. \A t, v \in Slots : P.slot[t] # None /\ P.slot[t] = P.slot[v] => t = v
    BY <1>1, <1>2 DEF SeatInv, Slotted
  <2>3. \A n \in Seats : Occupied(P, n) => \E t \in Slots : P.slot[t] = n
    <3> SUFFICES ASSUME NEW n \in Seats, Occupied(P, n) PROVE \E t \in Slots : P.slot[t] = n
      OBVIOUS
    <3>1. CASE n = m
      BY <1>1, <1>2, <3>1
    <3>2. CASE n # m
      <4>1. PICK t \in Slots : R.slot[t] = n
        BY <1>3, <3>2 DEF SeatInv, Slotted
      <4>2. t # s /\ P.slot[t] = n
        BY <1>1, <1>2, <4>1, Sizes DEF Seats
      <4> QED
        BY <4>2
    <3> QED
      BY <3>1, <3>2
  <2>4. \A n \in Seats : P.closed[n] # None => P.slot[P.closed[n]] = n
    <3> SUFFICES ASSUME NEW n \in Seats, P.closed[n] # None PROVE P.slot[P.closed[n]] = n
      OBVIOUS
    <3>1. CASE n = m
      BY <1>2, <3>1
    <3>2. CASE n # m
      <4>1. R.closed[n] \in Slots /\ P.closed[n] = R.closed[n]
        BY <3>2 DEF Room
      <4>2. R.slot[R.closed[n]] = n
        BY <3>2, <4>1 DEF SeatInv, Slotted
      <4> QED
        BY <1>1, <1>2, <4>1, <4>2, Sizes DEF Seats
    <3> QED
      BY <3>1, <3>2
  <2> QED
    BY <2>1, <2>2, <2>3, <2>4 DEF Slotted
<1>6. Teamed(P)
  <2> SUFFICES ASSUME NEW v \in Slots, P.slot[v] # None, P.closed[P.slot[v]] = None
               PROVE  Fits(P, TeamOf(P, P.slot[v]), v)
    BY DEF Teamed
  <2>1. CASE v = s
    BY <1>2, <2>1 DEF Fits
  <2>2. CASE v # s
    <3>1. P.slot[v] = R.slot[v] /\ R.slot[v] \in Seats \ {m}
      BY <1>2, <2>2
    <3>2. Fits(R, TeamOf(R, R.slot[v]), v)
      BY <3>1 DEF SeatInv, Teamed
    <3> QED
      BY <3>1, <3>2 DEF Fits, TeamOf
  <2> QED
    BY <2>1, <2>2
<1> QED
  BY <1>4, <1>5, <1>6 DEF SeatInv

(* The ranks depend on the racers and their ranks only.                    *)
LEMMA SameRanks ==
    ASSUME NEW R, NEW P, Ranked(R), Racers(P) = Racers(R),
           \A m \in Racers(R) : P.rank[m] = R.rank[m]
    PROVE  Ranked(P)
<1>1. {P.rank[m] : m \in Racers(P)} = {R.rank[m] : m \in Racers(R)}
  OBVIOUS
<1> QED
  BY <1>1 DEF Ranked

LEMMA NewRank ==
    ASSUME NEW R, Ranked(R), NEW P, NEW m, m \notin Racers(R), Racers(P) = Racers(R) \cup {m},
           P.rank[m] = Cardinality(Racers(R)),
           \A n \in Racers(R) : P.rank[n] = R.rank[n]
    PROVE  Ranked(P)
<1> DEFINE c == Cardinality(Racers(R))
<1>1. c \in Nat /\ Cardinality(Racers(P)) = c + 1
  <2>1. IsFiniteSet(Racers(R))
    BY RacersCount
  <2> QED
    BY <2>1, FS_AddElement, FS_CardinalityType
<1>2. \A n \in Racers(R) : R.rank[n] \in 0..(c - 1)
  BY DEF Ranked
<1> HIDE DEF c
<1>3. \A n \in Racers(R) : R.rank[n] # c
  BY <1>1, <1>2
<1>4. \A k, n \in Racers(P) : P.rank[k] = P.rank[n] => k = n
  BY <1>3 DEF Ranked, c
<1>5. {P.rank[n] : n \in Racers(P)} = 0..c
  <2>1. {P.rank[n] : n \in Racers(P)} = {R.rank[n] : n \in Racers(R)} \cup {c}
    BY DEF c
  <2>2. {R.rank[n] : n \in Racers(R)} = 0..(c - 1)
    BY DEF Ranked, c
  <2>3. (0..(c - 1)) \cup {c} = 0..c
    BY <1>1
  <2> QED
    BY <2>1, <2>2, <2>3
<1> QED
  BY <1>1, <1>4, <1>5 DEF Ranked

LEMMA AddRacerInv ==
    ASSUME NEW R, RoomInv(R), HasSeat(R), NEW u \in Users, u \notin Inside(R),
           NEW P, P = AddRacer(R, u)
    PROVE  RoomInv(P) /\ Inside(P) = Inside(R) \cup {u} /\ P.phase = R.phase
<1>0. R \in Room
  BY DEF RoomInv
<1>a. PICK m \in VacantSeats(R), s \in VacantSlots(R), t \in {NoTeam, Red, Blue} :
          RacerAdded(R, P, u, m, s, t)
  BY <1>0, AddRacerIs
<1>1. /\ P.phase = R.phase /\ P.teams = R.teams
      /\ P.ai = R.ai /\ P.closed = R.closed /\ P.observer = R.observer
      /\ P.member = [R.member EXCEPT ![m] = u] /\ P.team = [R.team EXCEPT ![m] = t]
      /\ P.rank = [R.rank EXCEPT ![m] = Cardinality(Racers(R))]
      /\ P.slot = [R.slot EXCEPT ![s] = m]
      /\ P.master = IF Seated(R, R.master) THEN R.master ELSE m
      /\ Fits(R, t, s)
      /\ P \in Room
  BY <1>a DEF RacerAdded
<1>2. /\ m \in Seats /\ R.member[m] = None /\ R.ai[m] = None /\ R.closed[m] = None
      /\ P.member[m] = u /\ P.team[m] = t /\ P.rank[m] = Cardinality(Racers(R))
      /\ \A n \in Seats \ {m} : /\ P.member[n] = R.member[n] /\ P.team[n] = R.team[n]
                                /\ P.rank[n] = R.rank[n]
  BY <1>0, <1>1 DEF VacantSeats, Room
<1>3. u # None
  BY Sizes
<1>4. SeatInv(P)
  <2>1. SeatInv(R)
    BY DEF RoomInv
  <2>2. Fits(R, TeamOf(P, m), s)
    BY <1>1, <1>2 DEF TeamOf
  <2>3. \A n \in Seats \ {m} : /\ P.member[n] = R.member[n] /\ P.ai[n] = R.ai[n]
                               /\ P.closed[n] = R.closed[n] /\ P.team[n] = R.team[n]
    BY <1>1, <1>2
  <2>4. P.member[m] # None /\ P.ai[m] = None /\ P.closed[m] = None
    BY <1>1, <1>2, <1>3
  <2>5. P \in Room /\ P.slot = [R.slot EXCEPT ![s] = m] /\ P.teams = R.teams
    BY <1>1
  <2> QED
    BY <1>0, <2>1, <2>2, <2>3, <2>4, <2>5, OccupyKeepsSeats
<1>5. Racers(P) = Racers(R) \cup {m} /\ m \notin Racers(R) /\ Watchers(P) = Watchers(R)
  BY <1>1, <1>2, <1>3 DEF Racers, Watchers
<1>6. Apart(P)
  <2>1. \A n \in Seats : R.member[n] # u
    BY DEF Inside
  <2>2. \A o \in Booths : R.observer[o] # u
    BY DEF Inside
  <2> QED
    BY <1>1, <1>2, <2>1, <2>2 DEF RoomInv, Apart
<1>7. Led(P)
  BY <1>1, <1>5 DEF Led, Seated
<1>8. Ranked(P)
  BY <1>2, <1>5, NewRank, RacersCount DEF RoomInv
<1>9. Inside(P) = Inside(R) \cup {u}
  <2>1. \A v \in Users : (\E n \in Seats : P.member[n] = v) <=> v = u \/ \E n \in Seats : R.member[n] = v
    BY <1>2, Sizes
  <2> QED
    BY <1>1, <2>1 DEF Inside
<1> QED
  BY <1>1, <1>4, <1>6, <1>7, <1>8, <1>9 DEF RoomInv

-----------------------------------------------------------------------------
(* What the invariant of a room does not see: ready flags, and sometimes   *)
(* the phase, the master or the ranks.                                     *)
Alike(R, P) == /\ P.member = R.member /\ P.team = R.team /\ P.ai = R.ai /\ P.closed = R.closed
               /\ P.slot = R.slot /\ P.observer = R.observer /\ P.teams = R.teams

LEMMA AlikeKeeps ==
    ASSUME NEW R, NEW P, Alike(R, P)
    PROVE  /\ SeatInv(R) => SeatInv(P)
           /\ Apart(R) => Apart(P)
           /\ Racers(P) = Racers(R) /\ Watchers(P) = Watchers(R) /\ Inside(P) = Inside(R)
           /\ IsEmpty(P) <=> IsEmpty(R)
<1>1. SeatInv(R) => SeatInv(P)
  BY DEF SeatInv, OneOccupant, Slotted, Teamed, Occupied, TeamOf, Fits, Alike
<1>2. Apart(R) => Apart(P)
  BY DEF Apart, Alike
<1>3. Racers(P) = Racers(R) /\ Watchers(P) = Watchers(R) /\ Inside(P) = Inside(R)
  BY DEF Racers, Watchers, Inside, Alike
<1> QED
  BY <1>1, <1>2, <1>3 DEF IsEmpty

(* A room whose master and ranks stay as well.                             *)
LEMMA AlikeInv ==
    ASSUME NEW R, RoomInv(R), NEW P \in Room, Alike(R, P), P.master = R.master, P.rank = R.rank
    PROVE  RoomInv(P) /\ Inside(P) = Inside(R)
<1>1. SeatInv(P) /\ Apart(P) /\ Inside(P) = Inside(R)
  BY AlikeKeeps DEF RoomInv
<1>2. Racers(P) = Racers(R) /\ Watchers(P) = Watchers(R) /\ (IsEmpty(P) <=> IsEmpty(R))
  BY AlikeKeeps
<1>3. Led(P)
  BY <1>2 DEF RoomInv, Led, Seated
<1>4. Ranked(P)
  BY <1>2, SameRanks DEF RoomInv
<1> QED
  BY <1>1, <1>3, <1>4 DEF RoomInv

LEMMA InsideMeans ==
    ASSUME NEW R \in Room
    PROVE  IsEmpty(R) <=> Inside(R) = {}
<1>1. R.member \in [Seats -> Users \cup {None}] /\ R.observer \in [Booths -> Users \cup {None}]
  BY DEF Room
<1>2. ASSUME IsEmpty(R) PROVE Inside(R) = {}
  BY <1>1, <1>2, Sizes DEF IsEmpty, Inside, Racers, Watchers
<1>3. ASSUME Inside(R) = {} PROVE Racers(R) = {} /\ Watchers(R) = {}
  BY <1>1, <1>3 DEF Inside, Racers, Watchers
<1> QED
  BY <1>2, <1>3 DEF IsEmpty

(* A new room, and an observer's booth.                                    *)
LEMMA NewRoomInv ==
    ASSUME NEW teams \in BOOLEAN, NEW R, R = NewRoom(teams)
    PROVE  RoomInv(R) /\ Inside(R) = {} /\ R.phase = "lobby"
<1>1. R \in Room
  BY Sizes DEF NewRoom, Room, Seats, Slots, Booths, NoTeam
<1>2. /\ R.phase = "lobby" /\ R.teams = teams /\ R.member = [m \in Seats |-> None]
      /\ R.ai = [m \in Seats |-> None] /\ R.closed = [m \in Seats |-> None]
      /\ R.observer = [o \in Booths |-> None] /\ R.slot = [s \in Slots |-> None]
  BY DEF NewRoom
<1>3. Racers(R) = {} /\ Watchers(R) = {} /\ IsEmpty(R)
  BY <1>2 DEF Racers, Watchers, IsEmpty
<1>4. SeatInv(R)
  BY <1>2 DEF SeatInv, OneOccupant, Slotted, Teamed, Occupied
<1>5. Apart(R) /\ Led(R)
  BY <1>2, <1>3 DEF Apart, Led
<1>6. Ranked(R)
  <2>1. 0..(Cardinality(Racers(R)) - 1) = {}
    BY <1>3, FS_EmptySet
  <2> QED
    BY <1>3, <2>1 DEF Ranked
<1> QED
  BY <1>1, <1>2, <1>3, <1>4, <1>5, <1>6, InsideMeans DEF RoomInv

LEMMA AddObserverInv ==
    ASSUME NEW R, RoomInv(R), HasBooth(R), NEW u \in Users, u \notin Inside(R),
           NEW takesOver \in BOOLEAN, NEW P, P = AddObserver(R, u, takesOver),
           Racers(R) # {} \/ R.master = 0 \/ Seated(R, R.master)
    PROVE  RoomInv(P) /\ Inside(P) = Inside(R) \cup {u} /\ P.phase = R.phase
<1> DEFINE o == Min(Booths \ Watchers(R))
           master == IF takesOver THEN ROOM_SLOT_COUNT + o ELSE R.master
<1>1. o \in Booths /\ R.observer[o] = None
  <2>1. Booths \ Watchers(R) \subseteq Nat /\ Booths \ Watchers(R) # {}
    BY Sizes DEF HasBooth, Watchers, Booths
  <2>2. o \in Booths \ Watchers(R)
    BY <2>1, MinBelongs
  <2> QED
    BY <2>2 DEF Watchers
<1>2. P = [R EXCEPT !.observer[o] = u, !.master = master] /\ R \in Room
  BY DEF AddObserver, RoomInv
<1>3. master \in -1..(ROOM_SLOT_COUNT + ROOM_OBSERVER_COUNT - 1)
  BY <1>1, <1>2, Sizes DEF Room, Booths
<1>m. master = IF takesOver THEN ROOM_SLOT_COUNT + o ELSE R.master
  OBVIOUS
<1> HIDE DEF o, master
<1>4. P \in Room
  <2>1. [R EXCEPT !.observer[o] = u, !.master = master] \in Room
    BY <1>1, <1>2, <1>3 DEF Room
  <2> QED
    BY <1>2, <2>1, Zenon
<1>5. /\ P.member = R.member /\ P.team = R.team /\ P.ai = R.ai /\ P.closed = R.closed
      /\ P.slot = R.slot /\ P.teams = R.teams /\ P.phase = R.phase /\ P.rank = R.rank
      /\ P.observer = [R.observer EXCEPT ![o] = u] /\ P.master = master
  BY <1>2 DEF Room
<1>6. P.observer[o] = u /\ \A p \in Booths \ {o} : P.observer[p] = R.observer[p]
  BY <1>1, <1>2, <1>5 DEF Room
<1>7. SeatInv(P)
  BY <1>5 DEF RoomInv, SeatInv, OneOccupant, Slotted, Teamed, Occupied, TeamOf, Fits
<1>8. Racers(P) = Racers(R) /\ Watchers(P) = Watchers(R) \cup {o}
  BY <1>1, <1>5, <1>6, Sizes DEF Racers, Watchers
<1>9. Apart(P)
  <2>1. (\A m \in Seats : R.member[m] # u) /\ (\A p \in Booths : R.observer[p] # u)
    BY DEF Inside
  <2> QED
    BY <1>1, <1>5, <1>6, <2>1 DEF RoomInv, Apart
<1>10. Led(P)
  <2>1. CASE takesOver
    <3>1. (ROOM_SLOT_COUNT + o) - ROOM_SLOT_COUNT = o
      BY <1>1, Sizes DEF Booths
    <3> QED
      BY <1>5, <1>8, <1>m, <2>1, <3>1 DEF Led, Seated
  <2>2. CASE ~takesOver
    <3>1. Seated(R, R.master) \/ (Racers(R) = {} /\ R.master = 0)
      BY DEF RoomInv, Led, IsEmpty
    <3> QED
      BY <1>5, <1>8, <1>m, <2>2, <3>1 DEF Led, Seated
  <2> QED
    BY <2>1, <2>2
<1>11. Ranked(P)
  BY <1>5, <1>8, SameRanks DEF RoomInv
<1>12. Inside(P) = Inside(R) \cup {u}
  <2>1. \A v \in Users : (\E p \in Booths : P.observer[p] = v) <=> v = u \/ \E p \in Booths : R.observer[p] = v
    BY <1>1, <1>6, Sizes
  <2> QED
    BY <1>5, <2>1 DEF Inside
<1> QED
  BY <1>4, <1>5, <1>7, <1>9, <1>10, <1>11, <1>12 DEF RoomInv

-----------------------------------------------------------------------------
(* The occupant of a seat goes, with its slot.                             *)
LEMMA VacateKeepsSeats ==
    ASSUME NEW R \in Room, SeatInv(R), NEW P, NEW m \in Seats,
           P.slot = [s \in Slots |-> IF R.slot[s] = m THEN None ELSE R.slot[s]],
           P.teams = R.teams,
           P.member[m] = None, P.ai[m] = None, P.closed[m] = None,
           \A n \in Seats \ {m} : /\ P.member[n] = R.member[n] /\ P.ai[n] = R.ai[n]
                                  /\ P.closed[n] = R.closed[n] /\ P.team[n] = R.team[n]
    PROVE  SeatInv(P)
<1>1. /\ \A s \in Slots : P.slot[s] = IF R.slot[s] = m THEN None ELSE R.slot[s]
      /\ \A s \in Slots : R.slot[s] \in Seats \cup {None}
      /\ \A n \in Seats : R.closed[n] \in Slots \cup {None} /\ n # None
  BY Sizes DEF Room, Seats
<1>2. ~Occupied(P, m) /\ \A n \in Seats : n # m => (Occupied(P, n) <=> Occupied(R, n))
  BY DEF Occupied
<1>3. OneOccupant(P)
  BY DEF SeatInv, OneOccupant
<1>4. Slotted(P)
  <2>1. \A s \in Slots : P.slot[s] # None => Occupied(P, P.slot[s])
    BY <1>1, <1>2 DEF SeatInv, Slotted
  <2>2. \A s, t \in Slots : P.slot[s] # None /\ P.slot[s] = P.slot[t] => s = t
    BY <1>1 DEF SeatInv, Slotted
  <2>3. \A n \in Seats : Occupied(P, n) => \E s \in Slots : P.slot[s] = n
    BY <1>1, <1>2 DEF SeatInv, Slotted
  <2>4. \A n \in Seats : P.closed[n] # None => P.slot[P.closed[n]] = n
    <3> SUFFICES ASSUME NEW n \in Seats, P.closed[n] # None PROVE P.slot[P.closed[n]] = n
      OBVIOUS
    <3>1. n # m /\ P.closed[n] = R.closed[n] /\ R.closed[n] \in Slots
      BY <1>1
    <3>2. R.slot[R.closed[n]] = n
      BY <3>1 DEF SeatInv, Slotted
    <3> QED
      BY <1>1, <3>1, <3>2
  <2> QED
    BY <2>1, <2>2, <2>3, <2>4 DEF Slotted
<1>5. Teamed(P)
  <2> SUFFICES ASSUME NEW s \in Slots, P.slot[s] # None, P.closed[P.slot[s]] = None
               PROVE  Fits(P, TeamOf(P, P.slot[s]), s)
    BY DEF Teamed
  <2>1. P.slot[s] = R.slot[s] /\ R.slot[s] \in Seats \ {m}
    BY <1>1
  <2>2. Fits(R, TeamOf(R, R.slot[s]), s)
    BY <2>1 DEF SeatInv, Teamed
  <2> QED
    BY <2>1, <2>2 DEF Fits, TeamOf
<1> QED
  BY <1>3, <1>4, <1>5 DEF SeatInv

(* Seat m is free in P and nothing else differs but its flags.             *)
Vacated(R, P, m) ==
    /\ P \in Room
    /\ P.member = [R.member EXCEPT ![m] = None] /\ P.team = [R.team EXCEPT ![m] = NoTeam]
    /\ P.slot = [s \in Slots |-> IF R.slot[s] = m THEN None ELSE R.slot[s]]
    /\ P.ai = R.ai /\ P.closed = R.closed /\ P.observer = R.observer /\ P.teams = R.teams
    /\ P.rank = R.rank /\ P.master = R.master /\ P.phase = R.phase

LEMMA UnseatIs ==
    ASSUME NEW R \in Room, NEW m \in Seats, NEW P, P = Unseat(R, m)
    PROVE  Vacated(R, P, m)
<1> DEFINE slot == [s \in Slots |-> IF R.slot[s] = m THEN None ELSE R.slot[s]]
<1>1. P = [R EXCEPT !.member[m] = None, !.team[m] = NoTeam, !.ready[m] = FALSE, !.slot = slot]
  BY DEF Unseat
<1>2. slot \in [Slots -> Seats \cup {None}]
  BY DEF Room
<1> HIDE DEF slot
<1>3. [R EXCEPT !.member[m] = None, !.team[m] = NoTeam, !.ready[m] = FALSE, !.slot = slot] \in Room
  BY <1>2 DEF Room
<1>4. P \in Room
  BY <1>1, <1>3, Zenon
<1>5. /\ P.member = [R.member EXCEPT ![m] = None] /\ P.team = [R.team EXCEPT ![m] = NoTeam]
      /\ P.slot = slot
      /\ P.ai = R.ai /\ P.closed = R.closed /\ P.observer = R.observer /\ P.teams = R.teams
      /\ P.rank = R.rank /\ P.master = R.master /\ P.phase = R.phase
  BY <1>1 DEF Room
<1> QED
  BY <1>4, <1>5 DEF slot, Vacated

LEMMA AssignIs ==
    ASSUME NEW R \in Room, NEW P, P = AssignNextMaster(R)
    PROVE  /\ P \in Room /\ Alike(R, P) /\ P.rank = R.rank /\ P.phase = R.phase
           /\ ~IsEmpty(R) => Seated(R, P.master)
<1>1. CASE Racers(R) # {}
  <2> DEFINE m == Min(Racers(R))
  <2>1. m \in Racers(R)
    <3>1. Racers(R) \subseteq Nat
      BY Sizes DEF Racers, Seats
    <3> QED
      BY <1>1, <3>1, MinBelongs
  <2>2. P = [R EXCEPT !.master = m, !.ready[m] = FALSE]
    BY <1>1 DEF AssignNextMaster
  <2>3. m \in Seats /\ m \in -1..(ROOM_SLOT_COUNT + ROOM_OBSERVER_COUNT - 1)
    BY <2>1, Sizes DEF Racers, Seats
  <2> HIDE DEF m
  <2>4. [R EXCEPT !.master = m, !.ready[m] = FALSE] \in Room
    BY <2>3 DEF Room
  <2>5. P \in Room
    BY <2>2, <2>4, Zenon
  <2>6. Alike(R, P) /\ P.rank = R.rank /\ P.phase = R.phase /\ P.master = m
    BY <2>2 DEF Room, Alike
  <2> QED
    BY <2>1, <2>5, <2>6 DEF Seated
<1>2. CASE Racers(R) = {} /\ Watchers(R) # {}
  <2> DEFINE o == Min(Watchers(R))
             k == ROOM_SLOT_COUNT + o
  <2>1. o \in Watchers(R)
    <3>1. Watchers(R) \subseteq Nat
      BY Sizes DEF Watchers, Booths
    <3> QED
      BY <1>2, <3>1, MinBelongs
  <2>2. P = [R EXCEPT !.master = k]
    BY <1>2 DEF AssignNextMaster
  <2>3. k \in -1..(ROOM_SLOT_COUNT + ROOM_OBSERVER_COUNT - 1) /\ k - ROOM_SLOT_COUNT = o
    BY <2>1, Sizes DEF Watchers, Booths
  <2> HIDE DEF o, k
  <2>4. P \in Room
    BY <2>2, <2>3 DEF Room
  <2>5. Alike(R, P) /\ P.rank = R.rank /\ P.phase = R.phase /\ P.master = k
    BY <2>2 DEF Room, Alike
  <2> QED
    BY <2>1, <2>3, <2>4, <2>5 DEF Seated
<1>3. CASE IsEmpty(R)
  <2>1. P = [R EXCEPT !.master = -1]
    BY <1>3 DEF AssignNextMaster, IsEmpty
  <2>2. P \in Room
    BY <2>1, Sizes DEF Room
  <2>3. Alike(R, P) /\ P.rank = R.rank /\ P.phase = R.phase
    BY <2>1 DEF Room, Alike
  <2> QED
    BY <1>3, <2>2, <2>3
<1> QED
  BY <1>1, <1>2, <1>3 DEF IsEmpty

-----------------------------------------------------------------------------
(* The ranks after somebody left.                                          *)
Below(R, j) == {n \in Racers(R) : R.rank[n] < j}
Before(R, m) == {n \in Racers(R) : \/ R.rank[n] < R.rank[m]
                                   \/ R.rank[n] = R.rank[m] /\ n < m}

LEMMA BelowCount ==
    ASSUME NEW R, Ranked(R), NEW j \in 0..Cardinality(Racers(R))
    PROVE  IsFiniteSet(Below(R, j)) /\ Cardinality(Below(R, j)) = j
<1> DEFINE f == [n \in Below(R, j) |-> R.rank[n]]
           c == Cardinality(Racers(R))
<1>1. c \in Nat /\ IsFiniteSet(Racers(R))
  BY RacersCount
<1>2. {R.rank[m] : m \in Racers(R)} = 0..(c - 1)
  BY DEF Ranked
<1> HIDE DEF c
<1>3. \A n \in Below(R, j) : R.rank[n] \in 0..(j - 1)
  <2>1. \A n \in Below(R, j) : R.rank[n] \in 0..(c - 1) /\ R.rank[n] < j
    BY <1>2 DEF Below
  <2> QED
    BY <1>1, <2>1
<1>4. \A k \in 0..(j - 1) : \E n \in Below(R, j) : R.rank[n] = k
  <2> SUFFICES ASSUME NEW k \in 0..(j - 1) PROVE \E n \in Below(R, j) : R.rank[n] = k
    OBVIOUS
  <2>1. k \in 0..(c - 1) /\ k < j
    BY <1>1 DEF c
  <2>2. PICK n \in Racers(R) : R.rank[n] = k
    BY <1>2, <2>1
  <2> QED
    BY <2>1, <2>2 DEF Below
<1>5. f \in Bijection(Below(R, j), 0..(j - 1))
  <2>1. f \in [Below(R, j) -> 0..(j - 1)]
    BY <1>3
  <2>2. \A a, b \in Below(R, j) : f[a] = f[b] => a = b
    BY DEF Ranked, Below
  <2>3. \A k \in 0..(j - 1) : \E n \in Below(R, j) : f[n] = k
    BY <1>4
  <2> HIDE DEF f
  <2> QED
    BY <2>1, <2>2, <2>3 DEF Bijection, Injection, Surjection, IsInjective
<1>6. IsFiniteSet(Below(R, j))
  BY <1>1, FS_Subset DEF Below
<1>7. Cardinality(0..(j - 1)) = j
  BY FS_Interval
<1> QED
  BY <1>5, <1>6, <1>7, FS_Bijection DEF ExistsBijection

LEMMA CompactIs ==
    ASSUME NEW R \in Room, NEW P, P = CompactRanks(R)
    PROVE  /\ P \in Room /\ Alike(R, P) /\ P.master = R.master /\ P.phase = R.phase
           /\ \A m \in Racers(R) : P.rank[m] = Cardinality(Before(R, m))
<1> DEFINE rank == [m \in Seats |-> IF m \in Racers(R) THEN Cardinality(Before(R, m)) ELSE 0]
<1>1. P = [R EXCEPT !.rank = rank]
  BY DEF CompactRanks, Before
<1>2. \A m \in Racers(R) : Cardinality(Before(R, m)) \in 0..(ROOM_SLOT_COUNT - 1)
  <2> SUFFICES ASSUME NEW m \in Racers(R)
               PROVE  Cardinality(Before(R, m)) \in 0..(ROOM_SLOT_COUNT - 1)
    OBVIOUS
  <2>1. IsFiniteSet(Seats) /\ Cardinality(Seats) = ROOM_SLOT_COUNT
    BY Sizes, FS_Interval DEF Seats
  <2>2. R.rank[m] \in Int /\ m \in Seats /\ m \in Int
    <3>1. m \in Seats
      BY DEF Racers
    <3>2. R.rank[m] \in 0..(ROOM_SLOT_COUNT - 1)
      BY <3>1 DEF Room
    <3> QED
      BY <3>1, <3>2, Sizes DEF Seats
  <2>3. m \notin Before(R, m) /\ Before(R, m) \subseteq Seats
    BY <2>2 DEF Before, Racers
  <2>4. IsFiniteSet(Before(R, m)) /\ Cardinality(Before(R, m)) <= ROOM_SLOT_COUNT
    BY <2>1, <2>3, FS_Subset
  <2>5. Cardinality(Before(R, m)) # ROOM_SLOT_COUNT
    BY <2>1, <2>2, <2>3, FS_Subset
  <2>6. Cardinality(Before(R, m)) \in Nat
    BY <2>4, FS_CardinalityType
  <2> QED
    BY <2>4, <2>5, <2>6, Sizes
<1>3. rank \in [Seats -> 0..(ROOM_SLOT_COUNT - 1)]
  BY <1>2, Sizes
<1>4. \A m \in Racers(R) : rank[m] = Cardinality(Before(R, m))
  BY DEF Racers
<1> HIDE DEF rank
<1>5. P \in Room
  BY <1>1, <1>3 DEF Room
<1>6. Alike(R, P) /\ P.master = R.master /\ P.phase = R.phase /\ P.rank = rank
  BY <1>1 DEF Room, Alike
<1> QED
  BY <1>4, <1>5, <1>6

LEMMA CompactRanked ==
    ASSUME NEW Q \in Room, Ranked(Q), NEW k \in Racers(Q), NEW R \in Room,
           Racers(R) = Racers(Q) \ {k}, R.rank = Q.rank,
           NEW P, Racers(P) = Racers(R),
           \A m \in Racers(R) : P.rank[m] = Cardinality(Before(R, m))
    PROVE  Ranked(P)
<1> DEFINE c == Cardinality(Racers(Q))
           x == Q.rank[k]
<1>1. /\ c \in Nat /\ IsFiniteSet(Racers(Q)) /\ Cardinality(Racers(P)) = c - 1
      /\ \A n \in Racers(Q) : Q.rank[n] \in 0..(c - 1)
      /\ \A j \in 0..(c - 1) : \E n \in Racers(Q) : Q.rank[n] = j
  <2>1. c \in Nat /\ IsFiniteSet(Racers(Q))
    BY RacersCount
  <2>2. Cardinality(Racers(Q) \ {k}) = c - 1
    BY <2>1, FS_RemoveElement
  <2>3. Cardinality(Racers(P)) = c - 1
    BY <2>2
  <2> QED
    BY <2>1, <2>3 DEF Ranked
<1>2. \A a, b \in Racers(Q) : Q.rank[a] = Q.rank[b] => a = b
  BY DEF Ranked
<1>3. ASSUME NEW m \in Racers(R)
      PROVE  P.rank[m] = IF Q.rank[m] < x THEN Q.rank[m] ELSE Q.rank[m] - 1
  <2> DEFINE y == Q.rank[m]
  <2>1. x \in 0..(c - 1) /\ y \in 0..(c - 1) /\ x # y
    BY <1>1, <1>2
  <2>2. \A n \in Racers(R) : Q.rank[n] = y => n = m
    BY <1>2
  <2>3. m \in Int
    BY DEF Racers, Seats
  <2>4. Before(R, m) = Below(Q, y) \ {k}
    <3>1. ASSUME NEW n \in Racers(R)
          PROVE  ~(R.rank[n] = R.rank[m] /\ n < m)
      <4>1. ~(m < m)
        BY <2>3
      <4> QED
        BY <2>2, <4>1
    <3>2. \A n : n \in Before(R, m) <=> n \in Racers(R) /\ R.rank[n] < R.rank[m]
      BY <3>1 DEF Before
    <3>3. \A n : n \in Below(Q, y) \ {k} <=> n \in Racers(R) /\ R.rank[n] < R.rank[m]
      BY DEF Below
    <3> QED
      BY <3>2, <3>3
  <2> HIDE DEF c, x, y
  <2>5. IsFiniteSet(Below(Q, y)) /\ Cardinality(Below(Q, y)) = y
    BY <1>1, <2>1, BelowCount DEF c
  <2>6. k \in Below(Q, y) <=> ~(y < x)
    BY <1>1, <2>1 DEF Below, x
  <2>7. Cardinality(Before(R, m)) = IF k \in Below(Q, y) THEN y - 1 ELSE y
    <3>1. Cardinality(Below(Q, y) \ {k}) = IF k \in Below(Q, y) THEN Cardinality(Below(Q, y)) - 1
                                                               ELSE Cardinality(Below(Q, y))
      BY <2>5, FS_RemoveElement
    <3> QED
      BY <2>4, <2>5, <3>1
  <2> QED
    BY <2>6, <2>7 DEF y, x
<1>4. x \in 0..(c - 1)
  BY <1>1
<1>5. \A a, b \in Racers(P) : P.rank[a] = P.rank[b] => a = b
  <2> SUFFICES ASSUME NEW a \in Racers(P), NEW b \in Racers(P), P.rank[a] = P.rank[b] PROVE a = b
    OBVIOUS
  <2>1. Q.rank[a] \in Int /\ Q.rank[b] \in Int /\ Q.rank[a] # x /\ Q.rank[b] # x /\ x \in Int
    BY <1>1, <1>2
  <2> HIDE DEF x
  <2>2. Q.rank[a] = Q.rank[b]
    BY <1>3, <2>1
  <2> QED
    BY <1>2, <2>2
<1>6. {P.rank[m] : m \in Racers(P)} = 0..(c - 2)
  <2>1. ASSUME NEW m \in Racers(P) PROVE P.rank[m] \in 0..(c - 2)
    <3>1. Q.rank[m] \in 0..(c - 1) /\ Q.rank[m] # x
      BY <1>1, <1>2
    <3> HIDE DEF x, c
    <3> QED
      BY <1>1, <1>3, <1>4, <3>1
  <2>2. ASSUME NEW j \in 0..(c - 2) PROVE \E m \in Racers(P) : P.rank[m] = j
    <3>1. CASE j < x
      <4>1. j \in 0..(c - 1)
        BY <1>1
      <4>2. PICK m \in Racers(Q) : Q.rank[m] = j
        BY <1>1, <4>1
      <4>3. m # k
        BY <1>4, <3>1, <4>2
      <4> QED
        BY <1>3, <3>1, <4>2, <4>3
    <3>2. CASE ~(j < x)
      <4>1. j + 1 \in 0..(c - 1)
        BY <1>1
      <4>2. PICK m \in Racers(Q) : Q.rank[m] = j + 1
        BY <1>1, <4>1
      <4>3. ~(j + 1 < x) /\ j + 1 # x /\ (j + 1) - 1 = j
        BY <1>4, <3>2
      <4>4. m # k
        BY <4>2, <4>3
      <4> QED
        BY <1>3, <4>2, <4>3, <4>4
    <3> QED
      BY <3>1, <3>2
  <2> QED
    BY <2>1, <2>2
<1>7. (c - 1) - 1 = c - 2
  BY <1>1
<1> QED
  BY <1>1, <1>5, <1>6, <1>7 DEF Ranked

-----------------------------------------------------------------------------
(* remove: a racer or an observer leaves the room.                         *)

(* What may happen to a room while its race is on.                         *)
Shrunk(R, P) ==
    /\ \A m \in Seats : P.member[m] \in {R.member[m], None}
    /\ \A o \in Booths : P.observer[o] \in {R.observer[o], None}
    /\ \A s \in Slots : LET m == R.slot[s] IN
          m \in Seats => P.slot[s] = m \/ P.member[m] # R.member[m]
    /\ P.ai = R.ai /\ P.closed = R.closed

LEMMA AlikeShrunk ==
    ASSUME NEW R, NEW P, Alike(R, P)
    PROVE  Shrunk(R, P)
BY DEF Shrunk, Alike

(* Naming the next master, if it was the one who left.                     *)
LEMMA LedAfter ==
    ASSUME NEW R, NEW G \in Room, NEW id, NEW P,
           P = IF R.master = id THEN AssignNextMaster(G) ELSE G,
           R.master # id /\ ~IsEmpty(G) =>
               Seated(G, G.master) \/ (Racers(G) = {} /\ G.master = 0)
    PROVE  /\ P \in Room /\ Alike(G, P) /\ P.rank = G.rank /\ P.phase = G.phase
           /\ Led(P)
<1>1. CASE R.master = id
  <2>1. P = AssignNextMaster(G)
    BY <1>1
  <2>2. /\ P \in Room /\ Alike(G, P) /\ P.rank = G.rank /\ P.phase = G.phase
        /\ ~IsEmpty(G) => Seated(G, P.master)
    BY <2>1, AssignIs
  <2>3. Racers(P) = Racers(G) /\ Watchers(P) = Watchers(G) /\ (IsEmpty(P) <=> IsEmpty(G))
    BY <2>2, AlikeKeeps
  <2>4. Led(P)
    BY <2>2, <2>3 DEF Led, Seated
  <2> QED
    BY <2>2, <2>4
<1>2. CASE R.master # id
  <2>1. P = G
    BY <1>2
  <2> QED
    BY <1>2, <2>1 DEF Alike, Led
<1> QED
  BY <1>1, <1>2

LEMMA UnseatUser ==
    ASSUME NEW R, RoomInv(R), NEW id \in Racers(R), NEW G, G = Unseat(R, id)
    PROVE  /\ G \in Room /\ SeatInv(G) /\ Apart(G) /\ G.rank = R.rank /\ G.phase = R.phase
           /\ Racers(G) = Racers(R) \ {id}
           /\ Inside(G) = Inside(R) \ {R.member[id]}
           /\ R.master # id /\ ~IsEmpty(G) =>
                  Seated(G, G.master) \/ (Racers(G) = {} /\ G.master = 0)
           /\ Shrunk(R, G)
<1>1. R \in Room /\ id \in Seats /\ R.member[id] # None
  BY DEF RoomInv, Racers
<1>2. /\ G \in Room
      /\ G.member = [R.member EXCEPT ![id] = None] /\ G.team = [R.team EXCEPT ![id] = NoTeam]
      /\ G.slot = [s \in Slots |-> IF R.slot[s] = id THEN None ELSE R.slot[s]]
      /\ G.ai = R.ai /\ G.closed = R.closed /\ G.observer = R.observer /\ G.teams = R.teams
      /\ G.rank = R.rank /\ G.master = R.master /\ G.phase = R.phase
  BY <1>1, UnseatIs DEF Vacated
<1>3. /\ G.member[id] = None
      /\ \A n \in Seats \ {id} : G.member[n] = R.member[n] /\ G.team[n] = R.team[n]
  BY <1>1, <1>2 DEF Room
<1>4. SeatInv(G)
  <2>1. SeatInv(R) /\ R.ai[id] = None /\ R.closed[id] = None
    BY <1>1 DEF RoomInv, SeatInv, OneOccupant
  <2>2. G.member[id] = None /\ G.ai[id] = None /\ G.closed[id] = None /\ G.teams = R.teams
    BY <1>2, <1>3, <2>1
  <2>3. \A n \in Seats \ {id} : /\ G.member[n] = R.member[n] /\ G.ai[n] = R.ai[n]
                                /\ G.closed[n] = R.closed[n] /\ G.team[n] = R.team[n]
    BY <1>2, <1>3
  <2>4. G.slot = [s \in Slots |-> IF R.slot[s] = id THEN None ELSE R.slot[s]]
    BY <1>2
  <2> QED
    BY <1>1, <2>1, <2>2, <2>3, <2>4, VacateKeepsSeats
<1>5. Racers(G) = Racers(R) \ {id} /\ Watchers(G) = Watchers(R)
  BY <1>1, <1>2, <1>3 DEF Racers, Watchers
<1>6. Apart(G)
  BY <1>1, <1>2, <1>3 DEF RoomInv, Apart
<1>7. Inside(G) = Inside(R) \ {R.member[id]}
  <2>1. ASSUME NEW v \in Users
        PROVE  v \in Inside(G) <=> v \in Inside(R) /\ v # R.member[id]
    <3>1. (\E n \in Seats : G.member[n] = v) <=> v # R.member[id] /\ \E n \in Seats : R.member[n] = v
      BY <1>1, <1>3, Sizes DEF RoomInv, Apart
    <3>2. (\E o \in Booths : G.observer[o] = v) <=> v # R.member[id] /\ \E o \in Booths : R.observer[o] = v
      BY <1>1, <1>2 DEF RoomInv, Apart
    <3> QED
      BY <3>1, <3>2 DEF Inside
  <2>2. Inside(G) \subseteq Users /\ Inside(R) \subseteq Users
    BY DEF Inside
  <2> QED
    BY <2>1, <2>2
<1>8. R.master # id /\ ~IsEmpty(G) => Seated(G, G.master) \/ (Racers(G) = {} /\ G.master = 0)
  <2> SUFFICES ASSUME R.master # id PROVE Seated(G, G.master)
    OBVIOUS
  <2>1. Seated(R, R.master)
    BY <1>1 DEF RoomInv, Led, IsEmpty
  <2> QED
    BY <1>2, <1>5, <2>1 DEF Seated
<1>9. Shrunk(R, G)
  <2>1. \A s \in Slots : R.slot[s] \in Seats => G.slot[s] = R.slot[s] \/ R.slot[s] = id
    BY <1>2
  <2> QED
    BY <1>1, <1>2, <1>3, <2>1 DEF Shrunk
<1> QED
  BY <1>2, <1>4, <1>5, <1>6, <1>7, <1>8, <1>9

Unwatched(R, o) == [R EXCEPT !.observer[o] = None]

LEMMA LeaveBooth ==
    ASSUME NEW R, RoomInv(R), NEW o \in Watchers(R), NEW G, G = Unwatched(R, o)
    PROVE  /\ G \in Room /\ SeatInv(G) /\ Apart(G) /\ G.rank = R.rank /\ G.phase = R.phase
           /\ Racers(G) = Racers(R)
           /\ Inside(G) = Inside(R) \ {R.observer[o]}
           /\ R.master # ROOM_SLOT_COUNT + o /\ ~IsEmpty(G) =>
                  Seated(G, G.master) \/ (Racers(G) = {} /\ G.master = 0)
           /\ Shrunk(R, G)
<1>1. R \in Room /\ o \in Booths /\ R.observer[o] # None
  BY DEF RoomInv, Watchers
<1>2. /\ G.member = R.member /\ G.team = R.team /\ G.ai = R.ai /\ G.closed = R.closed
      /\ G.slot = R.slot /\ G.teams = R.teams /\ G.phase = R.phase /\ G.rank = R.rank
      /\ G.observer = [R.observer EXCEPT ![o] = None] /\ G.master = R.master
  BY <1>1 DEF Room, Unwatched
<1>3. G \in Room
  BY <1>1 DEF Room, Unwatched
<1>4. G.observer[o] = None /\ \A p \in Booths \ {o} : G.observer[p] = R.observer[p]
  BY <1>1, <1>2 DEF Room
<1>5. SeatInv(G)
  BY <1>2 DEF RoomInv, SeatInv, OneOccupant, Slotted, Teamed, Occupied, TeamOf, Fits
<1>6. Racers(G) = Racers(R) /\ Watchers(G) = Watchers(R) \ {o}
  BY <1>1, <1>2, <1>4 DEF Racers, Watchers
<1>7. Apart(G)
  BY <1>1, <1>2, <1>4 DEF RoomInv, Apart
<1>8. Inside(G) = Inside(R) \ {R.observer[o]}
  <2>1. ASSUME NEW v \in Users
        PROVE  v \in Inside(G) <=> v \in Inside(R) /\ v # R.observer[o]
    <3>1. (\E p \in Booths : G.observer[p] = v) <=> v # R.observer[o] /\ \E p \in Booths : R.observer[p] = v
      BY <1>1, <1>4, Sizes DEF RoomInv, Apart
    <3>2. (\E n \in Seats : G.member[n] = v) <=> v # R.observer[o] /\ \E n \in Seats : R.member[n] = v
      BY <1>1, <1>2, Sizes DEF RoomInv, Apart
    <3> QED
      BY <3>1, <3>2 DEF Inside
  <2>2. Inside(G) \subseteq Users /\ Inside(R) \subseteq Users
    BY DEF Inside
  <2> QED
    BY <2>1, <2>2
<1>9. R.master # ROOM_SLOT_COUNT + o /\ ~IsEmpty(G) =>
          Seated(G, G.master) \/ (Racers(G) = {} /\ G.master = 0)
  <2>1. Seated(R, R.master) \/ (Racers(R) = {} /\ R.master = 0)
    BY <1>1 DEF RoomInv, Led, IsEmpty
  <2>2. R.master \in Int
    BY <1>1, Sizes DEF Room
  <2>3. R.master - ROOM_SLOT_COUNT = o => R.master = ROOM_SLOT_COUNT + o
    BY <1>1, <2>2, Sizes DEF Booths
  <2> QED
    BY <1>2, <1>6, <2>1, <2>3 DEF Seated
<1>10. Shrunk(R, G)
  BY <1>2, <1>4 DEF Shrunk
<1> QED
  BY <1>2, <1>3, <1>5, <1>6, <1>7, <1>8, <1>9, <1>10

LEMMA ShrunkAlike ==
    ASSUME NEW R, NEW G, Shrunk(R, G), NEW P, Alike(G, P)
    PROVE  Shrunk(R, P)
BY DEF Shrunk, Alike

LEMMA RemoveUserInv ==
    ASSUME NEW R, RoomInv(R), NEW u \in Inside(R), NEW P, P = RemoveUser(R, u)
    PROVE  /\ RoomInv(P) /\ Inside(P) = Inside(R) \ {u} /\ P.phase = R.phase
           /\ Shrunk(R, P)
<1> DEFINE id == CHOOSE i \in PlayerIds(R, u) : TRUE
           gone == IF id \in Seats THEN Unseat(R, id)
                   ELSE [R EXCEPT !.observer[id - ROOM_SLOT_COUNT] = None]
           led == IF R.master = id THEN AssignNextMaster(gone) ELSE gone
<1>1. id \in PlayerIds(R, u)
  <2>1. PlayerIds(R, u) # {}
    <3>1. u # None
      BY Sizes DEF Inside
    <3> QED
      BY <3>1 DEF Inside, PlayerIds, Racers, Watchers
  <2> QED
    BY <2>1
<1>2. P = IF id \in Seats THEN CompactRanks(led) ELSE led
  BY DEF RemoveUser
<1>3. R \in Room
  BY DEF RoomInv
<1> HIDE DEF id
<1>4. CASE id \in Racers(R) /\ R.member[id] = u
  <2>1. id \in Seats /\ gone = Unseat(R, id) /\ P = CompactRanks(led)
    BY <1>2, <1>4 DEF Racers
  <2>2. PICK G : G = Unseat(R, id)
    OBVIOUS
  <2>3. /\ G \in Room /\ SeatInv(G) /\ Apart(G) /\ G.rank = R.rank /\ G.phase = R.phase
        /\ Racers(G) = Racers(R) \ {id} /\ Inside(G) = Inside(R) \ {u}
        /\ R.master # id /\ ~IsEmpty(G) =>
               Seated(G, G.master) \/ (Racers(G) = {} /\ G.master = 0)
        /\ Shrunk(R, G)
    BY <1>4, <2>2, UnseatUser
  <2>4. PICK L : L = IF R.master = id THEN AssignNextMaster(G) ELSE G
    OBVIOUS
  <2>5. P = CompactRanks(L)
    BY <2>1, <2>2, <2>4
  <2> HIDE DEF gone, led
  <2>6. L \in Room /\ Alike(G, L) /\ L.rank = G.rank /\ L.phase = G.phase /\ Led(L)
    BY <2>3, <2>4, LedAfter
  <2>7. /\ P \in Room /\ Alike(L, P) /\ P.master = L.master /\ P.phase = L.phase
        /\ \A m \in Racers(L) : P.rank[m] = Cardinality(Before(L, m))
    BY <2>5, <2>6, CompactIs
  <2>8. /\ SeatInv(L) /\ Apart(L) /\ Racers(L) = Racers(G) /\ Inside(L) = Inside(G)
    BY <2>3, <2>6, AlikeKeeps
  <2>9. /\ SeatInv(P) /\ Apart(P) /\ Racers(P) = Racers(L) /\ Inside(P) = Inside(L)
        /\ Watchers(P) = Watchers(L) /\ (IsEmpty(P) <=> IsEmpty(L))
    BY <2>7, <2>8, AlikeKeeps
  <2>10. Led(P)
    BY <2>6, <2>7, <2>9 DEF Led, Seated
  <2>11. Ranked(P)
    <3>1. Racers(L) = Racers(R) \ {id} /\ L.rank = R.rank /\ Ranked(R) /\ id \in Racers(R)
      BY <1>4, <2>3, <2>6, <2>8 DEF RoomInv
    <3> QED
      BY <1>3, <2>6, <2>7, <2>9, <3>1, CompactRanked
  <2>12. Shrunk(R, P)
    BY <2>3, <2>6, <2>7, ShrunkAlike
  <2> QED
    BY <2>3, <2>6, <2>7, <2>8, <2>9, <2>10, <2>11, <2>12 DEF RoomInv
<1>5. ASSUME NEW o \in Watchers(R), R.observer[o] = u, id = ROOM_SLOT_COUNT + o
      PROVE  /\ RoomInv(P) /\ Inside(P) = Inside(R) \ {u} /\ P.phase = R.phase
             /\ Shrunk(R, P)
  <2>1. id \notin Seats /\ id - ROOM_SLOT_COUNT = o
    BY <1>5, Sizes DEF Watchers, Booths, Seats
  <2>2. PICK G : G = Unwatched(R, o)
    OBVIOUS
  <2>3. /\ G \in Room /\ SeatInv(G) /\ Apart(G) /\ G.rank = R.rank /\ G.phase = R.phase
        /\ Racers(G) = Racers(R) /\ Inside(G) = Inside(R) \ {u}
        /\ R.master # id /\ ~IsEmpty(G) =>
               Seated(G, G.master) \/ (Racers(G) = {} /\ G.master = 0)
        /\ Shrunk(R, G)
    BY <1>5, <2>2, LeaveBooth
  <2>4. P = IF R.master = id THEN AssignNextMaster(G) ELSE G
    <3>1. gone = G
      BY <2>1, <2>2 DEF Unwatched
    <3> HIDE DEF gone
    <3>2. P = led
      BY <1>2, <2>1
    <3> QED
      BY <3>1, <3>2
  <2> HIDE DEF gone, led
  <2>5. P \in Room /\ Alike(G, P) /\ P.rank = G.rank /\ P.phase = G.phase /\ Led(P)
    BY <2>3, <2>4, LedAfter
  <2>6. SeatInv(P) /\ Apart(P) /\ Racers(P) = Racers(G) /\ Inside(P) = Inside(G)
    BY <2>3, <2>5, AlikeKeeps
  <2>7. Ranked(P)
    BY <2>3, <2>5, <2>6, SameRanks DEF RoomInv
  <2>8. Shrunk(R, P)
    BY <2>3, <2>5, ShrunkAlike
  <2> QED
    BY <2>3, <2>5, <2>6, <2>7, <2>8 DEF RoomInv
<1>6. \/ id \in Racers(R) /\ R.member[id] = u
      \/ \E o \in Watchers(R) : R.observer[o] = u /\ id = ROOM_SLOT_COUNT + o
  BY <1>1 DEF PlayerIds
<1> QED
  BY <1>4, <1>5, <1>6

-----------------------------------------------------------------------------
(* The commands of a lobby.                                                *)

(* Those that leave the users, their master and their ranks alone.         *)
LEMMA SeatsOnly ==
    ASSUME NEW R, RoomInv(R), NEW P \in Room, SeatInv(P), P.member = R.member,
           P.observer = R.observer, P.master = R.master, P.rank = R.rank
    PROVE  RoomInv(P) /\ Inside(P) = Inside(R)
<1>1. Racers(P) = Racers(R) /\ Watchers(P) = Watchers(R) /\ Inside(P) = Inside(R)
  BY DEF Racers, Watchers, Inside
<1>2. Apart(P) /\ Led(P)
  BY <1>1 DEF RoomInv, Apart, Led, Seated, IsEmpty
<1>3. Ranked(P)
  BY <1>1, SameRanks DEF RoomInv
<1> QED
  BY <1>1, <1>2, <1>3 DEF RoomInv

Reseated(R, m, t, f) ==
    [R EXCEPT !.team[m] = t, !.ready[m] = FALSE,
              !.slot = [s \in Slots |-> IF s = f THEN m ELSE IF @[s] = m THEN None ELSE @[s]]]

LEMMA ChangeTeamInv ==
    ASSUME NEW R, RoomInv(R), R.teams, NEW m \in Racers(R), NEW t \in {Red, Blue},
           NEW f \in VacantSlots(R) \cap Half(t), NEW P, P = Reseated(R, m, t, f)
    PROVE  RoomInv(P) /\ Inside(P) = Inside(R) /\ P.phase = R.phase
<1> DEFINE slot == [s \in Slots |-> IF s = f THEN m ELSE IF R.slot[s] = m THEN None ELSE R.slot[s]]
<1>1. R \in Room /\ m \in Seats /\ R.member[m] # None /\ f \in Slots /\ R.slot[f] = None
  BY DEF RoomInv, Racers, VacantSlots
<1>2. P = [R EXCEPT !.team[m] = t, !.ready[m] = FALSE, !.slot = slot]
  BY DEF Reseated
<1>3. slot \in [Slots -> Seats \cup {None}]
  BY <1>1 DEF Room
<1> HIDE DEF slot
<1>4. /\ P.member = R.member /\ P.ai = R.ai /\ P.closed = R.closed /\ P.observer = R.observer
      /\ P.teams = R.teams /\ P.rank = R.rank /\ P.master = R.master /\ P.phase = R.phase
      /\ P.team = [R.team EXCEPT ![m] = t] /\ P.slot = slot
  BY <1>1, <1>2 DEF Room
<1>5. P \in Room
  <2>1. [R EXCEPT !.team[m] = t, !.ready[m] = FALSE, !.slot = slot] \in Room
    BY <1>1, <1>3 DEF Room
  <2> QED
    BY <1>2, <2>1, Zenon
<1>6. PICK V : V = Unseat(R, m)
  OBVIOUS
<1>7. /\ V \in Room
      /\ V.member = [R.member EXCEPT ![m] = None] /\ V.team = [R.team EXCEPT ![m] = NoTeam]
      /\ V.slot = [s \in Slots |-> IF R.slot[s] = m THEN None ELSE R.slot[s]]
      /\ V.ai = R.ai /\ V.closed = R.closed /\ V.observer = R.observer /\ V.teams = R.teams
      /\ V.rank = R.rank /\ V.master = R.master /\ V.phase = R.phase
  <2>1. Vacated(R, V, m)
    BY <1>1, <1>6, UnseatIs
  <2> QED
    BY <2>1 DEF Vacated
<1>8. SeatInv(V)
  BY <1>6, UnseatUser
<1>9. R.ai[m] = None /\ R.closed[m] = None
  BY <1>1 DEF RoomInv, SeatInv, OneOccupant
<1>10. SeatInv(P)
  <2>1. m \in VacantSeats(V)
    BY <1>1, <1>7, <1>9 DEF VacantSeats, Room
  <2>2. f \in VacantSlots(V)
    BY <1>1, <1>7 DEF VacantSlots
  <2>3. P.slot = [V.slot EXCEPT ![f] = m]
    BY <1>1, <1>4, <1>7 DEF slot
  <2>4. \A n \in Seats \ {m} : /\ P.member[n] = V.member[n] /\ P.ai[n] = V.ai[n]
                               /\ P.closed[n] = V.closed[n] /\ P.team[n] = V.team[n]
    BY <1>1, <1>4, <1>7 DEF Room
  <2>5. P.member[m] # None /\ P.ai[m] = None /\ P.closed[m] = None /\ P.teams = V.teams
    BY <1>1, <1>4, <1>7, <1>9
  <2>6. Fits(V, TeamOf(P, m), f)
    <3>1. TeamOf(P, m) = t
      BY <1>1, <1>4, <1>9 DEF TeamOf, Room
    <3>2. t # NoTeam
      BY DEF NoTeam, Red, Blue
    <3> QED
      BY <1>7, <3>1, <3>2 DEF Fits
  <2>7. V \in Room
    BY <1>7
  <2> QED
    BY <1>5, <1>8, <2>1, <2>2, <2>3, <2>4, <2>5, <2>6, <2>7, OccupyKeepsSeats
<1> QED
  BY <1>4, <1>5, <1>10, SeatsOnly

LEMMA AddAiInv ==
    ASSUME NEW R, RoomInv(R), NEW t \in {NoTeam, Red, Blue}, CanAddAi(R, t),
           t = NoTeam <=> ~R.teams, NEW P, P = AddAi(R, t)
    PROVE  RoomInv(P) /\ Inside(P) = Inside(R) /\ P.phase = R.phase /\ P.teams = R.teams
<1> DEFINE m == Min(VacantSeats(R))
           s == Min(VacantSlots(R) \cap Half(t))
<1>1. m \in VacantSeats(R)
  <2>1. VacantSeats(R) \subseteq Nat /\ VacantSeats(R) # {}
    BY Sizes DEF CanAddAi, VacantSeats, Seats
  <2> QED
    BY <2>1, MinBelongs
<1>2. s \in VacantSlots(R) /\ s \in Half(t)
  <2>1. VacantSlots(R) \cap Half(t) \subseteq Nat /\ VacantSlots(R) \cap Half(t) # {}
    BY Sizes DEF CanAddAi, VacantSlots, Slots
  <2>2. s \in VacantSlots(R) \cap Half(t)
    BY <2>1, MinBelongs
  <2> QED
    BY <2>2
<1>3. P = [R EXCEPT !.ai[m] = t, !.slot[s] = m]
  BY DEF AddAi
<1> HIDE DEF m, s
<1>4. R \in Room /\ m \in Seats /\ s \in Slots /\ R.member[m] = None /\ R.closed[m] = None
  BY <1>1, <1>2 DEF RoomInv, VacantSeats, VacantSlots
<1>5. P \in Room
  <2>1. [R EXCEPT !.ai[m] = t, !.slot[s] = m] \in Room
    BY <1>4 DEF Room
  <2> QED
    BY <1>3, <2>1, Zenon
<1>6. /\ P.member = R.member /\ P.team = R.team /\ P.closed = R.closed /\ P.observer = R.observer
      /\ P.teams = R.teams /\ P.rank = R.rank /\ P.master = R.master /\ P.phase = R.phase
      /\ P.ai = [R.ai EXCEPT ![m] = t] /\ P.slot = [R.slot EXCEPT ![s] = m]
  BY <1>3, <1>4 DEF Room
<1>7. P.ai[m] = t /\ t # None /\ \A n \in Seats \ {m} : P.ai[n] = R.ai[n]
  BY <1>4, <1>6, Sizes DEF Room, NoTeam, Red, Blue
<1>8. SeatInv(P)
  <2>1. Fits(R, TeamOf(P, m), s)
    BY <1>2, <1>7 DEF Fits, TeamOf
  <2>2. P.member[m] = None /\ P.ai[m] # None /\ P.closed[m] = None
    BY <1>4, <1>6, <1>7
  <2>3. \A n \in Seats \ {m} : /\ P.member[n] = R.member[n] /\ P.ai[n] = R.ai[n]
                               /\ P.closed[n] = R.closed[n] /\ P.team[n] = R.team[n]
    BY <1>6, <1>7
  <2>4. SeatInv(R) /\ P.teams = R.teams /\ P.slot = [R.slot EXCEPT ![s] = m]
    BY <1>6 DEF RoomInv
  <2> QED
    BY <1>1, <1>2, <1>4, <1>5, <2>1, <2>2, <2>3, <2>4, OccupyKeepsSeats
<1> QED
  BY <1>5, <1>6, <1>8, SeatsOnly

LEMMA CloseSlotInv ==
    ASSUME NEW R, RoomInv(R), NEW p \in Seats \X Slots, Closable(R, p), NEW P, P = CloseSlot(R, p)
    PROVE  /\ RoomInv(P) /\ Inside(P) = Inside(R) /\ P.phase = R.phase /\ P.teams = R.teams
           /\ \A q \in Seats \X Slots : Closable(R, q) /\ Distinct(p, q) => Closable(P, q)
<1>1. PICK m \in Seats, s \in Slots : m = p[1] /\ s = p[2]
  OBVIOUS
<1>2. R \in Room /\ m \in VacantSeats(R) /\ s \in VacantSlots(R)
  BY <1>1 DEF RoomInv, Closable
<1>3. P = [R EXCEPT !.closed[m] = s, !.slot[s] = m]
  BY <1>1 DEF CloseSlot
<1>4. P \in Room
  <2>1. [R EXCEPT !.closed[m] = s, !.slot[s] = m] \in Room
    BY <1>2 DEF Room
  <2> QED
    BY <1>3, <2>1, Zenon
<1>5. /\ P.member = R.member /\ P.team = R.team /\ P.ai = R.ai /\ P.observer = R.observer
      /\ P.teams = R.teams /\ P.rank = R.rank /\ P.master = R.master /\ P.phase = R.phase
      /\ P.closed = [R.closed EXCEPT ![m] = s] /\ P.slot = [R.slot EXCEPT ![s] = m]
  BY <1>2, <1>3 DEF Room
<1>6. P.closed[m] = s /\ \A n \in Seats \ {m} : P.closed[n] = R.closed[n]
  BY <1>2, <1>5 DEF Room
<1>7. SeatInv(P)
  <2>1. R.member[m] = None /\ R.ai[m] = None /\ s # None
    BY <1>2, Sizes DEF VacantSeats, Slots
  <2>2. P.member[m] = None /\ P.ai[m] = None /\ P.closed[m] = s /\ P.closed[m] # None
    BY <1>5, <1>6, <2>1
  <2>3. \A n \in Seats \ {m} : /\ P.member[n] = R.member[n] /\ P.ai[n] = R.ai[n]
                               /\ P.closed[n] = R.closed[n] /\ P.team[n] = R.team[n]
    BY <1>5, <1>6
  <2>4. SeatInv(R) /\ P.teams = R.teams /\ P.slot = [R.slot EXCEPT ![s] = m]
    BY <1>5 DEF RoomInv
  <2> QED
    BY <1>2, <1>4, <2>2, <2>3, <2>4, OccupyKeepsSeats
<1>8. ASSUME NEW q \in Seats \X Slots, Closable(R, q), Distinct(p, q) PROVE Closable(P, q)
  <2>1. q[1] \in Seats \ {m} /\ q[2] \in Slots \ {s}
    BY <1>1, <1>8 DEF Distinct
  <2>2. P.slot[q[2]] = R.slot[q[2]] /\ P.closed[q[1]] = R.closed[q[1]]
    BY <1>2, <1>5, <1>6, <2>1 DEF Room
  <2> QED
    BY <1>5, <1>8, <2>1, <2>2 DEF Closable, VacantSeats, VacantSlots
<1> QED
  BY <1>4, <1>5, <1>7, <1>8, SeatsOnly

LEMMA OpenSlotInv ==
    ASSUME NEW R, RoomInv(R), NEW p \in Seats \X Slots, Openable(R, p), NEW P, P = OpenSlot(R, p)
    PROVE  /\ RoomInv(P) /\ Inside(P) = Inside(R) /\ P.phase = R.phase /\ P.teams = R.teams
           /\ \A q \in Seats \X Slots : Openable(R, q) /\ Distinct(p, q) => Openable(P, q)
<1>1. PICK m \in Seats, s \in Slots : m = p[1] /\ s = p[2]
  OBVIOUS
<1>2. R \in Room /\ R.closed[m] = s /\ R.slot[s] = m
  BY <1>1 DEF RoomInv, Openable
<1>3. P = [R EXCEPT !.closed[m] = None, !.slot[s] = None]
  BY <1>1 DEF OpenSlot
<1>4. P \in Room
  <2>1. [R EXCEPT !.closed[m] = None, !.slot[s] = None] \in Room
    BY <1>2 DEF Room
  <2> QED
    BY <1>3, <2>1, Zenon
<1>5. /\ P.member = R.member /\ P.team = R.team /\ P.ai = R.ai /\ P.observer = R.observer
      /\ P.teams = R.teams /\ P.rank = R.rank /\ P.master = R.master /\ P.phase = R.phase
      /\ P.closed = [R.closed EXCEPT ![m] = None] /\ P.slot = [R.slot EXCEPT ![s] = None]
  BY <1>2, <1>3 DEF Room
<1>6. P.closed[m] = None /\ \A n \in Seats \ {m} : P.closed[n] = R.closed[n]
  BY <1>2, <1>5 DEF Room
<1>7. SeatInv(P)
  <2>1. m # None /\ s # None
    BY Sizes DEF Seats, Slots
  <2>2. R.member[m] = None /\ R.ai[m] = None
    BY <1>2, <2>1 DEF RoomInv, SeatInv, OneOccupant
  <2>3. P.slot = [v \in Slots |-> IF R.slot[v] = m THEN None ELSE R.slot[v]]
    <3>1. \A v \in Slots : R.slot[v] = m => v = s
      BY <1>2, <2>1 DEF RoomInv, SeatInv, Slotted
    <3> QED
      BY <1>2, <1>5, <3>1 DEF Room
  <2>4. P.member[m] = None /\ P.ai[m] = None /\ P.closed[m] = None
    BY <1>5, <1>6, <2>2
  <2>5. \A n \in Seats \ {m} : /\ P.member[n] = R.member[n] /\ P.ai[n] = R.ai[n]
                               /\ P.closed[n] = R.closed[n] /\ P.team[n] = R.team[n]
    BY <1>5, <1>6
  <2>6. SeatInv(R) /\ P.teams = R.teams
    BY <1>5 DEF RoomInv
  <2> QED
    BY <1>2, <2>3, <2>4, <2>5, <2>6, VacateKeepsSeats
<1>8. ASSUME NEW q \in Seats \X Slots, Openable(R, q), Distinct(p, q) PROVE Openable(P, q)
  <2>1. q[1] \in Seats \ {m} /\ q[2] \in Slots \ {s}
    BY <1>1, <1>8 DEF Distinct
  <2>2. P.slot[q[2]] = R.slot[q[2]] /\ P.closed[q[1]] = R.closed[q[1]]
    BY <1>2, <1>5, <1>6, <2>1 DEF Room
  <2> QED
    BY <1>8, <2>2 DEF Openable
<1> QED
  BY <1>4, <1>5, <1>7, <1>8, SeatsOnly

AiRemoved(R, m) == [R EXCEPT !.ai[m] = None,
                             !.slot = [s \in Slots |-> IF @[s] = m THEN None ELSE @[s]]]

LEMMA RemoveAiInv ==
    ASSUME NEW R, RoomInv(R), NEW m \in Seats, R.ai[m] # None, NEW P, P = AiRemoved(R, m)
    PROVE  RoomInv(P) /\ Inside(P) = Inside(R) /\ P.phase = R.phase
<1> DEFINE slot == [s \in Slots |-> IF R.slot[s] = m THEN None ELSE R.slot[s]]
<1>1. R \in Room
  BY DEF RoomInv
<1>2. P = [R EXCEPT !.ai[m] = None, !.slot = slot]
  BY DEF AiRemoved
<1>3. slot \in [Slots -> Seats \cup {None}]
  BY <1>1 DEF Room
<1> HIDE DEF slot
<1>4. /\ P.member = R.member /\ P.team = R.team /\ P.closed = R.closed /\ P.observer = R.observer
      /\ P.teams = R.teams /\ P.rank = R.rank /\ P.master = R.master /\ P.phase = R.phase
      /\ P.ai = [R.ai EXCEPT ![m] = None] /\ P.slot = slot
  BY <1>1, <1>2 DEF Room
<1>5. P \in Room
  <2>1. [R EXCEPT !.ai[m] = None, !.slot = slot] \in Room
    BY <1>1, <1>3 DEF Room
  <2> QED
    BY <1>2, <2>1, Zenon
<1>6. P.ai[m] = None /\ \A n \in Seats \ {m} : P.ai[n] = R.ai[n]
  BY <1>1, <1>4 DEF Room
<1>7. SeatInv(P)
  <2>1. R.member[m] = None /\ R.closed[m] = None
    BY DEF RoomInv, SeatInv, OneOccupant
  <2>2. P.member[m] = None /\ P.ai[m] = None /\ P.closed[m] = None
    BY <1>4, <1>6, <2>1
  <2>3. \A n \in Seats \ {m} : /\ P.member[n] = R.member[n] /\ P.ai[n] = R.ai[n]
                               /\ P.closed[n] = R.closed[n] /\ P.team[n] = R.team[n]
    BY <1>4, <1>6
  <2>4. SeatInv(R) /\ P.teams = R.teams
    BY <1>4 DEF RoomInv
  <2>5. P.slot = [s \in Slots |-> IF R.slot[s] = m THEN None ELSE R.slot[s]]
    BY <1>4 DEF slot
  <2> QED
    BY <1>1, <2>2, <2>3, <2>4, <2>5, VacateKeepsSeats
<1> QED
  BY <1>4, <1>5, <1>7, SeatsOnly

(* Ready flags and phases.                                                 *)
Flagged(R, m, ready) == [R EXCEPT !.ready[m] = ready]
Phased(R, phase) == [R EXCEPT !.phase = phase]

LEMMA FlaggedInv ==
    ASSUME NEW R, RoomInv(R), NEW m \in Seats, NEW ready \in BOOLEAN, NEW P, P = Flagged(R, m, ready)
    PROVE  RoomInv(P) /\ Inside(P) = Inside(R) /\ P.phase = R.phase
<1>1. R \in Room
  BY DEF RoomInv
<1>2. P \in Room /\ P.master = R.master /\ P.rank = R.rank /\ P.phase = R.phase /\ Alike(R, P)
  BY <1>1 DEF Flagged, Room, Alike
<1> QED
  BY <1>2, AlikeInv

LEMMA PhasedInv ==
    ASSUME NEW R, RoomInv(R), NEW phase \in {"lobby", "loading", "racing"}, NEW P, P = Phased(R, phase)
    PROVE  RoomInv(P) /\ Inside(P) = Inside(R) /\ P.phase = phase /\ Shrunk(R, P)
<1>1. R \in Room
  BY DEF RoomInv
<1>2. P \in Room /\ P.master = R.master /\ P.rank = R.rank /\ P.phase = phase /\ Alike(R, P)
  BY <1>1 DEF Phased, Room, Alike
<1> QED
  BY <1>2, AlikeInv, AlikeShrunk

LEMMA NotReadyIs ==
    ASSUME NEW R \in Room, NEW P, P = NotReady(R)
    PROVE  /\ P \in Room /\ P.master = R.master /\ P.rank = R.rank /\ P.phase = R.phase
           /\ Alike(R, P)
BY DEF NotReady, Room, Alike

LEMMA AbortInv ==
    ASSUME NEW R, RoomInv(R), NEW P, P = Phased(NotReady(R), "lobby")
    PROVE  RoomInv(P) /\ Inside(P) = Inside(R) /\ P.phase = "lobby" /\ Shrunk(R, P)
<1>1. R \in Room
  BY DEF RoomInv
<1>2. PICK N : N = NotReady(R)
  OBVIOUS
<1>3. N \in Room /\ N.master = R.master /\ N.rank = R.rank /\ Alike(R, N)
  BY <1>1, <1>2, NotReadyIs
<1>4. RoomInv(N) /\ Inside(N) = Inside(R) /\ Shrunk(R, N)
  BY <1>3, AlikeInv, AlikeShrunk
<1>5. RoomInv(P) /\ Inside(P) = Inside(N) /\ P.phase = "lobby"
  BY <1>2, <1>4, PhasedInv
<1>6. Alike(N, P)
  BY <1>2, <1>3 DEF Phased, Room, Alike
<1> QED
  BY <1>4, <1>5, <1>6, ShrunkAlike

MasterMoved(R, m, n) == [R EXCEPT !.master = m, !.ready[m] = FALSE, !.ready[n] = FALSE]

LEMMA MasterMovedInv ==
    ASSUME NEW R, RoomInv(R), NEW m \in Racers(R), NEW n \in Seats, NEW P, P = MasterMoved(R, m, n)
    PROVE  RoomInv(P) /\ Inside(P) = Inside(R) /\ P.phase = R.phase
<1>1. R \in Room /\ m \in Seats
  BY DEF RoomInv, Racers
<1>2. m \in -1..(ROOM_SLOT_COUNT + ROOM_OBSERVER_COUNT - 1)
  BY <1>1, Sizes DEF Seats
<1>3. /\ P \in Room /\ P.rank = R.rank /\ P.phase = R.phase /\ P.master = m
      /\ Alike(R, P)
  BY <1>1, <1>2 DEF MasterMoved, Room, Alike
<1>4. /\ SeatInv(P) /\ Apart(P) /\ Inside(P) = Inside(R) /\ Racers(P) = Racers(R)
  BY <1>3, AlikeKeeps DEF RoomInv
<1>5. Led(P)
  BY <1>3, <1>4 DEF Led, Seated
<1>6. Ranked(P)
  BY <1>3, <1>4, SameRanks DEF RoomInv
<1> QED
  BY <1>3, <1>4, <1>5, <1>6 DEF RoomInv

-----------------------------------------------------------------------------
(* The end of a race: the result order is the new grid.                    *)
LEMMA OrderIsOnto ==
    ASSUME NEW S, IsFiniteSet(S), NEW f \in Orders(S)
    PROVE  /\ \A m \in S : f[m] \in 0..(Cardinality(S) - 1)
           /\ \A m, n \in S : f[m] = f[n] => m = n
           /\ {f[m] : m \in S} = 0..(Cardinality(S) - 1)
<1> DEFINE c == Cardinality(S)
<1>1. c \in Nat
  BY FS_CardinalityType
<1>2. f \in [S -> 0..(c - 1)] /\ \A m, n \in S : f[m] = f[n] => m = n
  BY DEF Orders
<1>3. f \in Injection(S, 0..(c - 1))
  BY <1>2 DEF Injection, IsInjective
<1> HIDE DEF c
<1>4. IsFiniteSet(0..(c - 1)) /\ Cardinality(0..(c - 1)) = c
  <2>1. 0 \in Int /\ c - 1 \in Int
    BY <1>1
  <2>2. IsFiniteSet(0..(c - 1)) /\ Cardinality(0..(c - 1)) = IF 0 > c - 1 THEN 0 ELSE (c - 1) - 0 + 1
    BY <2>1, FS_Interval
  <2> QED
    BY <1>1, <2>2
<1>5. f \in Surjection(S, 0..(c - 1))
  BY <1>3, <1>4, FS_Injection DEF c
<1>6. \A k \in 0..(c - 1) : \E m \in S : f[m] = k
  BY <1>5 DEF Surjection
<1> QED
  BY <1>2, <1>6 DEF c

LEMMA NextMasterIs ==
    ASSUME NEW R \in Room, NEW order \in Orders(Racers(R)), NEW winner
    PROVE  NextMaster(R, order, winner) = R.master \/ NextMaster(R, order, winner) \in Racers(R)
<1> DEFINE C == {m \in Racers(R) : R.teams => R.team[m] = winner}
           F == {order[m] : m \in C}
<1>1. CASE R.master >= ROOM_SLOT_COUNT \/ C = {}
  BY <1>1 DEF NextMaster
<1>2. CASE ~(R.master >= ROOM_SLOT_COUNT \/ C = {})
  <2>1. NextMaster(R, order, winner) = CHOOSE m \in C : \A n \in C : order[m] <= order[n]
    BY <1>2 DEF NextMaster
  <2>2. F \subseteq Nat /\ F # {}
    <3>1. \A m \in Racers(R) : order[m] \in 0..(Cardinality(Racers(R)) - 1)
      BY RacersCount, OrderIsOnto
    <3> QED
      BY <1>2, <3>1
  <2>3. Min(F) \in F /\ \A y \in F : Min(F) <= y
    BY <2>2, MinBelongs
  <2>4. \E m \in C : \A n \in C : order[m] <= order[n]
    BY <2>3
  <2>5. NextMaster(R, order, winner) \in C
    BY <2>1, <2>4
  <2> QED
    BY <2>5
<1> QED
  BY <1>1, <1>2

Ranking(R, order) == [m \in Seats |-> IF m \in Racers(R) THEN order[m] ELSE 0]
Finished(R, order, winner) ==
    [NotReady(R) EXCEPT !.phase = "lobby", !.master = NextMaster(R, order, winner),
                        !.rank = Ranking(R, order)]

LEMMA FinishedInv ==
    ASSUME NEW R, RoomInv(R), NEW order \in Orders(Racers(R)), NEW winner,
           NEW P, P = Finished(R, order, winner)
    PROVE  RoomInv(P) /\ Inside(P) = Inside(R) /\ P.phase = "lobby" /\ Shrunk(R, P)
<1> DEFINE rank == Ranking(R, order)
           master == NextMaster(R, order, winner)
<1>1. R \in Room
  BY DEF RoomInv
<1>2. PICK N : N = NotReady(R)
  OBVIOUS
<1>3. N \in Room /\ N.master = R.master /\ Alike(R, N)
  BY <1>1, <1>2, NotReadyIs
<1>4. P = [N EXCEPT !.phase = "lobby", !.master = master, !.rank = rank]
  BY <1>2 DEF Finished
<1>5. master = R.master \/ master \in Racers(R)
  BY <1>1, NextMasterIs
<1>6. master \in -1..(ROOM_SLOT_COUNT + ROOM_OBSERVER_COUNT - 1)
  <2>1. R.master \in -1..(ROOM_SLOT_COUNT + ROOM_OBSERVER_COUNT - 1)
    BY <1>1 DEF Room
  <2>2. Seats \subseteq -1..(ROOM_SLOT_COUNT + ROOM_OBSERVER_COUNT - 1)
    BY Sizes DEF Seats
  <2>3. Racers(R) \subseteq Seats
    BY DEF Racers
  <2> QED
    BY <1>5, <2>1, <2>2, <2>3
<1>7. /\ \A m \in Racers(R) : rank[m] = order[m]
      /\ \A m, n \in Racers(R) : order[m] = order[n] => m = n
      /\ {order[m] : m \in Racers(R)} = 0..(Cardinality(Racers(R)) - 1)
  <2>1. Racers(R) \subseteq Seats /\ IsFiniteSet(Racers(R))
    BY RacersCount
  <2>2. \A m \in Racers(R) : rank[m] = order[m]
    BY <2>1 DEF Ranking
  <2> QED
    BY <2>1, <2>2, OrderIsOnto
<1>8. rank \in [Seats -> 0..(ROOM_SLOT_COUNT - 1)]
  <2>1. \A m \in Racers(R) : order[m] \in 0..(Cardinality(Racers(R)) - 1)
    BY <1>7
  <2>2. Cardinality(Racers(R)) \in 0..ROOM_SLOT_COUNT /\ 0 \in 0..(ROOM_SLOT_COUNT - 1)
    BY RacersCount, Sizes
  <2>3. \A m \in Racers(R) : order[m] \in 0..(ROOM_SLOT_COUNT - 1)
    BY <2>1, <2>2, Sizes
  <2> QED
    BY <2>2, <2>3 DEF Ranking
<1> HIDE DEF rank, master
<1>9. P \in Room
  <2>1. [N EXCEPT !.phase = "lobby", !.master = master, !.rank = rank] \in Room
    BY <1>3, <1>6, <1>8 DEF Room
  <2> QED
    BY <1>4, <2>1, Zenon
<1>10. P.phase = "lobby" /\ P.master = master /\ P.rank = rank /\ Alike(N, P)
  BY <1>3, <1>4 DEF Room, Alike
<1>11. Alike(R, P)
  BY <1>3, <1>10 DEF Alike
<1>12. /\ SeatInv(P) /\ Apart(P) /\ Inside(P) = Inside(R) /\ Racers(P) = Racers(R)
       /\ Watchers(P) = Watchers(R) /\ (IsEmpty(P) <=> IsEmpty(R))
  BY <1>11, AlikeKeeps DEF RoomInv
<1>13. Led(P)
  BY <1>5, <1>10, <1>12 DEF RoomInv, Led, Seated
<1>14. Ranked(P)
  <2>1. {P.rank[m] : m \in Racers(P)} = {order[m] : m \in Racers(R)}
    BY <1>7, <1>10, <1>12
  <2> QED
    BY <1>7, <1>10, <1>12, <2>1 DEF Ranked
<1> QED
  BY <1>9, <1>10, <1>11, <1>12, <1>13, <1>14, AlikeShrunk DEF RoomInv

-----------------------------------------------------------------------------
(* The invariant of the system: every live room keeps RoomInv, the index   *)
(* names the room a user is inside of and no other, a room without users   *)
(* waits for its settlement, and no live id is free.                       *)
RoomFits(r) ==
    /\ RoomInv(rooms[r])
    /\ Inside(rooms[r]) = {} => rooms[r].phase = "racing"
    /\ \A u \in Users : u \in Inside(rooms[r]) <=> roomOf[u] = r

RoomsInv ==
    /\ TypeOK
    /\ \A r \in RoomIds : rooms[r] # None => RoomFits(r) /\ r \notin freeIds
    /\ \A u \in Users : roomOf[u] # None => rooms[roomOf[u]] # None

(* What a step may do to a room whose race is on.                          *)
RosterKept ==
    \A r \in RoomIds : rooms[r] # None /\ rooms'[r] # None /\ rooms[r].phase # "lobby"
                         => Shrunk(rooms[r], rooms'[r])

(* A step that replaces, creates or deletes one room.                      *)
Moved(r, P) ==
    /\ rooms' = [rooms EXCEPT ![r] = P]
    /\ roomOf' \in [Users -> RoomIds \cup {None}]
    /\ nextId' \in RoomIds /\ freeIds' \subseteq freeIds \cup {r}
    /\ \A u \in Users : \/ roomOf'[u] = roomOf[u]
                        \/ roomOf[u] \in {r, None} /\ roomOf'[u] \in {r, None}

LEMMA Settles ==
    ASSUME RoomsInv, NEW r \in RoomIds, NEW P, Moved(r, P),
           RoomInv(P), r \notin freeIds',
           Inside(P) = {} => P.phase = "racing",
           \A u \in Users : u \in Inside(P) <=> roomOf'[u] = r,
           rooms[r] # None /\ rooms[r].phase # "lobby" => Shrunk(rooms[r], P)
    PROVE  RoomsInv' /\ RosterKept
<1>1. /\ TypeOK /\ P \in Room /\ P # None /\ r # None
      /\ \A q \in RoomIds : q # None
  BY Sizes DEF RoomsInv, RoomInv, RoomIds
<1>2. rooms'[r] = P /\ \A q \in RoomIds \ {r} : rooms'[q] = rooms[q]
  BY <1>1 DEF TypeOK, Moved
<1>3. TypeOK'
  <2>1. rooms' \in [RoomIds -> Room \cup {None}]
    BY <1>1 DEF TypeOK, Moved
  <2> QED
    BY <1>1, <2>1 DEF TypeOK, Moved
<1>4. ASSUME NEW q \in RoomIds, rooms'[q] # None PROVE RoomFits(q)' /\ q \notin freeIds'
  <2>1. CASE q = r
    BY <1>2, <2>1 DEF RoomFits
  <2>2. CASE q # r
    <3>1. rooms'[q] = rooms[q]
      BY <1>2, <2>2
    <3>2. RoomFits(q) /\ q \notin freeIds
      BY <1>4, <3>1 DEF RoomsInv
    <3>3. \A u \in Users : roomOf'[u] = q <=> roomOf[u] = q
      BY <1>1, <2>2 DEF Moved
    <3> QED
      BY <2>2, <3>1, <3>2, <3>3 DEF RoomFits, Moved
  <2> QED
    BY <2>1, <2>2
<1>5. \A u \in Users : roomOf'[u] # None => rooms'[roomOf'[u]] # None
  <2> SUFFICES ASSUME NEW u \in Users, roomOf'[u] # None PROVE rooms'[roomOf'[u]] # None
    OBVIOUS
  <2>1. CASE roomOf'[u] = r
    BY <1>1, <1>2, <2>1
  <2>2. CASE roomOf'[u] # r
    <3>1. roomOf'[u] = roomOf[u] /\ roomOf[u] \in RoomIds \ {r}
      BY <1>1, <2>2 DEF Moved, TypeOK
    <3> QED
      BY <1>2, <3>1 DEF RoomsInv
  <2> QED
    BY <2>1, <2>2
<1>6. RosterKept
  <2> SUFFICES ASSUME NEW q \in RoomIds, rooms[q] # None, rooms[q].phase # "lobby"
               PROVE  Shrunk(rooms[q], rooms'[q])
    BY DEF RosterKept
  <2>1. CASE q = r
    BY <1>2, <2>1
  <2>2. CASE q # r
    BY <1>2, <2>2 DEF Shrunk
  <2> QED
    BY <2>1, <2>2
<1> QED
  BY <1>3, <1>4, <1>5, <1>6 DEF RoomsInv

LEMMA Deletes ==
    ASSUME RoomsInv, NEW r \in RoomIds, Moved(r, None), \A u \in Users : roomOf'[u] # r
    PROVE  RoomsInv' /\ RosterKept
<1>1. /\ TypeOK /\ r # None /\ \A q \in RoomIds : q # None
  BY Sizes DEF RoomsInv, RoomIds
<1>2. rooms'[r] = None /\ \A q \in RoomIds \ {r} : rooms'[q] = rooms[q]
  BY <1>1 DEF TypeOK, Moved
<1>3. TypeOK'
  <2>1. rooms' \in [RoomIds -> Room \cup {None}]
    BY <1>1 DEF TypeOK, Moved
  <2> QED
    BY <1>1, <2>1 DEF TypeOK, Moved
<1>4. ASSUME NEW q \in RoomIds, rooms'[q] # None PROVE RoomFits(q)' /\ q \notin freeIds'
  <2>1. q # r /\ rooms'[q] = rooms[q]
    BY <1>2, <1>4
  <2>2. RoomFits(q) /\ q \notin freeIds
    BY <1>4, <2>1 DEF RoomsInv
  <2>3. \A u \in Users : roomOf'[u] = q <=> roomOf[u] = q
    BY <1>1, <2>1 DEF Moved
  <2> QED
    BY <2>1, <2>2, <2>3 DEF RoomFits, Moved
<1>5. \A u \in Users : roomOf'[u] # None => rooms'[roomOf'[u]] # None
  <2> SUFFICES ASSUME NEW u \in Users, roomOf'[u] # None PROVE rooms'[roomOf'[u]] # None
    OBVIOUS
  <2>1. roomOf'[u] = roomOf[u] /\ roomOf[u] \in RoomIds \ {r}
    BY <1>1 DEF Moved, TypeOK
  <2> QED
    BY <1>2, <2>1 DEF RoomsInv
<1>6. RosterKept
  <2> SUFFICES ASSUME NEW q \in RoomIds, rooms'[q] # None PROVE Shrunk(rooms[q], rooms'[q])
    BY DEF RosterKept
  <2> QED
    BY <1>2 DEF Shrunk
<1> QED
  BY <1>3, <1>4, <1>5, <1>6 DEF RoomsInv

(* A command that moves nobody in or out.                                  *)
LEMMA Updates ==
    ASSUME RoomsInv, NEW r \in RoomIds, rooms[r] # None, NEW P, Put(r, P), UNCHANGED roomOf,
           RoomInv(P), Inside(P) = Inside(rooms[r]),
           rooms[r].phase = "lobby" \/ Shrunk(rooms[r], P),
           Inside(rooms[r]) = {} => P.phase = "racing"
    PROVE  RoomsInv' /\ RosterKept
<1>1. RoomFits(r) /\ r \notin freeIds /\ TypeOK
  BY DEF RoomsInv
<1>2. Moved(r, P)
  BY <1>1 DEF Moved, Put, TypeOK
<1>3. r \notin freeIds' /\ \A u \in Users : u \in Inside(P) <=> roomOf'[u] = r
  BY <1>1 DEF RoomFits, Put
<1> QED
  BY <1>2, <1>3, Settles

(* One user goes, and the room with the last one unless its race is on.    *)
LEMMA Removes ==
    ASSUME RoomsInv, NEW r \in RoomIds, rooms[r] # None, NEW v \in Inside(rooms[r]),
           NEW P, P = RemoveUser(rooms[r], v),
           IF IsEmpty(P) /\ P.phase # "racing" THEN Delete(r) ELSE Put(r, P),
           roomOf' = [roomOf EXCEPT ![v] = None]
    PROVE  RoomsInv' /\ RosterKept
<1>1. RoomFits(r) /\ r \notin freeIds /\ TypeOK /\ RoomInv(rooms[r])
  BY DEF RoomsInv, RoomFits
<1>2. RoomInv(P) /\ Inside(P) = Inside(rooms[r]) \ {v} /\ Shrunk(rooms[r], P)
  BY <1>1, RemoveUserInv
<1>3. P \in Room
  BY <1>2 DEF RoomInv
<1>4. v \in Users /\ roomOf[v] = r /\ r # None
  BY <1>1, Sizes DEF Inside, RoomFits, RoomIds
<1>5. /\ roomOf' \in [Users -> RoomIds \cup {None}] /\ roomOf'[v] = None
      /\ \A u \in Users \ {v} : roomOf'[u] = roomOf[u]
  BY <1>1, <1>4 DEF TypeOK
<1>6. \A u \in Users : u \in Inside(P) <=> roomOf'[u] = r
  BY <1>1, <1>2, <1>4, <1>5 DEF RoomFits
<1>7. CASE IsEmpty(P) /\ P.phase # "racing"
  <2>1. Moved(r, None)
    BY <1>1, <1>4, <1>5, <1>7 DEF Moved, Delete, TypeOK
  <2>2. Inside(P) = {}
    BY <1>3, <1>7, InsideMeans
  <2>3. \A u \in Users : roomOf'[u] # r
    BY <1>6, <2>2
  <2> QED
    BY <2>1, <2>3, Deletes
<1>8. CASE ~(IsEmpty(P) /\ P.phase # "racing")
  <2>1. Put(r, P)
    BY <1>8
  <2>2. Moved(r, P) /\ r \notin freeIds'
    BY <1>1, <1>4, <1>5, <2>1 DEF Moved, Put, TypeOK
  <2>3. Inside(P) = {} => P.phase = "racing"
    BY <1>3, <1>8, InsideMeans
  <2> QED
    BY <1>2, <1>6, <2>2, <2>3, Settles
<1> QED
  BY <1>7, <1>8

-----------------------------------------------------------------------------
(* The actions.                                                            *)
LEMMA AddInv ==
    ASSUME NEW R, RoomInv(R), NEW kind \in Kinds, Admissible(R, kind),
           NEW u \in Users, u \notin Inside(R), NEW P, P = Add(R, u, kind),
           Racers(R) # {} \/ R.master = 0 \/ Seated(R, R.master)
    PROVE  RoomInv(P) /\ Inside(P) = Inside(R) \cup {u} /\ P.phase = R.phase
<1>1. CASE kind = "racer"
  <2>1. HasSeat(R) /\ P = AddRacer(R, u)
    BY <1>1 DEF Admissible, Add
  <2> QED
    BY <2>1, AddRacerInv
<1>2. CASE kind # "racer"
  <2>1. HasBooth(R)
    BY <1>2 DEF Admissible
  <2>2. PICK takesOver \in BOOLEAN : takesOver = (kind = "observer master")
    OBVIOUS
  <2>3. P = AddObserver(R, u, takesOver)
    BY <1>2, <2>2 DEF Add
  <2> QED
    BY <2>1, <2>3, AddObserverInv
<1> QED
  BY <1>1, <1>2

(* allocate_protocol_room_id finds an unused id while there is one, and    *)
(* the ids it leaves free are larger.                                      *)
LEMMA AllocatedIsFree ==
    ASSUME TypeOK, Live # RoomIds
    PROVE  AllocatedId \in RoomIds /\ rooms[AllocatedId] = None
<1>1. /\ RoomIds \subseteq Nat /\ Live \subseteq RoomIds /\ freeIds \subseteq RoomIds
      /\ 1 \in Nat /\ \A r \in RoomIds : r >= 1
  BY Sizes DEF TypeOK, RoomIds, Live
<1>2. ASSUME NEW S, S \subseteq RoomIds \ Live, S # {}
      PROVE  Min(S) \in RoomIds /\ rooms[Min(S)] = None
  <2>1. S \subseteq Nat
    BY <1>1, <1>2
  <2>2. Min(S) \in S
    BY <1>2, <2>1, MinBelongs
  <2> QED
    BY <1>2, <2>2 DEF Live
<1>3. \A i : Cyclic(i) \subseteq RoomIds \ Live
  BY DEF Cyclic
<1>4. Cyclic(1) # {}
  BY <1>1 DEF Cyclic
<1>5. freeIds \ Live \subseteq RoomIds \ Live
  BY <1>1
<1>6. \/ freeIds \ Live # {} /\ AllocatedId = Min(freeIds \ Live)
      \/ Cyclic(nextId) # {} /\ AllocatedId = Min(Cyclic(nextId))
      \/ AllocatedId = Min(Cyclic(1))
  BY DEF AllocatedId
<1>7. CASE freeIds \ Live # {} /\ AllocatedId = Min(freeIds \ Live)
  BY <1>2, <1>5, <1>7
<1>8. CASE Cyclic(nextId) # {} /\ AllocatedId = Min(Cyclic(nextId))
  BY <1>2, <1>3, <1>8
<1>9. CASE AllocatedId = Min(Cyclic(1))
  BY <1>2, <1>3, <1>4, <1>9
<1> QED
  BY <1>6, <1>7, <1>8, <1>9

LEMMA CreateKeeps ==
    ASSUME RoomsInv, NEW u \in Users, NEW teams \in BOOLEAN, NEW kind \in Kinds,
           Create(u, teams, kind)
    PROVE  RoomsInv' /\ RosterKept
<1>1. TypeOK /\ Live # RoomIds /\ roomOf[u] = None
  BY DEF RoomsInv, Create
<1>2. PICK r : r = AllocatedId
  OBVIOUS
<1>3. r \in RoomIds /\ rooms[r] = None
  BY <1>1, <1>2, AllocatedIsFree
<1>4. PICK N : N = NewRoom(teams)
  OBVIOUS
<1>5. RoomInv(N) /\ Inside(N) = {} /\ N.phase = "lobby"
  BY <1>4, NewRoomInv
<1>6. N.master = 0
  BY <1>4 DEF NewRoom
<1>7. PICK P : P = Add(N, u, kind)
  OBVIOUS
<1>8. RoomInv(P) /\ Inside(P) = {u}
  <2>1. Admissible(N, kind)
    BY <1>4 DEF Create
  <2>2. u \notin Inside(N) /\ Inside(N) \cup {u} = {u}
    BY <1>5
  <2> QED
    BY <1>5, <1>6, <1>7, <2>1, <2>2, AddInv
<1>9. /\ rooms' = [rooms EXCEPT ![r] = P] /\ roomOf' = [roomOf EXCEPT ![u] = r]
      /\ freeIds' = {i \in freeIds : i > r}
      /\ nextId' = IF freeIds \ Live # {} THEN nextId
                   ELSE IF r = MAX_ROOM_ID THEN 1 ELSE r + 1
  BY <1>2, <1>4, <1>7 DEF Create
<1>10. nextId' \in RoomIds
  <2>1. nextId \in RoomIds
    BY <1>1 DEF TypeOK
  <2>2. 1 \in RoomIds /\ (r # MAX_ROOM_ID => r + 1 \in RoomIds)
    BY <1>3, Sizes DEF RoomIds
  <2> QED
    BY <1>9, <2>1, <2>2
<1>11. /\ roomOf' \in [Users -> RoomIds \cup {None}] /\ roomOf'[u] = r
       /\ \A v \in Users \ {u} : roomOf'[v] = roomOf[v]
  BY <1>1, <1>3, <1>9 DEF TypeOK
<1>12. Moved(r, P)
  BY <1>1, <1>9, <1>10, <1>11 DEF Moved
<1>13. r \notin freeIds'
  <2>1. ~(r > r)
    BY <1>3 DEF RoomIds
  <2> QED
    BY <1>9, <2>1
<1>14. \A v \in Users : v \in Inside(P) <=> roomOf'[v] = r
  <2>1. r # None
    BY <1>3, Sizes DEF RoomIds
  <2>2. \A v \in Users : roomOf[v] # r
    BY <1>3, <2>1 DEF RoomsInv
  <2> QED
    BY <1>8, <1>11, <2>2
<1> QED
  BY <1>3, <1>8, <1>12, <1>13, <1>14, Settles

LEMMA JoinKeeps ==
    ASSUME RoomsInv, NEW u \in Users, NEW r \in Live, NEW kind \in Kinds, Join(u, r, kind)
    PROVE  RoomsInv' /\ RosterKept
<1>1. r \in RoomIds /\ rooms[r] # None
  BY DEF Live
<1>2. PICK R : R = rooms[r]
  OBVIOUS
<1>3. TypeOK /\ r \notin freeIds /\ RoomFits(r) /\ RoomInv(R) /\ R.phase = "lobby"
  BY <1>1, <1>2 DEF RoomsInv, RoomFits, Join
<1>4. PICK P : P = Add(R, u, kind)
  OBVIOUS
<1>5. /\ rooms' = [rooms EXCEPT ![r] = P] /\ roomOf' = [roomOf EXCEPT ![u] = r]
      /\ freeIds' = freeIds /\ nextId' = nextId
      /\ roomOf[u] = None /\ Admissible(R, kind)
  BY <1>2, <1>4 DEF Join
<1>6. u \notin Inside(R)
  <2>1. r # None
    BY <1>1, Sizes DEF RoomIds
  <2> QED
    BY <1>2, <1>3, <1>5, <2>1 DEF RoomFits
<1>7. Racers(R) # {} \/ R.master = 0 \/ Seated(R, R.master)
  <2>1. Inside(R) # {}
    BY <1>2, <1>3 DEF RoomFits
  <2>2. ~IsEmpty(R)
    BY <1>3, <2>1, InsideMeans DEF RoomInv
  <2> QED
    BY <1>3, <2>2 DEF RoomInv, Led
<1>8. RoomInv(P) /\ Inside(P) = Inside(R) \cup {u}
  BY <1>3, <1>4, <1>5, <1>6, <1>7, AddInv
<1>9. /\ roomOf' \in [Users -> RoomIds \cup {None}] /\ roomOf'[u] = r
      /\ \A v \in Users \ {u} : roomOf'[v] = roomOf[v]
  BY <1>1, <1>3, <1>5 DEF TypeOK
<1>10. Moved(r, P) /\ r \notin freeIds'
  BY <1>3, <1>5, <1>9 DEF Moved, TypeOK
<1>11. \A v \in Users : v \in Inside(P) <=> roomOf'[v] = r
  BY <1>2, <1>3, <1>8, <1>9 DEF RoomFits
<1> QED
  BY <1>1, <1>2, <1>3, <1>8, <1>10, <1>11, Settles

LEMMA LeaveKeeps ==
    ASSUME RoomsInv, NEW u \in Users, Leave(u)
    PROVE  RoomsInv' /\ RosterKept
<1>1. PICK r : r = roomOf[u]
  OBVIOUS
<1>2. r \in RoomIds /\ rooms[r] # None
  BY <1>1 DEF RoomsInv, TypeOK, Leave
<1>3. u \in Inside(rooms[r])
  BY <1>1, <1>2 DEF RoomsInv, RoomFits
<1>4. PICK P : P = RemoveUser(rooms[r], u)
  OBVIOUS
<1>5. /\ IF IsEmpty(P) /\ P.phase # "racing" THEN Delete(r) ELSE Put(r, P)
      /\ roomOf' = [roomOf EXCEPT ![u] = None]
  BY <1>1, <1>4 DEF Leave
<1> QED
  BY <1>2, <1>3, <1>4, <1>5, Removes

(* The facts every command of user u starts from.                          *)
LEMMA InLobbyIs ==
    ASSUME RoomsInv, NEW r \in Live, NEW u \in Users, InLobby(u, r)
    PROVE  /\ r \in RoomIds /\ rooms[r] # None /\ RoomInv(rooms[r]) /\ rooms[r].phase = "lobby"
           /\ Inside(rooms[r]) # {}
<1>1. r \in RoomIds /\ rooms[r] # None /\ rooms[r].phase = "lobby"
  BY DEF Live, InLobby
<1> QED
  BY <1>1 DEF RoomsInv, RoomFits

LEMMA SeatOfIs ==
    ASSUME NEW r, NEW u, IsRacer(u, r)
    PROVE  SeatOf(u, r) \in Racers(rooms[r]) /\ SeatOf(u, r) \in Seats
<1>1. SeatOf(u, r) \in Racers(rooms[r])
  BY DEF IsRacer, SeatOf
<1> QED
  BY <1>1 DEF Racers

LEMMA CommandKeeps ==
    ASSUME RoomsInv, NEW r \in Live, NEW u \in Users, InLobby(u, r),
           NEW P, Put(r, P), UNCHANGED roomOf, RoomInv(P), Inside(P) = Inside(rooms[r])
    PROVE  RoomsInv' /\ RosterKept
BY InLobbyIs, Updates

LEMMA SetSlotStateKeeps ==
    ASSUME RoomsInv, NEW u \in Users, NEW r \in Live, NEW ready \in BOOLEAN,
           SetSlotState(u, r, ready)
    PROVE  RoomsInv' /\ RosterKept
<1>1. InLobby(u, r) /\ IsRacer(u, r) /\ UNCHANGED roomOf
  BY DEF SetSlotState
<1>2. RoomInv(rooms[r])
  BY <1>1, InLobbyIs
<1>3. PICK P : P = Flagged(rooms[r], SeatOf(u, r), ready)
  OBVIOUS
<1>4. Put(r, P)
  BY <1>3 DEF SetSlotState, Flagged
<1>5. RoomInv(P) /\ Inside(P) = Inside(rooms[r])
  BY <1>1, <1>2, <1>3, SeatOfIs, FlaggedInv
<1> QED
  BY <1>1, <1>4, <1>5, CommandKeeps

LEMMA ChangeTeamKeeps ==
    ASSUME RoomsInv, NEW u \in Users, NEW r \in Live, NEW t \in {Red, Blue}, ChangeTeam(u, r, t)
    PROVE  RoomsInv' /\ RosterKept
<1>1. /\ InLobby(u, r) /\ IsRacer(u, r) /\ UNCHANGED roomOf /\ rooms[r].teams
      /\ VacantSlots(rooms[r]) \cap Half(t) # {}
  BY DEF ChangeTeam
<1>2. RoomInv(rooms[r])
  BY <1>1, InLobbyIs
<1>3. PICK m : m = SeatOf(u, r)
  OBVIOUS
<1>4. m \in Racers(rooms[r])
  BY <1>1, <1>3, SeatOfIs
<1>5. PICK f : f = Min(VacantSlots(rooms[r]) \cap Half(t))
  OBVIOUS
<1>6. f \in VacantSlots(rooms[r]) \cap Half(t)
  <2>1. VacantSlots(rooms[r]) \cap Half(t) \subseteq Nat
    BY Sizes DEF VacantSlots, Slots
  <2> QED
    BY <1>1, <1>5, <2>1, MinBelongs
<1>7. PICK P : P = Reseated(rooms[r], m, t, f)
  OBVIOUS
<1>8. Put(r, P)
  BY <1>3, <1>5, <1>7 DEF ChangeTeam, Reseated
<1>9. RoomInv(P) /\ Inside(P) = Inside(rooms[r])
  BY <1>1, <1>2, <1>4, <1>6, <1>7, ChangeTeamInv
<1> QED
  BY <1>1, <1>8, <1>9, CommandKeeps

LEMMA ChangeMasterKeeps ==
    ASSUME RoomsInv, NEW u \in Users, NEW r \in Live, NEW m \in Seats, ChangeMaster(u, r, m)
    PROVE  RoomsInv' /\ RosterKept
<1>1. InLobby(u, r) /\ IsRacer(u, r) /\ UNCHANGED roomOf /\ m \in Racers(rooms[r])
  BY DEF ChangeMaster, IsMaster
<1>2. RoomInv(rooms[r])
  BY <1>1, InLobbyIs
<1>3. PICK P : P = MasterMoved(rooms[r], m, SeatOf(u, r))
  OBVIOUS
<1>4. Put(r, P)
  BY <1>3 DEF ChangeMaster, MasterMoved
<1>5. RoomInv(P) /\ Inside(P) = Inside(rooms[r])
  BY <1>1, <1>2, <1>3, SeatOfIs, MasterMovedInv
<1> QED
  BY <1>1, <1>4, <1>5, CommandKeeps

LEMMA ChangeBasicAiKeeps ==
    ASSUME RoomsInv, NEW u \in Users, NEW r \in Live, NEW m \in Seats, ChangeBasicAi(u, r, m)
    PROVE  RoomsInv' /\ RosterKept
<1>1. InLobby(u, r) /\ UNCHANGED roomOf
  BY DEF ChangeBasicAi, IsMaster
<1>2. PICK R : R = rooms[r]
  OBVIOUS
<1>3. RoomInv(R)
  BY <1>1, <1>2, InLobbyIs
<1>4. CASE R.ai[m] # None /\ Put(r, AiRemoved(R, m))
  <2>1. PICK P : P = AiRemoved(R, m)
    OBVIOUS
  <2>2. RoomInv(P) /\ Inside(P) = Inside(R)
    BY <1>3, <1>4, <2>1, RemoveAiInv
  <2> QED
    BY <1>1, <1>2, <1>4, <2>1, <2>2, CommandKeeps
<1>5. CASE ~R.teams /\ CanAddAi(R, NoTeam) /\ Put(r, AddAi(R, NoTeam))
  <2>1. PICK P : P = AddAi(R, NoTeam)
    OBVIOUS
  <2>2. RoomInv(P) /\ Inside(P) = Inside(R)
    BY <1>3, <1>5, <2>1, AddAiInv
  <2> QED
    BY <1>1, <1>2, <1>5, <2>1, <2>2, CommandKeeps
<1>6. CASE /\ R.teams /\ CanAddAi(R, Blue) /\ CanAddAi(AddAi(R, Blue), Red)
           /\ Put(r, AddAi(AddAi(R, Blue), Red))
  <2>1. PICK Q : Q = AddAi(R, Blue)
    OBVIOUS
  <2>2. PICK P : P = AddAi(Q, Red)
    OBVIOUS
  <2>3. Blue # NoTeam /\ Red # NoTeam
    BY DEF NoTeam, Red, Blue
  <2>4. RoomInv(Q) /\ Inside(Q) = Inside(R) /\ Q.teams = R.teams
    BY <1>3, <1>6, <2>1, <2>3, AddAiInv
  <2>5. CanAddAi(Q, Red) /\ Put(r, P) /\ Q.teams
    BY <1>6, <2>1, <2>2, <2>4
  <2>6. RoomInv(P) /\ Inside(P) = Inside(Q)
    BY <2>2, <2>3, <2>4, <2>5, AddAiInv
  <2> QED
    BY <1>1, <1>2, <2>4, <2>5, <2>6, CommandKeeps
<1> QED
  BY <1>2, <1>4, <1>5, <1>6 DEF ChangeBasicAi, AiRemoved

LEMMA ChangeClosedSlotsKeeps ==
    ASSUME RoomsInv, NEW u \in Users, NEW r \in Live, NEW p \in Seats \X Slots,
           NEW q \in Seats \X Slots, ChangeClosedSlots(u, r, p, q)
    PROVE  RoomsInv' /\ RosterKept
<1>1. InLobby(u, r) /\ UNCHANGED roomOf
  BY DEF ChangeClosedSlots, IsMaster
<1>2. PICK R : R = rooms[r]
  OBVIOUS
<1>3. RoomInv(R)
  BY <1>1, <1>2, InLobbyIs
<1>4. R.teams => Distinct(p, q)
  BY <1>2 DEF ChangeClosedSlots
<1>5. CASE /\ Closable(R, p) /\ (R.teams => Closable(R, q))
           /\ Put(r, IF R.teams THEN CloseSlot(CloseSlot(R, p), q) ELSE CloseSlot(R, p))
  <2>1. PICK Q : Q = CloseSlot(R, p)
    OBVIOUS
  <2>2. /\ RoomInv(Q) /\ Inside(Q) = Inside(R)
        /\ \A x \in Seats \X Slots : Closable(R, x) /\ Distinct(p, x) => Closable(Q, x)
    BY <1>3, <1>5, <2>1, CloseSlotInv
  <2>3. CASE R.teams
    <3>1. PICK P : P = CloseSlot(Q, q)
      OBVIOUS
    <3>2. Closable(Q, q) /\ Put(r, P)
      BY <1>4, <1>5, <2>1, <2>2, <2>3, <3>1
    <3>3. RoomInv(P) /\ Inside(P) = Inside(Q)
      BY <2>2, <3>1, <3>2, CloseSlotInv
    <3> QED
      BY <1>1, <1>2, <2>2, <3>2, <3>3, CommandKeeps
  <2>4. CASE ~R.teams
    BY <1>1, <1>2, <1>5, <2>1, <2>2, <2>4, CommandKeeps
  <2> QED
    BY <2>3, <2>4
<1>6. CASE /\ Openable(R, p) /\ (R.teams => Openable(R, q))
           /\ Put(r, IF R.teams THEN OpenSlot(OpenSlot(R, p), q) ELSE OpenSlot(R, p))
  <2>1. PICK Q : Q = OpenSlot(R, p)
    OBVIOUS
  <2>2. /\ RoomInv(Q) /\ Inside(Q) = Inside(R)
        /\ \A x \in Seats \X Slots : Openable(R, x) /\ Distinct(p, x) => Openable(Q, x)
    BY <1>3, <1>6, <2>1, OpenSlotInv
  <2>3. CASE R.teams
    <3>1. PICK P : P = OpenSlot(Q, q)
      OBVIOUS
    <3>2. Openable(Q, q) /\ Put(r, P)
      BY <1>4, <1>6, <2>1, <2>2, <2>3, <3>1
    <3>3. RoomInv(P) /\ Inside(P) = Inside(Q)
      BY <2>2, <3>1, <3>2, OpenSlotInv
    <3> QED
      BY <1>1, <1>2, <2>2, <3>2, <3>3, CommandKeeps
  <2>4. CASE ~R.teams
    BY <1>1, <1>2, <1>6, <2>1, <2>2, <2>4, CommandKeeps
  <2> QED
    BY <2>3, <2>4
<1> QED
  BY <1>2, <1>5, <1>6 DEF ChangeClosedSlots

LEMMA KickPlayerKeeps ==
    ASSUME RoomsInv, NEW u \in Users, NEW r \in Live, NEW m \in Seats, KickPlayer(u, r, m)
    PROVE  RoomsInv' /\ RosterKept
<1>1. InLobby(u, r) /\ m \in Racers(rooms[r])
  BY DEF KickPlayer, IsMaster
<1>2. r \in RoomIds /\ rooms[r] # None /\ RoomInv(rooms[r]) /\ rooms[r].phase = "lobby"
  BY <1>1, InLobbyIs
<1>3. PICK v : v = rooms[r].member[m]
  OBVIOUS
<1>4. v \in Inside(rooms[r])
  BY <1>1, <1>2, <1>3 DEF RoomInv, Room, Racers, Inside
<1>5. PICK P : P = RemoveUser(rooms[r], v)
  OBVIOUS
<1>6. P.phase = "lobby"
  BY <1>2, <1>4, <1>5, RemoveUserInv
<1>7. IF IsEmpty(P) THEN Delete(r) ELSE Put(r, P)
  BY <1>3, <1>5 DEF KickPlayer
<1>8. IF IsEmpty(P) /\ P.phase # "racing" THEN Delete(r) ELSE Put(r, P)
  BY <1>6, <1>7
<1>9. roomOf' = [roomOf EXCEPT ![v] = None]
  BY <1>3 DEF KickPlayer
<1> QED
  BY <1>2, <1>4, <1>5, <1>8, <1>9, Removes

LEMMA StartRoomKeeps ==
    ASSUME RoomsInv, NEW u \in Users, NEW r \in Live, StartRoom(u, r)
    PROVE  RoomsInv' /\ RosterKept
<1>1. InLobby(u, r) /\ UNCHANGED roomOf
  BY DEF StartRoom, IsMaster
<1>2. RoomInv(rooms[r])
  BY <1>1, InLobbyIs
<1>3. PICK P : P = Phased(rooms[r], "loading")
  OBVIOUS
<1>4. Put(r, P)
  BY <1>3 DEF StartRoom, Phased
<1>5. RoomInv(P) /\ Inside(P) = Inside(rooms[r])
  BY <1>2, <1>3, PhasedInv
<1> QED
  BY <1>1, <1>4, <1>5, CommandKeeps

LEMMA BeginRaceKeeps ==
    ASSUME RoomsInv, NEW r \in Live, BeginRace(r)
    PROVE  RoomsInv' /\ RosterKept
<1>1. r \in RoomIds /\ rooms[r] # None /\ RoomInv(rooms[r]) /\ UNCHANGED roomOf
  BY DEF Live, RoomsInv, RoomFits, BeginRace
<1>2. PICK P : P = Phased(rooms[r], "racing")
  OBVIOUS
<1>3. Put(r, P)
  BY <1>2 DEF BeginRace, Phased
<1>4. RoomInv(P) /\ Inside(P) = Inside(rooms[r]) /\ P.phase = "racing" /\ Shrunk(rooms[r], P)
  BY <1>1, <1>2, PhasedInv
<1> QED
  BY <1>1, <1>3, <1>4, Updates

LEMMA AbortLoadingKeeps ==
    ASSUME RoomsInv, NEW r \in Live, AbortLoading(r)
    PROVE  RoomsInv' /\ RosterKept
<1>1. r \in RoomIds /\ rooms[r] # None /\ RoomFits(r) /\ UNCHANGED roomOf
  BY DEF Live, RoomsInv, AbortLoading
<1>2. RoomInv(rooms[r]) /\ Inside(rooms[r]) # {}
  BY <1>1 DEF RoomFits, AbortLoading
<1>3. PICK P : P = Phased(NotReady(rooms[r]), "lobby")
  OBVIOUS
<1>4. Put(r, P)
  BY <1>3 DEF AbortLoading, Phased
<1>5. RoomInv(P) /\ Inside(P) = Inside(rooms[r]) /\ Shrunk(rooms[r], P)
  BY <1>2, <1>3, AbortInv
<1> QED
  BY <1>1, <1>2, <1>4, <1>5, Updates

LEMMA EndRaceKeeps ==
    ASSUME RoomsInv, NEW r \in Live, NEW order \in Orders(Racers(rooms[r])),
           NEW winner \in {Red, Blue}, EndRace(r, order, winner)
    PROVE  RoomsInv' /\ RosterKept
<1>1. r \in RoomIds /\ rooms[r] # None /\ RoomFits(r) /\ UNCHANGED roomOf /\ TypeOK
  BY DEF Live, RoomsInv, EndRace
<1>2. RoomInv(rooms[r]) /\ rooms[r] \in Room
  BY <1>1 DEF RoomFits, RoomInv
<1>3. CASE IsEmpty(rooms[r])
  <2>1. Delete(r)
    BY <1>3 DEF EndRace
  <2>2. Moved(r, None)
    BY <1>1, <2>1 DEF Moved, Delete, TypeOK
  <2>3. Inside(rooms[r]) = {}
    BY <1>2, <1>3, InsideMeans
  <2>4. \A u \in Users : roomOf'[u] # r
    BY <1>1, <2>3 DEF RoomFits
  <2> QED
    BY <1>1, <2>2, <2>4, Deletes
<1>4. CASE ~IsEmpty(rooms[r])
  <2>1. PICK P : P = Finished(rooms[r], order, winner)
    OBVIOUS
  <2>2. Put(r, P)
    BY <1>4, <2>1 DEF EndRace, Finished, Ranking
  <2>3. RoomInv(P) /\ Inside(P) = Inside(rooms[r]) /\ Shrunk(rooms[r], P)
    BY <1>2, <2>1, FinishedInv
  <2>4. Inside(rooms[r]) # {}
    BY <1>2, <1>4, InsideMeans
  <2> QED
    BY <1>1, <2>2, <2>3, <2>4, Updates
<1> QED
  BY <1>3, <1>4

-----------------------------------------------------------------------------
LEMMA NextKeeps ==
    ASSUME RoomsInv, [Next]_vars
    PROVE  RoomsInv' /\ RosterKept
<1> HIDE DEF RoomsInv, RosterKept
<1>1. ASSUME NEW u \in Users, NEW r \in Live, Command(u, r) PROVE RoomsInv' /\ RosterKept
  BY <1>1, SetSlotStateKeeps, ChangeTeamKeeps, ChangeMasterKeeps, ChangeBasicAiKeeps,
     KickPlayerKeeps, ChangeClosedSlotsKeeps, StartRoomKeeps DEF Command
<1>2. ASSUME NEW u \in Users, NEW kind \in Kinds, NEW teams \in BOOLEAN, Create(u, teams, kind)
      PROVE  RoomsInv' /\ RosterKept
  BY <1>2, CreateKeeps
<1>3. ASSUME NEW u \in Users, NEW kind \in Kinds, NEW r \in Live, Join(u, r, kind)
      PROVE  RoomsInv' /\ RosterKept
  BY <1>3, JoinKeeps
<1>4. ASSUME NEW u \in Users, Leave(u) PROVE RoomsInv' /\ RosterKept
  BY <1>4, LeaveKeeps
<1>5. ASSUME NEW r \in Live, BeginRace(r) \/ AbortLoading(r) PROVE RoomsInv' /\ RosterKept
  BY <1>5, BeginRaceKeeps, AbortLoadingKeeps
<1>6. ASSUME NEW r \in Live, NEW order \in Orders(Racers(rooms[r])), NEW winner \in {Red, Blue},
             EndRace(r, order, winner)
      PROVE  RoomsInv' /\ RosterKept
  BY <1>6, EndRaceKeeps
<1>7. CASE UNCHANGED vars
  BY <1>7 DEF vars, RoomsInv, RosterKept, TypeOK, RoomFits, Shrunk
<1> QED
  BY <1>1, <1>2, <1>3, <1>4, <1>5, <1>6, <1>7 DEF Next

(* RoomsInv is inductive.                                                  *)
THEOREM RoomsInvariant == Spec => []RoomsInv
<1>1. Init => RoomsInv
  BY Sizes DEF Init, RoomsInv, TypeOK, RoomIds
<1>2. RoomsInv /\ [Next]_vars => RoomsInv'
  BY NextKeeps
<1> QED
  BY <1>1, <1>2, PTL DEF Spec

(* The tables of the World actor's rooms keep their types, the id counter  *)
(* its u16 range.                                                          *)
THEOREM RoomsTypeCorrect == Spec => []TypeOK
<1>1. RoomsInv => TypeOK
  BY DEF RoomsInv
<1> QED
  BY <1>1, RoomsInvariant, PTL

LEMMA PlayerIdsCount ==
    ASSUME NEW R, RoomInv(R), NEW u \in Users
    PROVE  Cardinality(PlayerIds(R, u)) = IF u \in Inside(R) THEN 1 ELSE 0
<1>1. u # None
  BY Sizes
<1>2. CASE u \notin Inside(R)
  <2>1. PlayerIds(R, u) = {}
    BY <1>2 DEF PlayerIds, Inside, Racers, Watchers
  <2> QED
    BY <1>2, <2>1, FS_EmptySet
<1>3. CASE u \in Inside(R)
  <2>1. PICK id : id \in PlayerIds(R, u)
    BY <1>1, <1>3 DEF PlayerIds, Inside, Racers, Watchers
  <2>2. ASSUME NEW j \in PlayerIds(R, u) PROVE j = id
    <3>1. \/ id \in Racers(R) /\ R.member[id] = u
          \/ \E o \in Watchers(R) : id = ROOM_SLOT_COUNT + o /\ R.observer[o] = u
      BY <2>1 DEF PlayerIds
    <3>2. \/ j \in Racers(R) /\ R.member[j] = u
          \/ \E o \in Watchers(R) : j = ROOM_SLOT_COUNT + o /\ R.observer[o] = u
      BY DEF PlayerIds
    <3> QED
      BY <1>1, <3>1, <3>2 DEF RoomInv, Apart, Racers, Watchers
  <2>3. PlayerIds(R, u) = {id}
    BY <2>1, <2>2
  <2> QED
    BY <1>3, <2>3, FS_Singleton
<1> QED
  BY <1>2, <1>3

(* However users create, join, leave, are kicked or race, the membership   *)
(* index and the rooms agree about every user, no room is left without     *)
(* users outside its race, and no id is both free and in use.              *)
THEOREM DirectoryAlwaysAgrees == Spec => []DirectoryAgrees
<1>1. RoomsInv => DirectoryAgrees
  <2> SUFFICES ASSUME RoomsInv PROVE DirectoryAgrees
    OBVIOUS
  <2>1. TypeOK /\ \A r \in Live : r \in RoomIds /\ RoomFits(r) /\ r \notin freeIds
    BY DEF RoomsInv, Live
  <2>2. \A u \in Users : roomOf[u] # None => roomOf[u] \in Live
    BY <2>1 DEF RoomsInv, Live, TypeOK
  <2>3. ASSUME NEW u \in Users, NEW r \in Live
        PROVE  Cardinality(PlayerIds(rooms[r], u)) = IF roomOf[u] = r THEN 1 ELSE 0
    <3>1. RoomInv(rooms[r]) /\ (u \in Inside(rooms[r]) <=> roomOf[u] = r)
      BY <2>1 DEF RoomFits
    <3> QED
      BY <3>1, PlayerIdsCount
  <2>4. ASSUME NEW r \in Live, IsEmpty(rooms[r]) PROVE rooms[r].phase = "racing"
    <3>1. RoomFits(r) /\ rooms[r] \in Room
      BY <2>1 DEF RoomFits, RoomInv
    <3> QED
      BY <2>4, <3>1, InsideMeans DEF RoomFits
  <2> QED
    BY <2>1, <2>2, <2>3, <2>4 DEF DirectoryAgrees, TypeOK
<1> QED
  BY <1>1, RoomsInvariant, PTL

LEMMA OccupantCount ==
    ASSUME NEW R, SeatInv(R), NEW m \in Seats
    PROVE  Cardinality({k \in {"member", "ai", "closed"} : R[k][m] # None}) <= 1
<1> DEFINE K == {k \in {"member", "ai", "closed"} : R[k][m] # None}
<1>1. \E k : K \subseteq {k}
  <2>1. \A k \in K : (k = "member" /\ R.member[m] # None) \/ (k = "ai" /\ R.ai[m] # None)
                       \/ (k = "closed" /\ R.closed[m] # None)
    OBVIOUS
  <2> HIDE DEF K
  <2>2. /\ R.member[m] # None => R.ai[m] = None /\ R.closed[m] = None
        /\ R.ai[m] # None => R.closed[m] = None
    BY DEF SeatInv, OneOccupant
  <2>3. CASE R.member[m] # None
    BY <2>1, <2>2, <2>3
  <2>4. CASE R.member[m] = None /\ R.ai[m] # None
    BY <2>1, <2>2, <2>4
  <2>5. CASE R.member[m] = None /\ R.ai[m] = None
    BY <2>1, <2>5
  <2> QED
    BY <2>3, <2>4, <2>5
<1> HIDE DEF K
<1>2. PICK k : K \subseteq {k}
  BY <1>1
<1>3. IsFiniteSet({k}) /\ Cardinality({k}) = 1
  BY FS_Singleton
<1>4. Cardinality(K) <= Cardinality({k})
  BY <1>2, <1>3, FS_Subset
<1>5. Cardinality(K) <= 1
  BY <1>3, <1>4
<1> QED
  BY <1>5 DEF K

LEMMA SlotCount ==
    ASSUME NEW R, SeatInv(R), NEW m \in Seats
    PROVE  Cardinality({s \in Slots : R.slot[s] = m}) = IF m \in VacantSeats(R) THEN 0 ELSE 1
<1> DEFINE S == {s \in Slots : R.slot[s] = m}
<1>1. m # None
  BY Sizes DEF Seats
<1>2. m \in VacantSeats(R) <=> ~Occupied(R, m)
  BY DEF VacantSeats, Occupied
<1>3. CASE ~Occupied(R, m)
  <2>1. S = {}
    BY <1>1, <1>3 DEF SeatInv, Slotted
  <2> QED
    BY <1>2, <1>3, <2>1, FS_EmptySet
<1>4. CASE Occupied(R, m)
  <2>1. PICK s \in Slots : R.slot[s] = m
    BY <1>4 DEF SeatInv, Slotted
  <2>2. S = {s}
    BY <1>1, <2>1 DEF SeatInv, Slotted
  <2>3. Cardinality({s}) = 1
    BY FS_Singleton
  <2> QED
    BY <1>2, <1>4, <2>2, <2>3
<1> QED
  BY <1>3, <1>4

(* The parallel arrays of every room agree, in every sequence of commands: *)
(* the slot that the code looks up and unwraps for a racer or an AI is     *)
(* there, is the only one and is in the half of its team.                  *)
THEOREM SeatsAlwaysConsistent == Spec => []SeatsConsistent
<1>1. RoomsInv => SeatsConsistent
  <2> SUFFICES ASSUME RoomsInv, NEW r \in Live, NEW R, R = rooms[r]
               PROVE  /\ \A m \in Seats :
                          /\ Cardinality({k \in {"member", "ai", "closed"} : R[k][m] # None}) <= 1
                          /\ Cardinality({s \in Slots : R.slot[s] = m})
                                 = IF m \in VacantSeats(R) THEN 0 ELSE 1
                          /\ R.closed[m] # None => R.slot[R.closed[m]] = m
                      /\ \A m \in Seats, s \in Slots :
                          R.slot[s] = m /\ R.closed[m] = None =>
                             LET t == IF R.ai[m] # None THEN R.ai[m] ELSE R.team[m]
                             IN  (t = NoTeam <=> ~R.teams) /\ s \in Half(t)
    BY DEF SeatsConsistent
  <2>1. SeatInv(R)
    BY DEF RoomsInv, RoomFits, RoomInv, Live
  <2>2. \A m \in Seats : R.closed[m] # None => R.slot[R.closed[m]] = m
    BY <2>1 DEF SeatInv, Slotted
  <2>3. ASSUME NEW m \in Seats, NEW s \in Slots, R.slot[s] = m, R.closed[m] = None
        PROVE  (TeamOf(R, m) = NoTeam <=> ~R.teams) /\ s \in Half(TeamOf(R, m))
    <3>1. m # None
      BY Sizes DEF Seats
    <3> QED
      BY <2>1, <2>3, <3>1 DEF SeatInv, Teamed, Fits
  <2> QED
    BY <2>1, <2>2, <2>3, OccupantCount, SlotCount DEF TeamOf
<1> QED
  BY <1>1, RoomsInvariant, PTL

(* A populated room always has a master who is in it, or is one of plain   *)
(* observers with the placeholder.                                         *)
THEOREM MasterAlwaysLives == Spec => []MasterLives
<1>1. RoomsInv => MasterLives
  BY DEF RoomsInv, RoomFits, RoomInv, Led, Live, MasterLives
<1> QED
  BY <1>1, RoomsInvariant, PTL

(* The grid order of a room has no gap and no tie: admission appends,      *)
(* compaction closes the gap of a racer who leaves, and a settled result   *)
(* order replaces it whole.                                                *)
THEOREM RanksAlwaysPermute == Spec => []RanksArePermutation
<1>1. RoomsInv => RanksArePermutation
  BY DEF RoomsInv, RoomFits, RoomInv, Ranked, Live, RanksArePermutation
<1> QED
  BY <1>1, RoomsInvariant, PTL

(* No step lets anybody into a race that is loading or running, or moves   *)
(* one who stays in it.                                                    *)
THEOREM RosterAlwaysShrinks == Spec => RosterOnlyShrinks
<1>1. RoomsInv /\ [Next]_vars => RosterKept
  BY NextKeeps
<1>2. RoomsInv /\ [Next]_vars =>
        [\A r \in RoomIds :
            rooms[r] # None /\ rooms'[r] # None /\ rooms[r].phase # "lobby" =>
               /\ \A m \in Seats : rooms'[r].member[m] \in {rooms[r].member[m], None}
               /\ \A o \in Booths : rooms'[r].observer[o] \in {rooms[r].observer[o], None}
               /\ \A s \in Slots : LET m == rooms[r].slot[s] IN
                     m \in Seats => \/ rooms'[r].slot[s] = m
                                    \/ rooms'[r].member[m] # rooms[r].member[m]
               /\ rooms'[r].ai = rooms[r].ai /\ rooms'[r].closed = rooms[r].closed]_vars
  BY <1>1 DEF RosterKept, Shrunk
<1> QED
  BY <1>2, RoomsInvariant, PTL DEF Spec, RosterOnlyShrinks
=============================================================================

---------------------------- MODULE MyRoomHubProofs ----------------------------
(***************************************************************************)
(* Proofs about MyRoomHub for any finite set of users, every number of     *)
(* seats, every capacity and every set of room policies.                   *)
(***************************************************************************)
EXTENDS MyRoomHub, FiniteSetTheorems, WellFoundedInduction, TLAPS

(* The invariant.  First what is said of the tables of the hub alone.      *)
Tables == [rooms : [Users -> OrNone(Room)], member : [Users -> OrNone(Place)],
           canon : [Users -> OrNone(0..GenMax)]]

(* A user is where its membership says.                                    *)
Placed(h) == \A u \in Users : h.member[u] # None =>
    LET m == h.member[u]
        r == h.rooms[m.owner]
    IN  /\ r # None
        /\ IF m.slot = OWNER THEN m.owner = u /\ r.present
           ELSE r.seats[m.slot] # None /\ r.seats[m.slot].user = u

(* A room is not empty, and everybody in it has it as membership.          *)
Inhabited(h) == \A o \in Users : h.rooms[o] # None =>
    LET r == h.rooms[o]
    IN  /\ Mapped(o, r) # {}
        /\ r.present => h.member[o] = [owner |-> o, slot |-> OWNER]
        /\ \A i \in Seats : r.seats[i] # None =>
             /\ h.member[r.seats[i].user] = [owner |-> o, slot |-> i]
             /\ r.seats[i].user # o

(* Every role of a user carries its one generation, and an address that    *)
(* this generation made known.                                             *)
OneGeneration(h) == \A o \in Users : h.rooms[o] # None =>
    LET r == h.rooms[o]
    IN  /\ r.gen = h.canon[o]
        /\ r.port # None => r.present /\ r.port = r.gen
        /\ \A i \in Seats : r.seats[i] # None =>
             /\ r.seats[i].gen = h.canon[r.seats[i].user]
             /\ r.seats[i].port # None => r.seats[i].port = r.seats[i].gen

Rooted(h) == \A u \in Users : HasRole(h, u) => h.canon[u] # None
Pruned(h) == \A u \in Users : h.canon[u] # None => HasRole(h, u)

Sound(h) == h \in Tables /\ Placed(h) /\ Inhabited(h) /\ OneGeneration(h) /\ Rooted(h)
HubInv(h) == Sound(h) /\ Pruned(h)

(* A proof of a password is one of the policy with its revision.           *)
Proves(h, o, rev, proof) ==
    h.rooms[o] # None /\ h.rooms[o].rev = rev => h.rooms[o].info.item = proof

GrantsProve(h) == \A u \in Users : grants[u] # None =>
    Proves(h, grants[u].owner, grants[u].rev, grants[u].proof)
PlansProve(h) == \A u \in Users : op[u] # None /\ op[u].kind = "read" /\ op[u].grant =>
    Proves(h, op[u].plan.owner, op[u].plan.rev, op[u].proof)

(* Who is not offline has a generation.                                    *)
Present == \A u \in Users : life[u] # "offline" => gen[u] # 0

MyRoomInv == /\ TypeOK /\ HubInv(hub) /\ Cardinality(Tracked(hub)) <= Capacity
             /\ Present /\ RolesAreLive
             /\ GrantsProve(hub) /\ PlansProve(hub) /\ ProtectedReadIsEarned

-----------------------------------------------------------------------------
(* A release disconnects its users one after the other (FoldSet).  What    *)
(* the fold computes is a function on the subsets: it exists because it    *)
(* does on those of each size.                                             *)
Chosen(s) == CHOOSE u \in s : TRUE
Unrolled(f, h, D) ==
    f = [s \in D |-> IF s = {} THEN h ELSE Disconnect(f[s \ {Chosen(s)}], Chosen(s))]
Small(S, n) == {s \in SUBSET S : Cardinality(s) <= n}
DisconnectAll(h, S) == FoldSet(LAMBDA u, x : Disconnect(x, u), h, S)

LEMMA Smaller ==
    ASSUME NEW S, IsFiniteSet(S), NEW s \in SUBSET S, s # {}
    PROVE  /\ Chosen(s) \in s /\ s \ {Chosen(s)} \in SUBSET S
           /\ IsFiniteSet(s) /\ IsFiniteSet(s \ {Chosen(s)})
           /\ Cardinality(s) \in Nat /\ Cardinality(s) = Cardinality(s \ {Chosen(s)}) + 1
           /\ Cardinality(s \ {Chosen(s)}) \in Nat
<1>1. Chosen(s) \in s
  BY DEF Chosen
<1>2. IsFiniteSet(s)
  BY FS_Subset
<1>3. IsFiniteSet(s \ {Chosen(s)}) /\ Cardinality(s \ {Chosen(s)}) = Cardinality(s) - 1
  BY <1>1, <1>2, FS_RemoveElement
<1>4. Cardinality(s) \in Nat /\ Cardinality(s \ {Chosen(s)}) \in Nat
  BY <1>2, <1>3, FS_CardinalityType
<1> QED
  BY <1>1, <1>2, <1>3, <1>4

LEMMA FoldExtends ==
    ASSUME NEW S, IsFiniteSet(S), NEW h, NEW n \in Nat, NEW f, Unrolled(f, h, Small(S, n))
    PROVE  \E g : Unrolled(g, h, Small(S, n + 1))
<1> DEFINE D == Small(S, n + 1)
           g == [s \in D |-> IF s = {} THEN h ELSE Disconnect(f[s \ {Chosen(s)}], Chosen(s))]
<1>1. ASSUME NEW s \in D, s # {} PROVE g[s \ {Chosen(s)}] = f[s \ {Chosen(s)}]
  <2> DEFINE t == s \ {Chosen(s)}
  <2>1. t \in SUBSET S /\ Cardinality(t) \in Nat /\ Cardinality(s) = Cardinality(t) + 1
    BY <1>1, Smaller DEF Small
  <2>2. t \in Small(S, n) /\ t \in D
    BY <1>1, <2>1 DEF Small
  <2> HIDE DEF t, D
  <2>3. f[t] = IF t = {} THEN h ELSE Disconnect(f[t \ {Chosen(t)}], Chosen(t))
    BY <2>2 DEF Unrolled
  <2>4. g[t] = IF t = {} THEN h ELSE Disconnect(f[t \ {Chosen(t)}], Chosen(t))
    BY <2>2
  <2>5. g[t] = f[t]
    BY <2>3, <2>4
  <2> QED
    BY <2>5 DEF t
<1>2. g = [s \in D |-> IF s = {} THEN h ELSE Disconnect(g[s \ {Chosen(s)}], Chosen(s))]
  <2> HIDE DEF D
  <2> DEFINE k == [s \in D |-> IF s = {} THEN h ELSE Disconnect(g[s \ {Chosen(s)}], Chosen(s))]
  <2>1. ASSUME NEW s \in D PROVE g[s] = k[s]
    <3>1. CASE s = {}
      BY <3>1
    <3>2. CASE s # {}
      <4>1. g[s \ {Chosen(s)}] = f[s \ {Chosen(s)}]
        BY <1>1, <3>2
      <4>2. PICK x : x = f[s \ {Chosen(s)}] /\ x = g[s \ {Chosen(s)}]
        BY <4>1
      <4>3. k[s] = Disconnect(x, Chosen(s))
        BY <3>2, <4>2
      <4>4. g[s] = Disconnect(x, Chosen(s))
        BY <3>2, <4>2
      <4> QED
        BY <4>3, <4>4
    <3> QED
      BY <3>1, <3>2
  <2>2. g = [s \in D |-> g[s]] /\ k = [s \in D |-> k[s]]
    OBVIOUS
  <2> HIDE DEF g, k
  <2>3. g = k
    BY <2>1, <2>2
  <2> QED
    BY <2>3 DEF k
<1> HIDE DEF g, D
<1>3. Unrolled(g, h, D)
  BY <1>2 DEF Unrolled
<1> QED
  BY <1>3 DEF D

LEMMA FoldExists ==
    ASSUME NEW S, IsFiniteSet(S), NEW h
    PROVE  \E f : Unrolled(f, h, SUBSET S)
<1> DEFINE Bad == {n \in Nat : ~ \E f : Unrolled(f, h, Small(S, n))}
<1>1. 0 \notin Bad
  <2> DEFINE f == [s \in Small(S, 0) |-> h]
  <2>1. \A s \in Small(S, 0) : s = {}
    <3> SUFFICES ASSUME NEW s \in Small(S, 0) PROVE s = {}
      OBVIOUS
    <3>1. IsFiniteSet(s) /\ Cardinality(s) <= 0
      BY FS_Subset DEF Small
    <3>2. Cardinality(s) = 0
      BY <3>1, FS_CardinalityType
    <3> QED
      BY <3>1, <3>2, FS_EmptySet
  <2>2. f = [s \in Small(S, 0) |-> IF s = {} THEN h ELSE Disconnect(f[s \ {Chosen(s)}], Chosen(s))]
    BY <2>1
  <2> HIDE DEF f
  <2>3. Unrolled(f, h, Small(S, 0))
    BY <2>2 DEF Unrolled
  <2> QED
    BY <2>3
<1>2. ASSUME NEW n \in Nat, n \notin Bad PROVE n + 1 \notin Bad
  BY <1>2, FoldExtends
<1>3. Bad = {}
  <2> SUFFICES ASSUME Bad # {} PROVE FALSE
    OBVIOUS
  <2>1. Bad \subseteq Nat
    OBVIOUS
  <2> HIDE DEF Bad
  <2>2. PICK n \in Bad : \A k \in Bad : ~(<<k, n>> \in OpToRel(<, Nat))
    BY <2>1, NatLessThanWellFounded, WFMin
  <2>3. n \in Nat /\ n # 0
    BY <1>1, <2>1
  <2>4. n - 1 \in Nat /\ (n - 1) + 1 = n /\ n - 1 < n
    BY <2>3
  <2>5. n - 1 \in Bad
    BY <1>2, <2>4
  <2>6. <<n - 1, n>> \notin {ss \in Nat \X Nat : ss[1] < ss[2]}
    BY <2>2, <2>5, Zenon DEF OpToRel
  <2> QED
    BY <2>3, <2>4, <2>6
<1>4. Small(S, Cardinality(S)) = SUBSET S
  <2>1. \A s \in SUBSET S : Cardinality(s) <= Cardinality(S)
    BY FS_Subset
  <2> QED
    BY <2>1 DEF Small
<1>5. Cardinality(S) \in Nat
  BY FS_CardinalityType
<1>6. \E f : Unrolled(f, h, Small(S, Cardinality(S)))
  BY <1>3, <1>5
<1> QED
  BY <1>4, <1>6

LEMMA FoldIs ==
    ASSUME NEW S, IsFiniteSet(S), NEW h
    PROVE  \E f : Unrolled(f, h, SUBSET S) /\ DisconnectAll(h, S) = f[S]
<1> DEFINE F == CHOOSE f : Unrolled(f, h, SUBSET S)
<1>1. Unrolled(F, h, SUBSET S)
  BY FoldExists
<1>2. DisconnectAll(h, S) = F[S]
  BY DEF DisconnectAll, FoldSet, MapThenFoldSet, Chosen, Unrolled
<1> HIDE DEF F
<1> QED
  BY <1>1, <1>2

-----------------------------------------------------------------------------
(* Numbers: the least of a set, a seat that is free, a revision that is new.*)
LEMMA Constants ==
    /\ IsFiniteSet(Users) /\ Cardinality(Users) \in Nat
    /\ None \notin Users /\ None \notin Nat /\ None \notin Visit
    /\ None \notin Room /\ None \notin Place
    /\ Slots \in Nat \ {0} /\ Capacity \in Nat \ {0} /\ GenMax \in Nat
    /\ Infos \subseteq [locked : BOOLEAN, item : Nat]
    /\ Profiles \in [Users -> Infos]
BY MyRoomAssumption, FS_CardinalityType

LEMMA MinBelongs ==
    ASSUME NEW S, S \subseteq Nat, S # {}
    PROVE  Min(S) \in S
<1>1. PICK n \in S : \A k \in S : ~(<<k, n>> \in OpToRel(<, Nat))
  BY NatLessThanWellFounded, WFMin
<1>2. ASSUME NEW k \in S PROVE n <= k
  <2>1. k \in Nat /\ n \in Nat
    OBVIOUS
  <2>2. <<k, n>> \notin {ss \in Nat \X Nat : ss[1] < ss[2]}
    BY <1>1, Zenon DEF OpToRel
  <2> QED
    BY <2>1, <2>2
<1> QED
  BY <1>2 DEF Min

(* A finite set has a finite image, which is not larger.                   *)
LEMMA ImageIsSmall ==
    ASSUME NEW S, IsFiniteSet(S), NEW T, NEW f, f \in [S -> T], \A y \in T : \E x \in S : y = f[x]
    PROVE  IsFiniteSet(T) /\ Cardinality(T) <= Cardinality(S)
<1>1. f \in Surjection(S, T)
  BY DEF Surjection
<1> QED
  BY <1>1, FS_Surjection

(* What the pending grants and plans know of o's policy, and the room's.   *)
Granted == {grants[u] : u \in {v \in Users : grants[v] # None}}
Planned == {op[u].plan : u \in {v \in Users : op[v] # None /\ op[v].kind = "read"}}
HeldBy(o) == {x.rev : x \in {y \in Granted \union Planned : y.owner = o}}

LEMMA HeldIsSmall ==
    ASSUME NEW o
    PROVE  /\ IsFiniteSet(HeldBy(o))
           /\ Cardinality(HeldBy(o)) <= Cardinality(Users) + Cardinality(Users)
           /\ Cardinality(HeldBy(o)) \in Nat
<1> DEFINE G == {v \in Users : grants[v] # None}
           P == {v \in Users : op[v] # None /\ op[v].kind = "read"}
           Y == {y \in Granted \union Planned : y.owner = o}
<1>1. G \in SUBSET Users /\ P \in SUBSET Users
  OBVIOUS
<1>2. /\ IsFiniteSet(G) /\ Cardinality(G) <= Cardinality(Users)
      /\ IsFiniteSet(P) /\ Cardinality(P) <= Cardinality(Users)
  BY <1>1, Constants, FS_Subset
<1>3. IsFiniteSet({grants[u] : u \in G}) /\ Cardinality({grants[u] : u \in G}) <= Cardinality(G)
  <2> DEFINE T == {grants[u] : u \in G}
             f == [u \in G |-> grants[u]]
  <2>1. f \in [G -> T] /\ \A y \in T : \E x \in G : y = f[x]
    OBVIOUS
  <2> HIDE DEF G, T, f
  <2>2. IsFiniteSet(T) /\ Cardinality(T) <= Cardinality(G)
    BY <1>2, <2>1, ImageIsSmall
  <2> QED
    BY <2>2 DEF T
<1>4. IsFiniteSet({op[u].plan : u \in P}) /\ Cardinality({op[u].plan : u \in P}) <= Cardinality(P)
  <2> DEFINE T == {op[u].plan : u \in P}
             f == [u \in P |-> op[u].plan]
  <2>1. f \in [P -> T] /\ \A y \in T : \E x \in P : y = f[x]
    OBVIOUS
  <2> HIDE DEF P, T, f
  <2>2. IsFiniteSet(T) /\ Cardinality(T) <= Cardinality(P)
    BY <1>2, <2>1, ImageIsSmall
  <2> QED
    BY <2>2 DEF T
<1>5. Granted = {grants[u] : u \in G} /\ Planned = {op[u].plan : u \in P}
  BY DEF Granted, Planned
<1>6. /\ IsFiniteSet(Granted) /\ Cardinality(Granted) <= Cardinality(G)
      /\ IsFiniteSet(Planned) /\ Cardinality(Planned) <= Cardinality(P)
  BY <1>3, <1>4, <1>5
<1>7. /\ IsFiniteSet(Granted \union Planned) /\ IsFiniteSet(Granted \cap Planned)
      /\ Cardinality(Granted \union Planned)
           = Cardinality(Granted) + Cardinality(Planned) - Cardinality(Granted \cap Planned)
  BY <1>6, FS_Union, FS_Intersection
<1>8. Y \in SUBSET (Granted \union Planned)
  OBVIOUS
<1>9. IsFiniteSet(Y) /\ Cardinality(Y) <= Cardinality(Granted \union Planned)
  BY <1>7, <1>8, FS_Subset
<1>10. IsFiniteSet({x.rev : x \in Y}) /\ Cardinality({x.rev : x \in Y}) <= Cardinality(Y)
  <2> DEFINE T == {x.rev : x \in Y}
             f == [x \in Y |-> x.rev]
  <2>1. f \in [Y -> T] /\ \A y \in T : \E x \in Y : y = f[x]
    OBVIOUS
  <2> HIDE DEF Y, T, f
  <2>2. IsFiniteSet(T) /\ Cardinality(T) <= Cardinality(Y)
    BY <1>9, <2>1, ImageIsSmall
  <2> QED
    BY <2>2 DEF T
<1>11. HeldBy(o) = {x.rev : x \in Y}
  BY DEF HeldBy
<1>12. IsFiniteSet(HeldBy(o)) /\ Cardinality(HeldBy(o)) <= Cardinality(Y)
  BY <1>10, <1>11
<1> HIDE DEF G, P, Y
<1>13. /\ Cardinality(G) \in Nat /\ Cardinality(P) \in Nat /\ Cardinality(Y) \in Nat
       /\ Cardinality(Granted) \in Nat /\ Cardinality(Planned) \in Nat
       /\ Cardinality(Granted \union Planned) \in Nat /\ Cardinality(Granted \cap Planned) \in Nat
       /\ Cardinality(HeldBy(o)) \in Nat /\ Cardinality(Users) \in Nat
  BY <1>2, <1>6, <1>7, <1>9, <1>12, Constants, FS_CardinalityType
<1> QED
  BY <1>2, <1>6, <1>7, <1>9, <1>12, <1>13

LEMMA FreshIsFree ==
    ASSUME NEW o
    PROVE  /\ FreshRevision(o) \in Revisions
           /\ FreshRevision(o) \notin HeldBy(o)
           /\ hub.rooms[o] # None => FreshRevision(o) # hub.rooms[o].rev
<1> DEFINE R == IF hub.rooms[o] = None THEN {} ELSE {hub.rooms[o].rev}
           H == HeldBy(o) \union R
<1>1. FreshRevision(o) = Min(Revisions \ H)
  BY DEF FreshRevision, HeldBy, Granted, Planned
<1>2. IsFiniteSet(R) /\ Cardinality(R) <= 1 /\ Cardinality(R) \in Nat
  <2>1. IsFiniteSet({}) /\ Cardinality({}) = 0
    BY FS_EmptySet
  <2>2. IsFiniteSet({hub.rooms[o].rev}) /\ Cardinality({hub.rooms[o].rev}) = 1
    BY FS_Singleton
  <2>3. R = {} \/ R = {hub.rooms[o].rev}
    OBVIOUS
  <2> HIDE DEF R
  <2> QED
    BY <2>1, <2>2, <2>3
<1>3. /\ IsFiniteSet(HeldBy(o)) /\ Cardinality(HeldBy(o)) <= Cardinality(Users) + Cardinality(Users)
      /\ Cardinality(HeldBy(o)) \in Nat
  BY HeldIsSmall
<1>4. /\ IsFiniteSet(H) /\ IsFiniteSet(HeldBy(o) \cap R)
      /\ Cardinality(H) = Cardinality(HeldBy(o)) + Cardinality(R) - Cardinality(HeldBy(o) \cap R)
  <2> HIDE DEF R
  <2> QED
    BY <1>2, <1>3, FS_Union, FS_Intersection
<1>5. Cardinality(HeldBy(o) \cap R) \in Nat /\ Cardinality(H) \in Nat
  BY <1>4, FS_CardinalityType
<1> HIDE DEF R
<1>6. Cardinality(Users) \in Nat
  BY Constants
<1>7. Cardinality(H) < 2 * Cardinality(Users) + 2
  <2> HIDE DEF H
  <2> QED
    BY <1>2, <1>3, <1>4, <1>5, <1>6
<1>8. IsFiniteSet(Revisions) /\ Cardinality(Revisions) = 2 * Cardinality(Users) + 2
  <2>1. 1 \in Int /\ 2 * Cardinality(Users) + 2 \in Int /\ ~(1 > 2 * Cardinality(Users) + 2)
    BY <1>6
  <2>2. Cardinality(Revisions) = (2 * Cardinality(Users) + 2) - 1 + 1
    BY <2>1, FS_Interval DEF Revisions
  <2>3. IsFiniteSet(Revisions)
    BY <2>1, FS_Interval DEF Revisions
  <2> QED
    BY <1>6, <2>2, <2>3
<1>9. Revisions \ H # {}
  <2> HIDE DEF H
  <2> SUFFICES ASSUME Revisions \ H = {} PROVE FALSE
    OBVIOUS
  <2>1. Revisions \in SUBSET H
    OBVIOUS
  <2>2. Cardinality(Revisions) <= Cardinality(H)
    BY <1>4, <2>1, FS_Subset
  <2>3. 2 * Cardinality(Users) + 2 \in Nat
    BY <1>6
  <2> QED
    BY <1>5, <1>7, <1>8, <2>2, <2>3
<1>10. Revisions \ H \subseteq Nat
  BY <1>6 DEF Revisions
<1>11. Min(Revisions \ H) \in Revisions \ H
  <2> HIDE DEF H
  <2> QED
    BY <1>9, <1>10, MinBelongs
<1> QED
  BY <1>1, <1>11 DEF R

(* A new revision fits no grant and no plan for a room of o.               *)
LEMMA FreshFits ==
    ASSUME NEW o
    PROVE  /\ \A u \in Users : grants[u] # None /\ grants[u].owner = o
                => grants[u].rev # FreshRevision(o)
           /\ \A u \in Users : op[u] # None /\ op[u].kind = "read" /\ op[u].plan.owner = o
                => op[u].plan.rev # FreshRevision(o)
<1>1. FreshRevision(o) \notin HeldBy(o)
  BY FreshIsFree
<1>2. ASSUME NEW u \in Users, grants[u] # None, grants[u].owner = o
      PROVE  grants[u].rev \in HeldBy(o)
  BY <1>2 DEF HeldBy, Granted
<1>3. ASSUME NEW u \in Users, op[u] # None, op[u].kind = "read", op[u].plan.owner = o
      PROVE  op[u].plan.rev \in HeldBy(o)
  BY <1>3 DEF HeldBy, Planned
<1> QED
  BY <1>1, <1>2, <1>3

-----------------------------------------------------------------------------
(* The parts of a hub, of a room and of a place.                           *)
HubOf(r, m, c) == [rooms |-> r, member |-> m, canon |-> c]

LEMMA HubParts ==
    ASSUME NEW h \in Tables
    PROVE  /\ h.rooms \in [Users -> OrNone(Room)] /\ h.member \in [Users -> OrNone(Place)]
           /\ h.canon \in [Users -> OrNone(0..GenMax)]
           /\ h = HubOf(h.rooms, h.member, h.canon)
BY DEF Tables, HubOf

LEMMA HubTyped ==
    ASSUME NEW r \in [Users -> OrNone(Room)], NEW m \in [Users -> OrNone(Place)],
           NEW c \in [Users -> OrNone(0..GenMax)]
    PROVE  HubOf(r, m, c) \in Tables
BY DEF Tables, HubOf

LEMMA HubReads ==
    ASSUME NEW r, NEW m, NEW c
    PROVE  HubOf(r, m, c).rooms = r /\ HubOf(r, m, c).member = m /\ HubOf(r, m, c).canon = c
BY DEF HubOf

LEMMA RoomParts ==
    ASSUME NEW r \in Room
    PROVE  /\ r # None
           /\ r.gen \in 0..GenMax /\ r.port \in OrNone(1..GenMax) /\ r.info \in Infos
           /\ r.rev \in Revisions /\ r.present \in BOOLEAN
           /\ r.seats \in [Seats -> OrNone(Visit)]
           /\ \A i \in Seats : r.seats[i] # None => r.seats[i] \in Visit
<1>1. r # None
  BY Constants
<1>2. r.seats \in [Seats -> OrNone(Visit)]
  BY DEF Room
<1> QED
  BY <1>1, <1>2 DEF Room, OrNone

LEMMA VisitParts ==
    ASSUME NEW x \in Visit
    PROVE  x # None /\ x.user \in Users /\ x.gen \in 1..GenMax /\ x.port \in OrNone(1..GenMax)
BY Constants DEF Visit

LEMMA PlaceParts ==
    ASSUME NEW m \in Place
    PROVE  /\ m # None /\ m.owner \in Users /\ m.slot \in Seats \union {OWNER}
           /\ m = [owner |-> m.owner, slot |-> m.slot]
BY Constants DEF Place

LEMMA PlaceTyped ==
    ASSUME NEW o \in Users, NEW s \in Seats \union {OWNER}
    PROVE  /\ [owner |-> o, slot |-> s] \in Place /\ [owner |-> o, slot |-> s] # None
           /\ [owner |-> o, slot |-> s].owner = o /\ [owner |-> o, slot |-> s].slot = s
<1>1. [owner |-> o, slot |-> s] \in Place
  BY DEF Place
<1> QED
  BY <1>1, PlaceParts

LEMMA SeatsArePositive == \A i \in Seats : i # OWNER /\ i \in Nat
BY Constants DEF Seats, OWNER

(* A hub knows a user by a room, a place and a generation.                 *)
LEMMA HubPoints ==
    ASSUME NEW h \in Tables, NEW u \in Users
    PROVE  /\ h.rooms[u] # None => h.rooms[u] \in Room
           /\ h.member[u] # None => h.member[u] \in Place
           /\ h.canon[u] # None => h.canon[u] \in 0..GenMax
BY HubParts DEF OrNone

LEMMA InRoom ==
    ASSUME NEW r, NEW o, NEW x
    PROVE  x \in Mapped(o, r) <=> \/ \E i \in Seats : r.seats[i] # None /\ r.seats[i].user = x
                                  \/ r.present /\ x = o
BY DEF Mapped

LEMMA MappedAreUsers ==
    ASSUME NEW r \in Room, NEW o \in Users
    PROVE  Mapped(o, r) \subseteq Users
BY RoomParts, VisitParts, InRoom

(* Taking somebody out of a room.                                          *)
LEMMA RemoveParts ==
    ASSUME NEW r \in Room, NEW s \in Seats \union {OWNER}, NEW p, p = RemoveParticipant(r, s)
    PROVE  /\ p \in Room /\ p.gen = r.gen /\ p.info = r.info /\ p.rev = r.rev
           /\ s = OWNER => p.present = FALSE /\ p.port = None /\ p.seats = r.seats
           /\ s # OWNER => /\ p.present = r.present /\ p.port = r.port
                           /\ \A j \in Seats : p.seats[j] = IF j = s THEN None ELSE r.seats[j]
<1> USE RoomParts
<1>1. CASE s = OWNER
  <2>1. p = [r EXCEPT !.present = FALSE, !.port = None]
    BY <1>1 DEF RemoveParticipant
  <2>2. p \in Room
    BY <2>1 DEF Room, OrNone
  <2> QED
    BY <1>1, <2>1, <2>2 DEF Room
<1>2. CASE s # OWNER
  <2>1. p = [r EXCEPT !.seats = [r.seats EXCEPT ![s] = None]] /\ s \in Seats
    BY <1>2 DEF RemoveParticipant, Room
  <2>2. [r.seats EXCEPT ![s] = None] \in [Seats -> OrNone(Visit)]
    BY <2>1 DEF OrNone
  <2>3. p \in Room
    BY <2>1, <2>2 DEF Room
  <2>4. p.seats = [r.seats EXCEPT ![s] = None] /\ p.gen = r.gen /\ p.info = r.info
        /\ p.rev = r.rev /\ p.present = r.present /\ p.port = r.port
    BY <2>1 DEF Room
  <2>5. \A j \in Seats : p.seats[j] = IF j = s THEN None ELSE r.seats[j]
    BY <2>4
  <2> QED
    BY <1>2, <2>3, <2>4, <2>5
<1> QED
  BY <1>1, <1>2

(* What HubInv says, read off for one user and for one room.               *)
LEMMA PlaceOf ==
    ASSUME NEW h, Sound(h), NEW u \in Users, h.member[u] # None,
           NEW m, m = h.member[u], NEW r, r = h.rooms[m.owner]
    PROVE  /\ m \in Place /\ m.owner \in Users /\ m.slot \in Seats \union {OWNER}
           /\ m = [owner |-> m.owner, slot |-> m.slot]
           /\ r \in Room /\ r # None
           /\ m.slot = OWNER => m.owner = u /\ r.present
           /\ m.slot # OWNER => /\ m.slot \in Seats /\ m.owner # u
                                /\ r.seats[m.slot] # None /\ r.seats[m.slot].user = u
<1>1. m \in Place /\ m.owner \in Users /\ m.slot \in Seats \union {OWNER}
      /\ m = [owner |-> m.owner, slot |-> m.slot]
  BY HubPoints, PlaceParts DEF Sound
<1>2. /\ r # None
      /\ IF m.slot = OWNER THEN m.owner = u /\ r.present
         ELSE r.seats[m.slot] # None /\ r.seats[m.slot].user = u
  BY DEF Sound, Placed
<1>3. r \in Room
  BY <1>1, <1>2, HubPoints DEF Sound
<1>4. m.slot # OWNER => m.slot \in Seats
  BY <1>1
<1>5. m.slot # OWNER => m.owner # u
  <2> SUFFICES ASSUME m.slot # OWNER PROVE m.owner # u
    OBVIOUS
  <2>1. r.seats[m.slot].user # m.owner
    BY <1>1, <1>2, <1>4 DEF Sound, Inhabited
  <2> QED
    BY <1>2, <2>1
<1> QED
  BY <1>1, <1>2, <1>3, <1>4, <1>5

InOrder(h, o) ==
    /\ h.rooms[o] \in Room
    /\ Mapped(o, h.rooms[o]) # {} /\ Mapped(o, h.rooms[o]) \subseteq Users
    /\ h.rooms[o].gen = h.canon[o] /\ h.canon[o] # None
    /\ h.rooms[o].port # None => h.rooms[o].present /\ h.rooms[o].port = h.rooms[o].gen
    /\ h.rooms[o].present => h.member[o] = [owner |-> o, slot |-> OWNER]
    /\ \A i \in Seats : h.rooms[o].seats[i] # None =>
         /\ h.rooms[o].seats[i] \in Visit /\ h.rooms[o].seats[i].user \in Users
         /\ h.member[h.rooms[o].seats[i].user] = [owner |-> o, slot |-> i]
         /\ h.rooms[o].seats[i].user # o
         /\ h.rooms[o].seats[i].gen = h.canon[h.rooms[o].seats[i].user]
         /\ h.rooms[o].seats[i].port # None =>
              h.rooms[o].seats[i].port = h.rooms[o].seats[i].gen

LEMMA RoomOf ==
    ASSUME NEW h, Sound(h), NEW o \in Users, h.rooms[o] # None
    PROVE  InOrder(h, o)
<1> DEFINE r == h.rooms[o]
<1>1. r \in Room
  BY HubPoints DEF Sound
<1>2. \A i \in Seats : r.seats[i] # None => r.seats[i] \in Visit /\ r.seats[i].user \in Users
  BY <1>1, RoomParts, VisitParts
<1>3. h.canon[o] # None
  BY DEF Sound, Rooted, HasRole
<1>4. Mapped(o, r) \subseteq Users
  BY <1>1, MappedAreUsers
<1>5. /\ Mapped(o, r) # {}
      /\ r.present => h.member[o] = [owner |-> o, slot |-> OWNER]
      /\ \A i \in Seats : r.seats[i] # None =>
           /\ h.member[r.seats[i].user] = [owner |-> o, slot |-> i]
           /\ r.seats[i].user # o
  BY DEF Sound, Inhabited
<1>6. /\ r.gen = h.canon[o]
      /\ r.port # None => r.present /\ r.port = r.gen
      /\ \A i \in Seats : r.seats[i] # None =>
           /\ r.seats[i].gen = h.canon[r.seats[i].user]
           /\ r.seats[i].port # None => r.seats[i].port = r.seats[i].gen
  BY DEF Sound, OneGeneration
<1> QED
  BY <1>1, <1>2, <1>3, <1>4, <1>5, <1>6 DEF InOrder

-----------------------------------------------------------------------------
(* Leaving a room.                                                         *)
Left(h, u) == RemoveParticipant(h.rooms[h.member[u].owner], h.member[u].slot)

LEMMA DetachParts ==
    ASSUME NEW h, Sound(h), NEW u \in Users, h.member[u] # None,
           NEW m, m = h.member[u], NEW p, p = Left(h, u), NEW d, d = Detach(h, u)
    PROVE  /\ d \in Tables /\ d.canon = h.canon
           /\ \A v \in Users : d.member[v] = IF v = u THEN None ELSE h.member[v]
           /\ \A o \in Users : o # m.owner => d.rooms[o] = h.rooms[o]
           /\ d.rooms[m.owner] = IF Mapped(m.owner, p) = {} THEN None ELSE p
<1> DEFINE x == IF Mapped(m.owner, p) = {} THEN None ELSE p
           R == [h.rooms EXCEPT ![m.owner] = x]
           M == [h.member EXCEPT ![u] = None]
<1>1. m.owner \in Users /\ h.rooms[m.owner] \in Room /\ m.slot \in Seats \union {OWNER}
  BY PlaceOf
<1>2. p \in Room
  BY <1>1, RemoveParts DEF Left
<1>3. h \in Tables
  BY DEF Sound
<1>4. /\ h.rooms \in [Users -> OrNone(Room)] /\ h.member \in [Users -> OrNone(Place)]
      /\ h.canon \in [Users -> OrNone(0..GenMax)] /\ h = HubOf(h.rooms, h.member, h.canon)
  BY <1>3, HubParts
<1>5. d = [h EXCEPT !.member = M, !.rooms = R]
  BY DEF Detach, Left
<1>6. x \in OrNone(Room)
  BY <1>2 DEF OrNone
<1> HIDE DEF x
<1>7. R \in [Users -> OrNone(Room)] /\ R[m.owner] = x
      /\ \A o \in Users : o # m.owner => R[o] = h.rooms[o]
  BY <1>1, <1>4, <1>6
<1>8. M \in [Users -> OrNone(Place)] /\ \A v \in Users : M[v] = IF v = u THEN None ELSE h.member[v]
  BY <1>4 DEF OrNone
<1> HIDE DEF R, M
<1>9. d = HubOf(R, M, h.canon)
  BY <1>4, <1>5 DEF HubOf
<1>10. d \in Tables /\ d.rooms = R /\ d.member = M /\ d.canon = h.canon
  BY <1>4, <1>7, <1>8, <1>9, HubTyped, HubReads
<1> QED
  BY <1>7, <1>8, <1>10 DEF x

(* What stays behind in the room.                                          *)
LEMMA StaysBehind ==
    ASSUME NEW h, Sound(h), NEW u \in Users, h.member[u] # None,
           NEW m, m = h.member[u], NEW r, r = h.rooms[m.owner], NEW p, p = Left(h, u)
    PROVE  /\ p \in Room /\ p.gen = r.gen /\ p.info = r.info /\ p.rev = r.rev
           /\ p.present => r.present /\ m.owner # u
           /\ r.present /\ m.owner # u => p.present
           /\ p.port # None => p.present /\ p.port = r.port
           /\ \A i \in Seats : p.seats[i] # None => p.seats[i] = r.seats[i] /\ r.seats[i].user # u
           /\ \A i \in Seats : r.seats[i] # None /\ r.seats[i].user # u => p.seats[i] = r.seats[i]
<1>1. /\ m \in Place /\ m.owner \in Users /\ m.slot \in Seats \union {OWNER}
      /\ r \in Room /\ r # None
      /\ m.slot = OWNER => m.owner = u /\ r.present
      /\ m.slot # OWNER => /\ m.slot \in Seats /\ m.owner # u
                           /\ r.seats[m.slot] # None /\ r.seats[m.slot].user = u
  BY PlaceOf
<1>2. /\ p \in Room /\ p.gen = r.gen /\ p.info = r.info /\ p.rev = r.rev
      /\ m.slot = OWNER => p.present = FALSE /\ p.port = None /\ p.seats = r.seats
      /\ m.slot # OWNER => /\ p.present = r.present /\ p.port = r.port
                           /\ \A j \in Seats : p.seats[j] = IF j = m.slot THEN None ELSE r.seats[j]
  <2>1. PICK s : s = m.slot
    OBVIOUS
  <2>2. p = RemoveParticipant(r, s)
    BY <2>1 DEF Left
  <2>3. r \in Room /\ s \in Seats \union {OWNER}
    BY <1>1, <2>1
  <2>4. /\ p \in Room /\ p.gen = r.gen /\ p.info = r.info /\ p.rev = r.rev
        /\ s = OWNER => p.present = FALSE /\ p.port = None /\ p.seats = r.seats
        /\ s # OWNER => /\ p.present = r.present /\ p.port = r.port
                        /\ \A j \in Seats : p.seats[j] = IF j = s THEN None ELSE r.seats[j]
    BY <2>2, <2>3, RemoveParts
  <2> QED
    BY <2>1, <2>4
<1>3. /\ r.port # None => r.present
      /\ \A i \in Seats : r.seats[i] # None =>
           /\ h.member[r.seats[i].user] = [owner |-> m.owner, slot |-> i]
           /\ r.seats[i].user # m.owner
  <2>1. m.owner \in Users /\ h.rooms[m.owner] # None /\ r = h.rooms[m.owner]
    BY <1>1
  <2>2. PICK o : o = m.owner
    OBVIOUS
  <2>3. /\ o \in Users /\ h.rooms[o] # None /\ r = h.rooms[o]
    BY <2>1, <2>2
  <2>4. r.port # None => r.present
    BY <2>3 DEF Sound, OneGeneration
  <2>5. \A i \in Seats : r.seats[i] # None =>
           h.member[r.seats[i].user] = [owner |-> o, slot |-> i] /\ r.seats[i].user # o
    <3>1. \A i \in Seats : h.rooms[o].seats[i] # None =>
           h.member[h.rooms[o].seats[i].user] = [owner |-> o, slot |-> i] /\ h.rooms[o].seats[i].user # o
      BY <2>3 DEF Sound, Inhabited
    <3> QED
      BY <2>3, <3>1
  <2> QED
    BY <2>2, <2>4, <2>5
<1>4. ASSUME NEW i \in Seats, r.seats[i] # None, r.seats[i].user = u PROVE m.slot = i
  <2>1. m = [owner |-> m.owner, slot |-> i]
    BY <1>3, <1>4
  <2> QED
    BY <2>1
<1>5. CASE m.slot = OWNER
  BY <1>1, <1>2, <1>3, <1>5
<1>6. CASE m.slot # OWNER
  <2>1. /\ m.slot \in Seats /\ m.owner # u /\ p.present = r.present /\ p.port = r.port
        /\ r.port # None => r.present
    BY <1>1, <1>2, <1>3, <1>6
  <2>2. \A i \in Seats : p.seats[i] = IF i = m.slot THEN None ELSE r.seats[i]
    BY <1>2, <1>6
  <2>3. \A i \in Seats : r.seats[i] # None => (r.seats[i].user = u <=> i = m.slot)
    BY <1>1, <1>4, <1>6
  <2> QED
    BY <1>2, <2>1, <2>2, <2>3
<1> QED
  BY <1>5, <1>6

LEMMA RolesShrink ==
    ASSUME NEW h, NEW k, NEW v,
           h.member[v] = None => k.member[v] = None,
           h.rooms[v] = None => k.rooms[v] = None
    PROVE  HasRole(k, v) => HasRole(h, v)
BY DEF HasRole

LEMMA DetachSound ==
    ASSUME NEW h, Sound(h), NEW u \in Users, h.member[u] # None, NEW d, d = Detach(h, u)
    PROVE  Sound(d)
<1> DEFINE m == h.member[u]
           r == h.rooms[m.owner]
           p == Left(h, u)
<1>1. /\ d \in Tables /\ d.canon = h.canon
      /\ \A v \in Users : d.member[v] = IF v = u THEN None ELSE h.member[v]
      /\ \A o \in Users : o # m.owner => d.rooms[o] = h.rooms[o]
      /\ d.rooms[m.owner] = IF Mapped(m.owner, p) = {} THEN None ELSE p
  BY DetachParts
<1>2. /\ m \in Place /\ m.owner \in Users /\ m.slot \in Seats \union {OWNER}
      /\ m = [owner |-> m.owner, slot |-> m.slot]
      /\ r \in Room /\ r # None
      /\ m.slot = OWNER => m.owner = u /\ r.present
  BY PlaceOf
<1>3. /\ p \in Room /\ p.gen = r.gen /\ p.info = r.info /\ p.rev = r.rev
      /\ p.present => r.present /\ m.owner # u
      /\ r.present /\ m.owner # u => p.present
      /\ p.port # None => p.present /\ p.port = r.port
      /\ \A i \in Seats : p.seats[i] # None => p.seats[i] = r.seats[i] /\ r.seats[i].user # u
      /\ \A i \in Seats : r.seats[i] # None /\ r.seats[i].user # u => p.seats[i] = r.seats[i]
  BY StaysBehind
<1>4. p # None
  BY <1>3, RoomParts
<1> HIDE DEF m, r, p
<1>5. m = h.member[u] /\ r = h.rooms[m.owner]
  BY DEF m, r
<1>6. Placed(d)
  <2> SUFFICES ASSUME NEW v \in Users, d.member[v] # None,
                      NEW q, q = d.member[v], NEW t, t = d.rooms[q.owner]
               PROVE  /\ t # None
                      /\ IF q.slot = OWNER THEN q.owner = v /\ t.present
                         ELSE t.seats[q.slot] # None /\ t.seats[q.slot].user = v
    BY DEF Placed
  <2>1. v # u /\ q = h.member[v] /\ h.member[v] # None
    BY <1>1
  <2>2. /\ q.owner \in Users /\ h.rooms[q.owner] # None
        /\ q.slot = OWNER => q.owner = v /\ h.rooms[q.owner].present
        /\ q.slot # OWNER => /\ q.slot \in Seats
                             /\ h.rooms[q.owner].seats[q.slot] # None
                             /\ h.rooms[q.owner].seats[q.slot].user = v
    BY <2>1, PlaceOf
  <2>3. CASE q.owner # m.owner
    <3>1. t = h.rooms[q.owner]
      BY <1>1, <2>2, <2>3
    <3> QED
      BY <2>2, <3>1
  <2>4. CASE q.owner = m.owner
    <3>1. IF q.slot = OWNER THEN q.owner = v /\ p.present
          ELSE p.seats[q.slot] # None /\ p.seats[q.slot].user = v
      <4>1. h.rooms[q.owner] = r
        BY <1>5, <2>4
      <4>2. CASE q.slot = OWNER
        <5>1. q.owner = v /\ r.present /\ m.owner # u
          BY <2>1, <2>2, <2>4, <4>1, <4>2
        <5> QED
          BY <1>3, <4>2, <5>1
      <4>3. CASE q.slot # OWNER
        <5>1. q.slot \in Seats /\ r.seats[q.slot] # None /\ r.seats[q.slot].user = v
          BY <2>2, <4>1, <4>3
        <5>2. p.seats[q.slot] = r.seats[q.slot]
          BY <1>3, <2>1, <5>1
        <5> QED
          BY <4>3, <5>1, <5>2
      <4> QED
        BY <4>2, <4>3
    <3>2. v \in Mapped(m.owner, p)
      BY <2>2, <2>4, <3>1, InRoom
    <3>3. t = p
      BY <1>1, <2>4, <3>2
    <3> QED
      BY <1>4, <3>1, <3>3
  <2> QED
    BY <2>3, <2>4
<1>7. ASSUME NEW o \in Users, d.rooms[o] # None, NEW t, t = d.rooms[o]
      PROVE  /\ h.rooms[o] # None
             /\ Mapped(o, t) # {}
             /\ t.gen = h.rooms[o].gen
             /\ t.port # None => t.present /\ t.port = h.rooms[o].port
             /\ t.present => h.rooms[o].present /\ o # u
             /\ \A i \in Seats : t.seats[i] # None =>
                  t.seats[i] = h.rooms[o].seats[i] /\ t.seats[i].user # u
  <2>1. CASE o # m.owner
    <3>1. t = h.rooms[o] /\ h.rooms[o] # None
      BY <1>1, <1>7, <2>1
    <3>2. /\ Mapped(o, t) # {}
          /\ t.port # None => t.present
          /\ t.present => h.member[o] = [owner |-> o, slot |-> OWNER]
          /\ \A i \in Seats : t.seats[i] # None =>
               h.member[t.seats[i].user] = [owner |-> o, slot |-> i]
      BY <3>1, RoomOf DEF InOrder
    <3>3. t.present => o # u
      BY <1>5, <2>1, <3>2, PlaceTyped
    <3>4. ASSUME NEW i \in Seats, t.seats[i] # None PROVE t.seats[i].user # u
      <4>1. h.member[t.seats[i].user] = [owner |-> o, slot |-> i]
        BY <3>2, <3>4
      <4> QED
        BY <1>5, <2>1, <4>1
    <3> QED
      BY <3>1, <3>2, <3>3, <3>4
  <2>2. CASE o = m.owner
    <3>1. t = p /\ Mapped(o, p) # {}
      BY <1>1, <1>7, <2>2
    <3> QED
      BY <1>2, <1>3, <1>5, <2>2, <3>1
  <2> QED
    BY <2>1, <2>2
<1>8. Inhabited(d)
  <2> SUFFICES ASSUME NEW o \in Users, d.rooms[o] # None, NEW t, t = d.rooms[o]
               PROVE  /\ Mapped(o, t) # {}
                      /\ t.present => d.member[o] = [owner |-> o, slot |-> OWNER]
                      /\ \A i \in Seats : t.seats[i] # None =>
                           /\ d.member[t.seats[i].user] = [owner |-> o, slot |-> i]
                           /\ t.seats[i].user # o
    BY DEF Inhabited
  <2>1. /\ h.rooms[o] # None /\ Mapped(o, t) # {}
        /\ t.present => h.rooms[o].present /\ o # u
        /\ \A i \in Seats : t.seats[i] # None =>
             t.seats[i] = h.rooms[o].seats[i] /\ t.seats[i].user # u
    BY <1>7
  <2>2. /\ h.rooms[o].present => h.member[o] = [owner |-> o, slot |-> OWNER]
        /\ \A i \in Seats : h.rooms[o].seats[i] # None =>
             /\ h.rooms[o].seats[i].user \in Users
             /\ h.member[h.rooms[o].seats[i].user] = [owner |-> o, slot |-> i]
             /\ h.rooms[o].seats[i].user # o
    BY <2>1, RoomOf DEF InOrder
  <2> QED
    BY <1>1, <2>1, <2>2
<1>9. OneGeneration(d)
  <2> SUFFICES ASSUME NEW o \in Users, d.rooms[o] # None, NEW t, t = d.rooms[o]
               PROVE  /\ t.gen = d.canon[o]
                      /\ t.port # None => t.present /\ t.port = t.gen
                      /\ \A i \in Seats : t.seats[i] # None =>
                           /\ t.seats[i].gen = d.canon[t.seats[i].user]
                           /\ t.seats[i].port # None => t.seats[i].port = t.seats[i].gen
    BY DEF OneGeneration
  <2>1. /\ h.rooms[o] # None /\ t.gen = h.rooms[o].gen
        /\ t.port # None => t.present /\ t.port = h.rooms[o].port
        /\ \A i \in Seats : t.seats[i] # None => t.seats[i] = h.rooms[o].seats[i]
    BY <1>7
  <2>2. /\ h.rooms[o].gen = h.canon[o]
        /\ h.rooms[o].port # None => h.rooms[o].port = h.rooms[o].gen
        /\ \A i \in Seats : h.rooms[o].seats[i] # None =>
             /\ h.rooms[o].seats[i].gen = h.canon[h.rooms[o].seats[i].user]
             /\ h.rooms[o].seats[i].port # None =>
                  h.rooms[o].seats[i].port = h.rooms[o].seats[i].gen
    BY <2>1 DEF Sound, OneGeneration
  <2> QED
    BY <1>1, <2>1, <2>2
<1>10. Rooted(d)
  <2> SUFFICES ASSUME NEW v \in Users, HasRole(d, v) PROVE d.canon[v] # None
    BY DEF Rooted
  <2>1. h.member[v] = None => d.member[v] = None
    BY <1>1
  <2>2. h.rooms[v] = None => d.rooms[v] = None
    BY <1>7
  <2>3. HasRole(h, v)
    BY <2>1, <2>2, RolesShrink
  <2> QED
    BY <1>1, <2>3 DEF Sound, Rooted
<1> QED
  BY <1>1, <1>6, <1>8, <1>9, <1>10 DEF Sound

-----------------------------------------------------------------------------
(* Forgetting the generations of users without a role.                     *)
LEMMA PruneParts ==
    ASSUME NEW h \in Tables, NEW S, NEW k, k = Prune(h, S)
    PROVE  /\ k \in Tables /\ k.rooms = h.rooms /\ k.member = h.member
           /\ \A v \in Users : k.canon[v] = IF v \in S /\ ~HasRole(h, v) THEN None ELSE h.canon[v]
<1> DEFINE C == [u \in Users |-> IF u \in S /\ ~HasRole(h, u) THEN None ELSE h.canon[u]]
<1>1. /\ h.rooms \in [Users -> OrNone(Room)] /\ h.member \in [Users -> OrNone(Place)]
      /\ h.canon \in [Users -> OrNone(0..GenMax)] /\ h = HubOf(h.rooms, h.member, h.canon)
  BY HubParts
<1>2. k = [h EXCEPT !.canon = C]
  BY DEF Prune
<1>3. C \in [Users -> OrNone(0..GenMax)]
      /\ \A v \in Users : C[v] = IF v \in S /\ ~HasRole(h, v) THEN None ELSE h.canon[v]
  BY <1>1 DEF OrNone
<1> HIDE DEF C
<1>4. k = HubOf(h.rooms, h.member, C)
  BY <1>1, <1>2 DEF HubOf
<1>5. k \in Tables /\ k.rooms = h.rooms /\ k.member = h.member /\ k.canon = C
  BY <1>1, <1>3, <1>4, HubTyped, HubReads
<1> QED
  BY <1>3, <1>5

LEMMA SameRoles ==
    ASSUME NEW h, NEW k, k.rooms = h.rooms, k.member = h.member
    PROVE  /\ Placed(k) <=> Placed(h)
           /\ Inhabited(k) <=> Inhabited(h)
           /\ \A v : HasRole(k, v) <=> HasRole(h, v)
BY DEF Placed, Inhabited, HasRole

LEMMA PruneSound ==
    ASSUME NEW h, Sound(h), NEW S, NEW k, k = Prune(h, S)
    PROVE  Sound(k)
<1>1. /\ k \in Tables /\ k.rooms = h.rooms /\ k.member = h.member
      /\ \A v \in Users : k.canon[v] = IF v \in S /\ ~HasRole(h, v) THEN None ELSE h.canon[v]
  BY PruneParts DEF Sound
<1>2. /\ Placed(k) /\ Inhabited(k) /\ \A v : HasRole(k, v) <=> HasRole(h, v)
  BY <1>1, SameRoles DEF Sound
<1>3. ASSUME NEW v \in Users, HasRole(h, v) PROVE k.canon[v] = h.canon[v]
  BY <1>1, <1>3
<1>4. Rooted(k)
  BY <1>2, <1>3 DEF Sound, Rooted
<1>5. OneGeneration(k)
  <2> SUFFICES ASSUME NEW o \in Users, h.rooms[o] # None
               PROVE  /\ h.rooms[o].gen = k.canon[o]
                      /\ h.rooms[o].port # None =>
                           h.rooms[o].present /\ h.rooms[o].port = h.rooms[o].gen
                      /\ \A i \in Seats : h.rooms[o].seats[i] # None =>
                           /\ h.rooms[o].seats[i].gen = k.canon[h.rooms[o].seats[i].user]
                           /\ h.rooms[o].seats[i].port # None =>
                                h.rooms[o].seats[i].port = h.rooms[o].seats[i].gen
    BY <1>1 DEF OneGeneration
  <2>1. /\ h.rooms[o].gen = h.canon[o]
        /\ h.rooms[o].port # None => h.rooms[o].present /\ h.rooms[o].port = h.rooms[o].gen
        /\ \A i \in Seats : h.rooms[o].seats[i] # None =>
             /\ h.rooms[o].seats[i].user \in Users
             /\ h.member[h.rooms[o].seats[i].user] = [owner |-> o, slot |-> i]
             /\ h.rooms[o].seats[i].gen = h.canon[h.rooms[o].seats[i].user]
             /\ h.rooms[o].seats[i].port # None =>
                  h.rooms[o].seats[i].port = h.rooms[o].seats[i].gen
    <3>1. InOrder(h, o)
      BY RoomOf
    <3> QED
      BY <3>1 DEF InOrder
  <2>2. k.canon[o] = h.canon[o]
    BY <1>3 DEF HasRole
  <2>3. ASSUME NEW i \in Seats, h.rooms[o].seats[i] # None
        PROVE  k.canon[h.rooms[o].seats[i].user] = h.canon[h.rooms[o].seats[i].user]
    <3>1. /\ h.rooms[o].seats[i].user \in Users
          /\ h.member[h.rooms[o].seats[i].user] = [owner |-> o, slot |-> i]
      BY <2>1, <2>3
    <3>2. [owner |-> o, slot |-> i] # None
      BY PlaceTyped
    <3> QED
      BY <1>3, <3>1, <3>2 DEF HasRole
  <2> QED
    BY <2>1, <2>2, <2>3
<1> QED
  BY <1>1, <1>2, <1>4, <1>5 DEF Sound

LEMMA PruneComplete ==
    ASSUME NEW h, Sound(h), NEW S, NEW k, k = Prune(h, S),
           \A v \in Users : h.canon[v] # None /\ v \notin S => HasRole(h, v)
    PROVE  HubInv(k)
<1>1. /\ k.rooms = h.rooms /\ k.member = h.member
      /\ \A v \in Users : k.canon[v] = IF v \in S /\ ~HasRole(h, v) THEN None ELSE h.canon[v]
  BY PruneParts DEF Sound
<1>2. \A v : HasRole(k, v) <=> HasRole(h, v)
  BY <1>1, SameRoles
<1>3. Pruned(k)
  BY <1>1, <1>2 DEF Pruned
<1> QED
  BY <1>3, PruneSound DEF HubInv

(* What leaving can only do: rooms close and users lose their roles.       *)
Shrunk(h, k) ==
    /\ \A o \in Users : k.rooms[o] # None =>
         /\ h.rooms[o] # None
         /\ k.rooms[o].rev = h.rooms[o].rev /\ k.rooms[o].info = h.rooms[o].info
    /\ \A v \in Users : k.canon[v] = None \/ k.canon[v] = h.canon[v]
    /\ \A v \in Users : k.member[v] = None \/ k.member[v] = h.member[v]

LEMMA ShrunkTwice ==
    ASSUME NEW h, NEW k, NEW l, Shrunk(h, k), Shrunk(k, l)
    PROVE  Shrunk(h, l)
<1>1. \A o \in Users : l.rooms[o] # None =>
         /\ h.rooms[o] # None
         /\ l.rooms[o].rev = h.rooms[o].rev /\ l.rooms[o].info = h.rooms[o].info
  BY DEF Shrunk
<1>2. \A v \in Users : l.canon[v] = None \/ l.canon[v] = h.canon[v]
  BY DEF Shrunk
<1>3. \A v \in Users : l.member[v] = None \/ l.member[v] = h.member[v]
  BY DEF Shrunk
<1> QED
  BY <1>1, <1>2, <1>3 DEF Shrunk

LEMMA PruneShrinks ==
    ASSUME NEW h \in Tables, NEW S, NEW k, k = Prune(h, S)
    PROVE  Shrunk(h, k)
<1>1. /\ k.rooms = h.rooms /\ k.member = h.member
      /\ \A v \in Users : k.canon[v] = IF v \in S /\ ~HasRole(h, v) THEN None ELSE h.canon[v]
  BY PruneParts
<1> QED
  BY <1>1 DEF Shrunk

LEMMA DetachShrinks ==
    ASSUME NEW h, Sound(h), NEW u \in Users, h.member[u] # None, NEW d, d = Detach(h, u)
    PROVE  Shrunk(h, d)
<1> DEFINE m == h.member[u]
           p == Left(h, u)
<1>1. /\ d.canon = h.canon
      /\ \A v \in Users : d.member[v] = IF v = u THEN None ELSE h.member[v]
      /\ \A o \in Users : o # m.owner => d.rooms[o] = h.rooms[o]
      /\ d.rooms[m.owner] = IF Mapped(m.owner, p) = {} THEN None ELSE p
  BY DetachParts
<1>2. h.rooms[m.owner] # None
  BY PlaceOf
<1>3. p.rev = h.rooms[m.owner].rev /\ p.info = h.rooms[m.owner].info
  BY StaysBehind
<1> HIDE DEF m, p
<1>4. \A o \in Users : d.rooms[o] # None =>
        /\ h.rooms[o] # None
        /\ d.rooms[o].rev = h.rooms[o].rev /\ d.rooms[o].info = h.rooms[o].info
  BY <1>1, <1>2, <1>3
<1> QED
  BY <1>1, <1>4 DEF Shrunk

LEMMA LeaveKeeps ==
    ASSUME NEW h, HubInv(h), NEW u \in Users, h.member[u] # None, NEW k, k = Leave(h, u)
    PROVE  HubInv(k) /\ Shrunk(h, k)
<1> DEFINE d == Detach(h, u)
           m == h.member[u]
<1>1. Sound(h) /\ Pruned(h)
  BY DEF HubInv
<1>2. Sound(d) /\ d \in Tables /\ Shrunk(h, d)
  BY <1>1, DetachSound, DetachShrinks DEF Sound
<1>3. /\ d.canon = h.canon
      /\ \A v \in Users : d.member[v] = IF v = u THEN None ELSE h.member[v]
      /\ \A o \in Users : o # m.owner => d.rooms[o] = h.rooms[o]
  BY <1>1, DetachParts
<1>4. k = Prune(d, {u, m.owner})
  BY DEF Leave
<1> HIDE DEF d, m
<1>5. \A v \in Users : d.canon[v] # None /\ v \notin {u, m.owner} => HasRole(d, v)
  BY <1>1, <1>3 DEF Pruned, HasRole
<1>6. HubInv(k)
  BY <1>2, <1>4, <1>5, PruneComplete
<1>7. Shrunk(d, k)
  BY <1>2, <1>4, PruneShrinks
<1> QED
  BY <1>2, <1>6, <1>7, ShrunkTwice

-----------------------------------------------------------------------------
(* Disconnecting a user: it leaves the room it visits, and its own closes. *)
Ejected(h, u) == IF h.rooms[u] = None THEN {} ELSE Mapped(u, h.rooms[u]) \ {u}
Away(h, u) == h.member[u] # None /\ (h.member[u].owner # u \/ h.rooms[u] = None)
LeftOther(h, u) == IF Away(h, u) THEN Detach(h, u) ELSE h
Closed(h, u, E) ==
    [h EXCEPT !.rooms = [h.rooms EXCEPT ![u] = None],
              !.member = [v \in Users |-> IF v = u \/ v \in E THEN None ELSE h.member[v]]]
Forgotten(h, u) ==
    {u} \union Ejected(h, u) \union (IF h.member[u] = None THEN {} ELSE {h.member[u].owner})

LEMMA DisconnectIs ==
    ASSUME NEW h, NEW u
    PROVE  Disconnect(h, u) =
             Prune(Closed(LeftOther(h, u), u, Ejected(h, u)), Forgotten(h, u))
BY DEF Disconnect, Closed, LeftOther, Away, Ejected, Forgotten

LEMMA LeftOtherKeeps ==
    ASSUME NEW h, Sound(h), NEW u \in Users, NEW k, k = LeftOther(h, u)
    PROVE  /\ Sound(k) /\ k.canon = h.canon /\ Shrunk(h, k)
           /\ k.rooms[u] = h.rooms[u]
           /\ k.member[u] = None \/ k.member[u].owner = u
           /\ \A v \in Users : v # u => k.member[v] = h.member[v]
           /\ \A o \in Users : o \notin Forgotten(h, u) => k.rooms[o] = h.rooms[o]
<1>1. CASE Away(h, u)
  <2>1. k = Detach(h, u) /\ h.member[u] # None
    BY <1>1 DEF LeftOther, Away
  <2>2. h.rooms[h.member[u].owner] # None
    BY <2>1, PlaceOf
  <2>3. h.member[u].owner # u
    BY <1>1, <2>2 DEF Away
  <2>4. /\ k.canon = h.canon
        /\ \A v \in Users : k.member[v] = IF v = u THEN None ELSE h.member[v]
        /\ \A o \in Users : o # h.member[u].owner => k.rooms[o] = h.rooms[o]
    BY <2>1, DetachParts
  <2>5. Sound(k) /\ Shrunk(h, k)
    BY <2>1, DetachSound, DetachShrinks
  <2> QED
    BY <2>1, <2>3, <2>4, <2>5 DEF Forgotten
<1>2. CASE ~Away(h, u)
  <2>1. k = h
    BY <1>2 DEF LeftOther
  <2>2. h.member[u] = None \/ h.member[u].owner = u
    BY <1>2 DEF Away
  <2>3. Shrunk(h, h)
    BY DEF Shrunk
  <2> QED
    BY <2>1, <2>2, <2>3
<1> QED
  BY <1>1, <1>2

LEMMA ClosedParts ==
    ASSUME NEW h \in Tables, NEW u \in Users, NEW E, NEW k, k = Closed(h, u, E)
    PROVE  /\ k \in Tables /\ k.canon = h.canon
           /\ \A o \in Users : k.rooms[o] = IF o = u THEN None ELSE h.rooms[o]
           /\ \A v \in Users : k.member[v] = IF v = u \/ v \in E THEN None ELSE h.member[v]
<1> DEFINE R == [h.rooms EXCEPT ![u] = None]
           M == [v \in Users |-> IF v = u \/ v \in E THEN None ELSE h.member[v]]
<1>1. /\ h.rooms \in [Users -> OrNone(Room)] /\ h.member \in [Users -> OrNone(Place)]
      /\ h.canon \in [Users -> OrNone(0..GenMax)] /\ h = HubOf(h.rooms, h.member, h.canon)
  BY HubParts
<1>2. k = [h EXCEPT !.rooms = R, !.member = M]
  BY DEF Closed
<1>3. /\ R \in [Users -> OrNone(Room)]
      /\ \A o \in Users : R[o] = IF o = u THEN None ELSE h.rooms[o]
  BY <1>1 DEF OrNone
<1>4. /\ M \in [Users -> OrNone(Place)]
      /\ \A v \in Users : M[v] = IF v = u \/ v \in E THEN None ELSE h.member[v]
  BY <1>1 DEF OrNone
<1> HIDE DEF R, M
<1>5. k = HubOf(R, M, h.canon)
  BY <1>1, <1>2 DEF HubOf
<1>6. k \in Tables /\ k.rooms = R /\ k.member = M /\ k.canon = h.canon
  BY <1>1, <1>3, <1>4, <1>5, HubTyped, HubReads
<1> QED
  BY <1>3, <1>4, <1>6

(* Closing u's room on its visitors, when u itself is nowhere else.        *)
LEMMA ClosedSound ==
    ASSUME NEW h, Sound(h), NEW u \in Users,
           h.member[u] = None \/ h.member[u].owner = u,
           NEW k, k = Closed(h, u, Ejected(h, u))
    PROVE  Sound(k) /\ Shrunk(h, k)
<1> DEFINE E == Ejected(h, u)
<1>1. /\ k \in Tables /\ k.canon = h.canon
      /\ \A o \in Users : k.rooms[o] = IF o = u THEN None ELSE h.rooms[o]
      /\ \A v \in Users : k.member[v] = IF v = u \/ v \in E THEN None ELSE h.member[v]
  BY ClosedParts DEF Sound
  (* The ejected are those who are in u's room. *)
<1>2. ASSUME NEW v \in Users, v # u, h.member[v] # None, h.member[v].owner = u
      PROVE  v \in E
  <2>1. PICK q : q = h.member[v]
    OBVIOUS
  <2>2. PICK r : r = h.rooms[u]
    OBVIOUS
  <2>3. /\ r # None /\ q.slot # OWNER
        /\ q.slot \in Seats /\ r.seats[q.slot] # None /\ r.seats[q.slot].user = v
    BY <1>2, <2>1, <2>2, PlaceOf
  <2>4. v \in Mapped(u, r)
    BY <2>3, InRoom
  <2> QED
    BY <1>2, <2>2, <2>3, <2>4 DEF Ejected
<1>3. ASSUME NEW v \in Users, v \in E PROVE h.member[v] # None /\ h.member[v].owner = u
  <2>1. h.rooms[u] # None /\ v \in Mapped(u, h.rooms[u]) /\ v # u
    BY <1>3 DEF Ejected
  <2>2. PICK i \in Seats : h.rooms[u].seats[i] # None /\ h.rooms[u].seats[i].user = v
    BY <2>1, InRoom
  <2>3. h.member[v] = [owner |-> u, slot |-> i]
    BY <2>1, <2>2 DEF Sound, Inhabited
  <2> QED
    BY <2>3, PlaceTyped
<1> HIDE DEF E
<1>4. ASSUME NEW v \in Users, h.member[v] # None, h.member[v].owner # u
      PROVE  k.member[v] = h.member[v]
  BY <1>1, <1>3, <1>4
<1>5. Placed(k)
  <2> SUFFICES ASSUME NEW v \in Users, k.member[v] # None,
                      NEW q, q = k.member[v], NEW t, t = k.rooms[q.owner]
               PROVE  /\ t # None
                      /\ IF q.slot = OWNER THEN q.owner = v /\ t.present
                         ELSE t.seats[q.slot] # None /\ t.seats[q.slot].user = v
    BY DEF Placed
  <2>1. q = h.member[v] /\ h.member[v] # None /\ q.owner # u
    BY <1>1, <1>2
  <2>2. /\ q.owner \in Users /\ h.rooms[q.owner] # None
        /\ q.slot = OWNER => q.owner = v /\ h.rooms[q.owner].present
        /\ q.slot # OWNER => /\ h.rooms[q.owner].seats[q.slot] # None
                             /\ h.rooms[q.owner].seats[q.slot].user = v
    <3>1. /\ h.rooms[q.owner] # None
          /\ q.slot = OWNER => q.owner = v /\ h.rooms[q.owner].present
          /\ q.slot # OWNER => /\ h.rooms[q.owner].seats[q.slot] # None
                               /\ h.rooms[q.owner].seats[q.slot].user = v
      BY <2>1 DEF Sound, Placed
    <3>2. q.owner \in Users
      BY <2>1, HubPoints, PlaceParts DEF Sound
    <3> QED
      BY <3>1, <3>2
  <2>3. t = h.rooms[q.owner]
    BY <1>1, <2>1, <2>2
  <2> QED
    BY <2>2, <2>3
<1>6. Inhabited(k)
  <2> SUFFICES ASSUME NEW o \in Users, k.rooms[o] # None
               PROVE  /\ Mapped(o, k.rooms[o]) # {}
                      /\ k.rooms[o].present => k.member[o] = [owner |-> o, slot |-> OWNER]
                      /\ \A i \in Seats : k.rooms[o].seats[i] # None =>
                           /\ k.member[k.rooms[o].seats[i].user] = [owner |-> o, slot |-> i]
                           /\ k.rooms[o].seats[i].user # o
    BY DEF Inhabited
  <2>1. k.rooms[o] = h.rooms[o] /\ h.rooms[o] # None /\ o # u
    BY <1>1
  <2>2. InOrder(h, o)
    BY <2>1, RoomOf
  <2>3. ASSUME h.rooms[o].present PROVE k.member[o] = [owner |-> o, slot |-> OWNER]
    <3>1. h.member[o] = [owner |-> o, slot |-> OWNER]
      BY <2>2, <2>3 DEF InOrder
    <3>2. h.member[o] # None /\ h.member[o].owner # u
      BY <2>1, <3>1, PlaceTyped
    <3> QED
      BY <1>4, <3>1, <3>2
  <2>4. ASSUME NEW i \in Seats, h.rooms[o].seats[i] # None
        PROVE  /\ k.member[h.rooms[o].seats[i].user] = [owner |-> o, slot |-> i]
               /\ h.rooms[o].seats[i].user # o
    <3>1. PICK x \in Users : x = h.rooms[o].seats[i].user
      BY <2>2, <2>4 DEF InOrder
    <3>2. h.member[x] = [owner |-> o, slot |-> i] /\ x # o
      BY <2>2, <2>4, <3>1 DEF InOrder
    <3>3. h.member[x] # None /\ h.member[x].owner # u
      BY <2>1, <3>2, PlaceTyped
    <3>4. k.member[x] = [owner |-> o, slot |-> i]
      BY <1>4, <3>2, <3>3
    <3> QED
      BY <3>1, <3>2, <3>4
  <2>5. Mapped(o, h.rooms[o]) # {}
    BY <2>2 DEF InOrder
  <2> QED
    BY <2>1, <2>3, <2>4, <2>5
<1>7. OneGeneration(k)
  BY <1>1 DEF Sound, OneGeneration
<1>8. Rooted(k)
  BY <1>1 DEF Sound, Rooted, HasRole
<1>9. Shrunk(h, k)
  BY <1>1 DEF Shrunk
<1> QED
  BY <1>1, <1>5, <1>6, <1>7, <1>8, <1>9 DEF Sound

LEMMA DisconnectKeeps ==
    ASSUME NEW h, HubInv(h), NEW u \in Users
    PROVE  /\ HubInv(Disconnect(h, u)) /\ Shrunk(h, Disconnect(h, u))
           /\ Disconnect(h, u).canon[u] = None
<1>1. PICK l : l = LeftOther(h, u)
  OBVIOUS
<1>2. PICK c : c = Closed(l, u, Ejected(l, u))
  OBVIOUS
<1>3. PICK k : k = Prune(c, Forgotten(h, u))
  OBVIOUS
<1>4. Sound(h) /\ Pruned(h)
  BY DEF HubInv
<1>5. /\ Sound(l) /\ l.canon = h.canon /\ Shrunk(h, l)
      /\ l.rooms[u] = h.rooms[u]
      /\ l.member[u] = None \/ l.member[u].owner = u
      /\ \A v \in Users : v # u => l.member[v] = h.member[v]
      /\ \A o \in Users : o \notin Forgotten(h, u) => l.rooms[o] = h.rooms[o]
  BY <1>1, <1>4, LeftOtherKeeps
<1>6. Ejected(l, u) = Ejected(h, u)
  BY <1>5 DEF Ejected
<1>7. Disconnect(h, u) = k
  BY <1>1, <1>2, <1>3, <1>6, DisconnectIs
<1>8. Sound(c) /\ Shrunk(l, c)
  BY <1>2, <1>5, ClosedSound
<1>9. /\ c \in Tables /\ c.canon = l.canon
      /\ \A o \in Users : c.rooms[o] = IF o = u THEN None ELSE l.rooms[o]
      /\ \A v \in Users : c.member[v] = IF v = u \/ v \in Ejected(h, u) THEN None ELSE l.member[v]
  BY <1>2, <1>5, <1>6, ClosedParts DEF Sound
<1>10. ASSUME NEW v \in Users, c.canon[v] # None, v \notin Forgotten(h, u)
       PROVE  HasRole(c, v)
  <2>1. v # u /\ v \notin Ejected(h, u)
    BY <1>10 DEF Forgotten
  <2>2. HasRole(h, v)
    BY <1>4, <1>5, <1>9, <1>10 DEF Pruned
  <2>3. c.member[v] = h.member[v] /\ c.rooms[v] = h.rooms[v]
    BY <1>5, <1>9, <1>10, <2>1
  <2> QED
    BY <2>2, <2>3 DEF HasRole
<1>11. HubInv(k)
  BY <1>3, <1>8, <1>10, PruneComplete
<1>12. Shrunk(c, k)
  BY <1>3, <1>9, PruneShrinks
<1>13. Shrunk(h, k)
  <2>1. Shrunk(h, c)
    BY <1>5, <1>8, ShrunkTwice
  <2> QED
    BY <1>12, <2>1, ShrunkTwice
<1>14. k.canon[u] = None
  <2>1. \A v \in Users : k.canon[v] = IF v \in Forgotten(h, u) /\ ~HasRole(c, v)
                                      THEN None ELSE c.canon[v]
    BY <1>3, <1>9, PruneParts
  <2>2. u \in Forgotten(h, u) /\ ~HasRole(c, u)
    BY <1>9 DEF Forgotten, HasRole
  <2> QED
    BY <2>1, <2>2
<1> QED
  BY <1>7, <1>11, <1>13, <1>14

(* Whatever the order in which a set of users is disconnected.             *)
Released(h, k, S) == /\ HubInv(k) /\ Shrunk(h, k)
                     /\ \A u \in S : k.canon[u] = None

LEMMA ReleasedMore ==
    ASSUME NEW h, NEW k, NEW S, S \subseteq Users, Released(h, k, S), NEW u \in Users
    PROVE  Released(h, Disconnect(k, u), S \union {u})
<1>1. PICK d : d = Disconnect(k, u)
  OBVIOUS
<1>2. HubInv(d) /\ Shrunk(k, d) /\ d.canon[u] = None
  BY <1>1, DisconnectKeeps DEF Released
<1>3. Shrunk(h, d)
  BY <1>2, ShrunkTwice DEF Released
<1>4. \A v \in S : d.canon[v] = None
  BY <1>2 DEF Released, Shrunk
<1> QED
  BY <1>1, <1>2, <1>3, <1>4 DEF Released

LEMMA DisconnectAllKeeps ==
    ASSUME NEW h, HubInv(h), NEW S \in SUBSET Users
    PROVE  Released(h, DisconnectAll(h, S), S)
<1>1. IsFiniteSet(S)
  BY Constants, FS_Subset
<1>2. PICK f : Unrolled(f, h, SUBSET S) /\ DisconnectAll(h, S) = f[S]
  BY <1>1, FoldIs
<1> DEFINE Bad == {s \in SUBSET S : ~Released(h, f[s], s)}
           Sizes == {Cardinality(s) : s \in Bad}
<1>3. \A s \in SUBSET S : f[s] = IF s = {} THEN h ELSE Disconnect(f[s \ {Chosen(s)}], Chosen(s))
  BY <1>2 DEF Unrolled
<1>4. ASSUME NEW s \in SUBSET S, s = {} PROVE Released(h, f[s], s)
  <2>1. f[s] = h
    BY <1>3, <1>4
  <2>2. Shrunk(h, h)
    BY DEF Shrunk
  <2> QED
    BY <1>4, <2>1, <2>2 DEF Released
<1>5. ASSUME NEW s \in SUBSET S, s # {}, Released(h, f[s \ {Chosen(s)}], s \ {Chosen(s)})
      PROVE  Released(h, f[s], s)
  <2>1. PICK u : u = Chosen(s)
    OBVIOUS
  <2>2. u \in s /\ u \in Users /\ s \ {u} \subseteq Users /\ (s \ {u}) \union {u} = s
    BY <1>1, <1>5, <2>1, Smaller
  <2>3. f[s] = Disconnect(f[s \ {u}], u)
    BY <1>3, <1>5, <2>1
  <2>4. Released(h, Disconnect(f[s \ {u}], u), (s \ {u}) \union {u})
    BY <1>5, <2>1, <2>2, ReleasedMore
  <2> QED
    BY <2>2, <2>3, <2>4
<1>6. Bad = {}
  <2> SUFFICES ASSUME Bad # {} PROVE FALSE
    OBVIOUS
  <2>1. Sizes \subseteq Nat /\ Sizes # {}
    <3>1. \A s \in Bad : IsFiniteSet(s)
      BY <1>1, FS_Subset
    <3>2. \A s \in Bad : Cardinality(s) \in Nat
      BY <3>1, FS_CardinalityType
    <3> HIDE DEF Bad
    <3> QED
      BY <3>2
  <2>2. PICK n \in Sizes : \A k \in Sizes : ~(<<k, n>> \in OpToRel(<, Nat))
    <3> HIDE DEF Sizes
    <3> QED
      BY <2>1, NatLessThanWellFounded, WFMin
  <2>3. PICK s \in Bad : n = Cardinality(s)
    BY <2>2
  <2>4. s \in SUBSET S /\ ~Released(h, f[s], s) /\ s # {}
    BY <1>4, <2>3
  <2>5. PICK t : t = s \ {Chosen(s)}
    OBVIOUS
  <2>6. /\ t \in SUBSET S /\ Cardinality(s) \in Nat /\ Cardinality(t) \in Nat
        /\ Cardinality(s) = Cardinality(t) + 1
    BY <1>1, <2>4, <2>5, Smaller
  <2>7. t \in Bad
    BY <1>5, <2>4, <2>5, <2>6
  <2>8. Cardinality(t) \in Sizes
    BY <2>7
  <2> HIDE DEF Sizes, Bad
  <2>9. <<Cardinality(t), n>> \notin {ss \in Nat \X Nat : ss[1] < ss[2]}
    BY <2>2, <2>8, Zenon DEF OpToRel
  <2> QED
    BY <2>3, <2>6, <2>9
<1> QED
  BY <1>2, <1>6

-----------------------------------------------------------------------------
(* Rooms that change without anybody moving.                               *)
Like(r, t) == /\ t.present = r.present
              /\ \A i \in Seats : t.seats[i] = None <=> r.seats[i] = None
              /\ \A i \in Seats : r.seats[i] # None => t.seats[i].user = r.seats[i].user
Alike(h, k) == /\ k.member = h.member
               /\ \A o \in Users : k.rooms[o] = None <=> h.rooms[o] = None
               /\ \A o \in Users : h.rooms[o] # None => Like(h.rooms[o], k.rooms[o])

LEMMA LikeMapped ==
    ASSUME NEW r, NEW t, Like(r, t), NEW o
    PROVE  Mapped(o, t) = Mapped(o, r)
<1>1. ASSUME NEW x PROVE x \in Mapped(o, t) <=> x \in Mapped(o, r)
  <2>1. \A i \in Seats : /\ t.seats[i] = None <=> r.seats[i] = None
                         /\ r.seats[i] # None => t.seats[i].user = r.seats[i].user
    BY DEF Like
  <2>2. t.present = r.present
    BY DEF Like
  <2> QED
    BY <2>1, <2>2, InRoom
<1> QED
  BY <1>1

LEMMA AlikeStands ==
    ASSUME NEW h, Sound(h), NEW k, Alike(h, k)
    PROVE  Placed(k) /\ Inhabited(k) /\ \A v \in Users : HasRole(k, v) <=> HasRole(h, v)
<1>1. k.member = h.member /\ \A o \in Users : k.rooms[o] = None <=> h.rooms[o] = None
  BY DEF Alike
<1>2. Placed(k)
  <2> SUFFICES ASSUME NEW u \in Users, h.member[u] # None, NEW m, m = h.member[u]
               PROVE  /\ k.rooms[m.owner] # None
                      /\ IF m.slot = OWNER THEN m.owner = u /\ k.rooms[m.owner].present
                         ELSE /\ k.rooms[m.owner].seats[m.slot] # None
                              /\ k.rooms[m.owner].seats[m.slot].user = u
    BY <1>1 DEF Placed
  <2>1. PICK r : r = h.rooms[m.owner]
    OBVIOUS
  <2>2. /\ m.owner \in Users /\ r # None
        /\ m.slot = OWNER => m.owner = u /\ r.present
        /\ m.slot # OWNER => /\ m.slot \in Seats
                             /\ r.seats[m.slot] # None /\ r.seats[m.slot].user = u
    BY <2>1, PlaceOf
  <2>3. PICK t : t = k.rooms[m.owner]
    OBVIOUS
  <2>4. Like(r, t) /\ t # None
    BY <2>1, <2>2, <2>3 DEF Alike
  <2>5. IF m.slot = OWNER THEN m.owner = u /\ t.present
        ELSE t.seats[m.slot] # None /\ t.seats[m.slot].user = u
    BY <2>2, <2>4 DEF Like
  <2> QED
    BY <2>3, <2>4, <2>5
<1>3. Inhabited(k)
  <2> SUFFICES ASSUME NEW o \in Users, k.rooms[o] # None, NEW t, t = k.rooms[o]
               PROVE  /\ Mapped(o, t) # {}
                      /\ t.present => h.member[o] = [owner |-> o, slot |-> OWNER]
                      /\ \A i \in Seats : t.seats[i] # None =>
                           /\ h.member[t.seats[i].user] = [owner |-> o, slot |-> i]
                           /\ t.seats[i].user # o
    BY <1>1 DEF Inhabited
  <2>1. PICK r : r = h.rooms[o]
    OBVIOUS
  <2>2. Like(r, t) /\ h.rooms[o] # None
    BY <1>1, <2>1 DEF Alike
  <2>3. InOrder(h, o)
    BY <2>2, RoomOf
  <2>4. /\ Mapped(o, r) # {}
        /\ r.present => h.member[o] = [owner |-> o, slot |-> OWNER]
        /\ \A i \in Seats : r.seats[i] # None =>
             /\ h.member[r.seats[i].user] = [owner |-> o, slot |-> i]
             /\ r.seats[i].user # o
    BY <2>1, <2>3 DEF InOrder
  <2>5. Mapped(o, t) # {}
    BY <2>2, <2>4, LikeMapped
  <2>6. t.present = r.present
    BY <2>2 DEF Like
  <2>7. \A i \in Seats : t.seats[i] # None =>
          r.seats[i] # None /\ t.seats[i].user = r.seats[i].user
    BY <2>2 DEF Like
  <2> QED
    BY <2>4, <2>5, <2>6, <2>7
<1>4. \A v \in Users : HasRole(k, v) <=> HasRole(h, v)
  BY <1>1 DEF HasRole
<1> QED
  BY <1>2, <1>3, <1>4

(* The generations of a room, and its addresses.                           *)
Carries(r, o, c) ==
    /\ r.gen = c[o]
    /\ r.port # None => r.present /\ r.port = r.gen
    /\ \A i \in Seats : r.seats[i] # None =>
         /\ r.seats[i].gen = c[r.seats[i].user]
         /\ r.seats[i].port # None => r.seats[i].port = r.seats[i].gen

LEMMA AlikeSound ==
    ASSUME NEW h, HubInv(h), NEW k \in Tables, Alike(h, k),
           \A o \in Users : h.rooms[o] # None => Carries(k.rooms[o], o, k.canon),
           \A v \in Users : k.canon[v] # None <=> h.canon[v] # None
    PROVE  HubInv(k)
<1>1. Placed(k) /\ Inhabited(k) /\ \A v \in Users : HasRole(k, v) <=> HasRole(h, v)
  BY AlikeStands DEF HubInv
<1>2. OneGeneration(k)
  BY DEF OneGeneration, Carries, Alike
<1>3. Rooted(k)
  BY <1>1 DEF Rooted, HubInv, Sound
<1>4. Pruned(k)
  BY <1>1 DEF Pruned, HubInv
<1> QED
  BY <1>1, <1>2, <1>3, <1>4 DEF HubInv, Sound

LEMMA CarriesHere ==
    ASSUME NEW h, Sound(h), NEW o \in Users, h.rooms[o] # None
    PROVE  Carries(h.rooms[o], o, h.canon)
BY DEF Sound, OneGeneration, Carries

PutSeat(r, s, x) == [r EXCEPT !.seats[s] = x]

LEMMA SeatParts ==
    ASSUME NEW r \in Room, NEW s \in Seats, NEW x \in OrNone(Visit),
           NEW t, t = PutSeat(r, s, x)
    PROVE  /\ t \in Room /\ t.gen = r.gen /\ t.port = r.port /\ t.info = r.info
           /\ t.rev = r.rev /\ t.present = r.present
           /\ \A j \in Seats : t.seats[j] = IF j = s THEN x ELSE r.seats[j]
<1> DEFINE q == [r.seats EXCEPT ![s] = x]
<1>1. t = [r EXCEPT !.seats = q]
  BY DEF Room, PutSeat
<1>2. q \in [Seats -> OrNone(Visit)] /\ \A j \in Seats : q[j] = IF j = s THEN x ELSE r.seats[j]
  BY RoomParts
<1> HIDE DEF q
<1>3. t \in Room
  BY <1>1, <1>2 DEF Room
<1>4. /\ t.seats = q /\ t.gen = r.gen /\ t.port = r.port /\ t.info = r.info
      /\ t.rev = r.rev /\ t.present = r.present
  BY <1>1 DEF Room
<1> QED
  BY <1>2, <1>3, <1>4

(* Replacing one room.                                                     *)
OneRoom(h, o, t) == [h.rooms EXCEPT ![o] = t]

LEMMA OneRoomParts ==
    ASSUME NEW h \in Tables, NEW o \in Users, NEW t \in Room
    PROVE  /\ OneRoom(h, o, t) \in [Users -> OrNone(Room)] /\ OneRoom(h, o, t)[o] = t
           /\ \A x \in Users : x # o => OneRoom(h, o, t)[x] = h.rooms[x]
BY HubParts DEF OrNone, OneRoom

LEMMA RoomsReplaced ==
    ASSUME NEW h \in Tables, NEW R \in [Users -> OrNone(Room)],
           NEW C \in [Users -> OrNone(0..GenMax)], NEW k, k = HubOf(R, h.member, C)
    PROVE  k \in Tables /\ k.rooms = R /\ k.member = h.member /\ k.canon = C
BY HubParts, HubTyped, HubReads

(* A room's policy and occupants are left alone by what only touches       *)
(* generations and addresses.                                              *)
Untouched(h, k) ==
    /\ k.member = h.member
    /\ \A o \in Users : k.rooms[o] = None <=> h.rooms[o] = None
    /\ \A o \in Users : h.rooms[o] # None =>
         k.rooms[o].rev = h.rooms[o].rev /\ k.rooms[o].info = h.rooms[o].info

(* A visitor's seat and an owner's place with another address.             *)
LEMMA SeatPort ==
    ASSUME NEW h, HubInv(h), NEW u \in Users, h.member[u] # None, h.member[u].slot # OWNER,
           NEW g \in 1..GenMax, h.canon[u] = g,
           NEW k, k = SetPort(h, u, g)
    PROVE  HubInv(k) /\ Untouched(h, k) /\ k.canon = h.canon
<1>1. PICK m : m = h.member[u]
  OBVIOUS
<1>2. PICK r : r = h.rooms[m.owner]
  OBVIOUS
<1>3. Sound(h) /\ h \in Tables
  BY DEF HubInv, Sound
<1>4. /\ m \in Place /\ m.owner \in Users /\ m.slot \in Seats /\ m.slot # OWNER
      /\ r \in Room /\ r # None /\ r.seats[m.slot] # None /\ r.seats[m.slot].user = u
  BY <1>1, <1>2, <1>3, PlaceOf
<1>5. PICK o \in Users : o = m.owner
  BY <1>4
<1>6. PICK s \in Seats : s = m.slot
  BY <1>4
<1>7. PICK x : x = r.seats[s]
  OBVIOUS
<1>8. PICK y : y = [x EXCEPT !.port = g]
  OBVIOUS
<1>9. x \in Visit /\ x.user = u /\ x.gen = g
  <2>1. Carries(r, o, h.canon)
    BY <1>2, <1>3, <1>4, <1>5, CarriesHere
  <2>2. r.seats[s] # None /\ r.seats[s].user = u
    BY <1>4, <1>6
  <2>3. x.gen = h.canon[u]
    BY <1>7, <2>1, <2>2 DEF Carries
  <2>4. x \in Visit
    BY <1>4, <1>7, <2>2, RoomParts
  <2> QED
    BY <1>7, <2>2, <2>3, <2>4
<1>10. y \in Visit /\ y # None /\ y.user = u /\ y.gen = g /\ y.port = g
  <2>1. y \in Visit /\ y.user = u /\ y.gen = g /\ y.port = g
    BY <1>8, <1>9 DEF Visit, OrNone
  <2> QED
    BY <2>1, VisitParts
<1>11. PICK t : t = PutSeat(r, s, y)
  OBVIOUS
<1>12. /\ t \in Room /\ t.gen = r.gen /\ t.port = r.port /\ t.info = r.info
       /\ t.rev = r.rev /\ t.present = r.present
       /\ \A j \in Seats : t.seats[j] = IF j = s THEN y ELSE r.seats[j]
  BY <1>4, <1>10, <1>11, SeatParts DEF OrNone
<1>13. PICK R : R = OneRoom(h, o, t)
  OBVIOUS
<1>14. /\ R \in [Users -> OrNone(Room)] /\ R[o] = t
       /\ \A z \in Users : z # o => R[z] = h.rooms[z]
  BY <1>3, <1>12, <1>13, OneRoomParts
<1>15. k = HubOf(R, h.member, h.canon)
  <2>1. k = [h EXCEPT !.rooms[o].seats[s].port = g]
    BY <1>1, <1>4, <1>5, <1>6 DEF SetPort
  <2>2. [h.rooms EXCEPT ![o].seats[s].port = g] = [h.rooms EXCEPT ![o] = [r EXCEPT !.seats = [r.seats EXCEPT ![s] = y]]]
    BY <1>2, <1>5, <1>7, <1>8
  <2>3. k = [h EXCEPT !.rooms = [h.rooms EXCEPT ![o].seats[s].port = g]]
    BY <2>1
  <2>4. k = [h EXCEPT !.rooms = R]
    BY <1>11, <1>13, <2>2, <2>3 DEF OneRoom, PutSeat
  <2>5. h = HubOf(h.rooms, h.member, h.canon)
    BY <1>3, HubParts
  <2> QED
    BY <2>4, <2>5 DEF HubOf
<1>16. k \in Tables /\ k.rooms = R /\ k.member = h.member /\ k.canon = h.canon
  BY <1>3, <1>14, <1>15, HubParts, RoomsReplaced
<1>17. Like(r, t) /\ Carries(t, o, h.canon)
  <2>1. Carries(r, o, h.canon)
    BY <1>2, <1>3, <1>4, <1>5, CarriesHere
  <2>2. r.seats[s] # None /\ r.seats[s].user = u
    BY <1>4, <1>6
  <2>3. Like(r, t)
    BY <1>10, <1>12, <2>2 DEF Like
  <2>4. Carries(t, o, h.canon)
    BY <1>10, <1>12, <2>1 DEF Carries
  <2> QED
    BY <2>3, <2>4
<1>18. t # None
  BY <1>12, RoomParts
<1>19. Alike(h, k)
  <2>1. \A z \in Users : Like(h.rooms[z], h.rooms[z])
    BY DEF Like
  <2> QED
    BY <1>2, <1>4, <1>5, <1>14, <1>16, <1>17, <1>18, <2>1 DEF Alike
<1>20. \A z \in Users : h.rooms[z] # None => Carries(k.rooms[z], z, k.canon)
  BY <1>3, <1>14, <1>16, <1>17, CarriesHere
<1>21. HubInv(k)
  BY <1>16, <1>19, <1>20, AlikeSound
<1>22. Untouched(h, k)
  <2>1. k.rooms[o].rev = h.rooms[o].rev /\ k.rooms[o].info = h.rooms[o].info
    BY <1>2, <1>5, <1>12, <1>14, <1>16
  <2>2. \A z \in Users : z # o => k.rooms[z] = h.rooms[z]
    BY <1>14, <1>16
  <2>3. k.member = h.member /\ \A z \in Users : k.rooms[z] = None <=> h.rooms[z] = None
    BY <1>19 DEF Alike
  <2> QED
    BY <2>1, <2>2, <2>3 DEF Untouched
<1> QED
  BY <1>16, <1>21, <1>22

LEMMA OwnerPort ==
    ASSUME NEW h, HubInv(h), NEW u \in Users, h.member[u] # None, h.member[u].slot = OWNER,
           NEW g \in 1..GenMax, h.canon[u] = g,
           NEW k, k = SetPort(h, u, g)
    PROVE  HubInv(k) /\ Untouched(h, k) /\ k.canon = h.canon
<1>1. PICK r : r = h.rooms[u]
  OBVIOUS
<1>2. Sound(h) /\ h \in Tables
  BY DEF HubInv, Sound
<1>3. r \in Room /\ r # None /\ r.present
  <2>1. PICK m : m = h.member[u]
    OBVIOUS
  <2>2. PICK q : q = h.rooms[m.owner]
    OBVIOUS
  <2>3. q \in Room /\ q # None /\ q.present /\ m.owner = u
    BY <1>2, <2>1, <2>2, PlaceOf
  <2> QED
    BY <1>1, <2>2, <2>3
<1>4. Carries(r, u, h.canon)
  BY <1>1, <1>2, <1>3, CarriesHere
<1>5. PICK t : t = [r EXCEPT !.port = g]
  OBVIOUS
<1>6. /\ t \in Room /\ t.gen = r.gen /\ t.port = g /\ t.info = r.info
      /\ t.rev = r.rev /\ t.present = r.present /\ t.seats = r.seats
  BY <1>3, <1>5 DEF Room, OrNone
<1>7. PICK R : R = OneRoom(h, u, t)
  OBVIOUS
<1>8. /\ R \in [Users -> OrNone(Room)] /\ R[u] = t
      /\ \A z \in Users : z # u => R[z] = h.rooms[z]
  BY <1>2, <1>6, <1>7, OneRoomParts
<1>9. k = HubOf(R, h.member, h.canon)
  <2>1. k = [h EXCEPT !.rooms[u].port = g]
    BY DEF SetPort
  <2>2. k = [h EXCEPT !.rooms = R]
    BY <1>1, <1>5, <1>7, <2>1 DEF OneRoom
  <2>3. h = HubOf(h.rooms, h.member, h.canon)
    BY <1>2, HubParts
  <2> QED
    BY <2>2, <2>3 DEF HubOf
<1>10. k \in Tables /\ k.rooms = R /\ k.member = h.member /\ k.canon = h.canon
  BY <1>2, <1>8, <1>9, HubParts, RoomsReplaced
<1>11. Like(r, t) /\ Carries(t, u, h.canon)
  BY <1>3, <1>4, <1>6 DEF Like, Carries
<1>12. t # None
  BY <1>6, RoomParts
<1>13. Alike(h, k)
  <2>1. \A z \in Users : Like(h.rooms[z], h.rooms[z])
    BY DEF Like
  <2> QED
    BY <1>1, <1>3, <1>8, <1>10, <1>11, <1>12, <2>1 DEF Alike
<1>14. \A z \in Users : h.rooms[z] # None => Carries(k.rooms[z], z, k.canon)
  BY <1>2, <1>8, <1>10, <1>11, CarriesHere
<1>15. HubInv(k)
  BY <1>10, <1>13, <1>14, AlikeSound
<1>16. Untouched(h, k)
  <2>1. k.rooms[u].rev = h.rooms[u].rev /\ k.rooms[u].info = h.rooms[u].info
    BY <1>1, <1>6, <1>8, <1>10
  <2>2. \A z \in Users : z # u => k.rooms[z] = h.rooms[z]
    BY <1>8, <1>10
  <2>3. k.member = h.member /\ \A z \in Users : k.rooms[z] = None <=> h.rooms[z] = None
    BY <1>13 DEF Alike
  <2> QED
    BY <2>1, <2>2, <2>3 DEF Untouched
<1> QED
  BY <1>10, <1>15, <1>16

LEMMA PortKeeps ==
    ASSUME NEW h, HubInv(h), NEW u \in Users, NEW g \in 1..GenMax,
           h.canon[u] = None \/ h.canon[u] = g,
           NEW k, k = SetPort(h, u, g)
    PROVE  HubInv(k) /\ Untouched(h, k) /\ k.canon = h.canon
<1>1. CASE h.member[u] = None
  <2>1. k = h
    BY <1>1 DEF SetPort
  <2> QED
    BY <2>1 DEF Untouched
<1>2. CASE h.member[u] # None
  <2>1. h.canon[u] = g
    BY <1>2 DEF HubInv, Sound, Rooted, HasRole
  <2> QED
    BY <1>2, <2>1, SeatPort, OwnerPort
<1> QED
  BY <1>1, <1>2

-----------------------------------------------------------------------------
(* A new generation: it takes over every role, without an address.         *)
Visits(h, u) == h.member[u] # None /\ h.member[u].slot # OWNER
NewSeat(r, s, u, g) == [r EXCEPT !.seats[s] = [user |-> u, gen |-> g, port |-> None]]
NewOwner(r, g) == [r EXCEPT !.gen = g, !.port = None]
Reseated(h, u, g) ==
    IF Visits(h, u)
    THEN OneRoom(h, h.member[u].owner,
                 NewSeat(h.rooms[h.member[u].owner], h.member[u].slot, u, g))
    ELSE h.rooms
Advanced(h, u, g) ==
    IF h.rooms[u] = None THEN Reseated(h, u, g)
    ELSE [Reseated(h, u, g) EXCEPT ![u] = NewOwner(h.rooms[u], g)]

(* What becomes of the room r of o, when u moves to a generation.          *)
Follows(r, t, o, c) ==
    t \in Room /\ t.rev = r.rev /\ t.info = r.info /\ Like(r, t) /\ Carries(t, o, c)

LEMMA SeatFollows ==
    ASSUME NEW h, Sound(h), NEW u \in Users, NEW g \in 1..GenMax, Visits(h, u),
           NEW c, c = [h.canon EXCEPT ![u] = g],
           NEW m, m = h.member[u], NEW r, r = h.rooms[m.owner],
           NEW t, t = NewSeat(r, m.slot, u, g)
    PROVE  m.owner \in Users /\ m.owner # u /\ r # None /\ Follows(r, t, m.owner, c)
<1>1. h.member[u] # None /\ m.slot # OWNER /\ h \in Tables
  BY DEF Visits, Sound
<1>2. /\ m \in Place /\ m.owner \in Users /\ m.slot \in Seats /\ m.owner # u
      /\ r \in Room /\ r # None /\ r.seats[m.slot] # None /\ r.seats[m.slot].user = u
  BY <1>1, PlaceOf
<1>3. PICK o \in Users : o = m.owner
  BY <1>2
<1>4. PICK s \in Seats : s = m.slot
  BY <1>2
<1>5. PICK y : y = [user |-> u, gen |-> g, port |-> None]
  OBVIOUS
<1>6. y \in Visit /\ y # None /\ y.user = u /\ y.gen = g /\ y.port = None
  <2>1. y \in Visit /\ y.user = u /\ y.gen = g /\ y.port = None
    BY <1>5 DEF Visit, OrNone
  <2> QED
    BY <2>1, VisitParts
<1>7. t = PutSeat(r, s, y)
  BY <1>4, <1>5 DEF NewSeat, PutSeat
<1>8. /\ t \in Room /\ t.gen = r.gen /\ t.port = r.port /\ t.info = r.info
      /\ t.rev = r.rev /\ t.present = r.present
      /\ \A j \in Seats : t.seats[j] = IF j = s THEN y ELSE r.seats[j]
  <2>1. r \in Room /\ y \in OrNone(Visit)
    BY <1>2, <1>6 DEF OrNone
  <2> QED
    BY <1>7, <2>1, SeatParts
<1>9. Like(r, t)
  BY <1>2, <1>4, <1>6, <1>8 DEF Like
<1>10. /\ c[u] = g /\ \A v \in Users : v # u => c[v] = h.canon[v]
  BY <1>1, HubParts
<1>11. ASSUME NEW j \in Seats, j # s, r.seats[j] # None
       PROVE  c[r.seats[j].user] = h.canon[r.seats[j].user]
  <2>1. InOrder(h, o)
    BY <1>2, <1>3, RoomOf
  <2>2. r.seats[j].user \in Users /\ h.member[r.seats[j].user] = [owner |-> o, slot |-> j]
    BY <1>3, <1>11, <2>1 DEF InOrder
  <2>3. r.seats[j].user # u
    <3> SUFFICES ASSUME r.seats[j].user = u PROVE FALSE
      OBVIOUS
    <3>1. m = [owner |-> o, slot |-> j]
      BY <2>2
    <3> QED
      BY <1>4, <1>11, <3>1
  <2> QED
    BY <1>10, <2>2, <2>3
<1>12. Carries(t, o, c)
  <2>1. Carries(r, o, h.canon)
    BY <1>2, <1>3, CarriesHere
  <2>2. c[o] = h.canon[o]
    BY <1>2, <1>3, <1>10
  <2>3. ASSUME NEW j \in Seats, t.seats[j] # None
        PROVE  /\ t.seats[j].gen = c[t.seats[j].user]
               /\ t.seats[j].port # None => t.seats[j].port = t.seats[j].gen
    <3>1. CASE j = s
      BY <1>6, <1>8, <1>10, <3>1
    <3>2. CASE j # s
      <4>1. t.seats[j] = r.seats[j] /\ r.seats[j] # None
        BY <1>8, <2>3, <3>2
      <4>2. /\ r.seats[j].gen = h.canon[r.seats[j].user]
            /\ r.seats[j].port # None => r.seats[j].port = r.seats[j].gen
        BY <2>1, <4>1 DEF Carries
      <4>3. c[r.seats[j].user] = h.canon[r.seats[j].user]
        BY <1>11, <3>2, <4>1
      <4> QED
        BY <4>1, <4>2, <4>3
    <3> QED
      BY <3>1, <3>2
  <2>4. /\ t.gen = c[o]
        /\ t.port # None => t.present /\ t.port = t.gen
    BY <1>8, <2>1, <2>2 DEF Carries
  <2> QED
    BY <2>3, <2>4 DEF Carries
<1> QED
  BY <1>2, <1>3, <1>8, <1>9, <1>12 DEF Follows

LEMMA OwnerFollows ==
    ASSUME NEW h, Sound(h), NEW u \in Users, NEW g \in 1..GenMax,
           NEW c, c = [h.canon EXCEPT ![u] = g], h.rooms[u] # None,
           NEW r, r = h.rooms[u], NEW t, t = NewOwner(r, g)
    PROVE  Follows(r, t, u, c)
<1>1. r \in Room /\ h \in Tables
  BY HubPoints DEF Sound
<1>2. /\ t \in Room /\ t.gen = g /\ t.port = None /\ t.info = r.info
      /\ t.rev = r.rev /\ t.present = r.present /\ t.seats = r.seats
  <2>1. g \in 0..GenMax
    BY Constants
  <2> QED
    BY <1>1, <2>1 DEF NewOwner, Room, OrNone
<1>3. /\ c[u] = g /\ \A v \in Users : v # u => c[v] = h.canon[v]
  BY <1>1, HubParts
<1>4. Carries(r, u, h.canon)
  BY CarriesHere
<1>5. ASSUME NEW j \in Seats, r.seats[j] # None
      PROVE  r.seats[j].user \in Users /\ r.seats[j].user # u
  <2>1. InOrder(h, u)
    BY RoomOf
  <2> QED
    BY <1>5, <2>1 DEF InOrder
<1>6. Carries(t, u, c)
  BY <1>2, <1>3, <1>4, <1>5 DEF Carries
<1>7. Like(r, t)
  BY <1>2 DEF Like
<1> QED
  BY <1>2, <1>6, <1>7 DEF Follows

LEMMA OthersFollow ==
    ASSUME NEW h, Sound(h), NEW u \in Users, NEW g \in 1..GenMax,
           NEW c, c = [h.canon EXCEPT ![u] = g],
           NEW o \in Users, o # u, h.rooms[o] # None,
           Visits(h, u) => h.member[u].owner # o
    PROVE  Follows(h.rooms[o], h.rooms[o], o, c)
<1>1. h \in Tables /\ h.rooms[o] \in Room
  BY HubPoints DEF Sound
<1>2. /\ c[u] = g /\ \A v \in Users : v # u => c[v] = h.canon[v]
  BY <1>1, HubParts
<1>3. Carries(h.rooms[o], o, h.canon)
  BY CarriesHere
<1>4. ASSUME NEW j \in Seats, h.rooms[o].seats[j] # None
      PROVE  h.rooms[o].seats[j].user \in Users /\ h.rooms[o].seats[j].user # u
  <2>1. InOrder(h, o)
    BY RoomOf
  <2>2. PICK x \in Users : x = h.rooms[o].seats[j].user
    BY <1>4, <2>1 DEF InOrder
  <2>3. h.member[x] = [owner |-> o, slot |-> j]
    BY <1>4, <2>1, <2>2 DEF InOrder
  <2>4. h.member[x] # None /\ h.member[x].slot # OWNER /\ h.member[x].owner = o
    BY <2>3, PlaceTyped, SeatsArePositive
  <2> QED
    BY <2>2, <2>4 DEF Visits
<1>5. Carries(h.rooms[o], o, c)
  BY <1>2, <1>3, <1>4 DEF Carries
<1> QED
  BY <1>1, <1>5 DEF Follows, Like

LEMMA AdvanceIs ==
    ASSUME NEW h, Sound(h), NEW u \in Users, NEW g \in 1..GenMax
    PROVE  /\ Advance(h, u, g) = HubOf(Advanced(h, u, g), h.member, [h.canon EXCEPT ![u] = g])
           /\ Advanced(h, u, g) \in [Users -> OrNone(Room)]
           /\ \A o \in Users :
                /\ Advanced(h, u, g)[o] = None <=> h.rooms[o] = None
                /\ h.rooms[o] # None =>
                     Follows(h.rooms[o], Advanced(h, u, g)[o], o, [h.canon EXCEPT ![u] = g])
<1>1. PICK m : m = h.member[u]
  OBVIOUS
<1>2. PICK r : r = h.rooms[m.owner]
  OBVIOUS
<1>3. PICK t : t = NewSeat(r, m.slot, u, g)
  OBVIOUS
<1>4. PICK c : c = [h.canon EXCEPT ![u] = g]
  OBVIOUS
<1>5. PICK S : S = Reseated(h, u, g)
  OBVIOUS
<1>6. h \in Tables
  BY DEF Sound
<1>7. ASSUME Visits(h, u)
      PROVE  /\ m.owner \in Users /\ m.owner # u /\ r # None /\ Follows(r, t, m.owner, c)
             /\ S \in [Users -> OrNone(Room)] /\ S[m.owner] = t
             /\ \A x \in Users : x # m.owner => S[x] = h.rooms[x]
  <2>1. m.owner \in Users /\ m.owner # u /\ r # None /\ Follows(r, t, m.owner, c)
    BY <1>1, <1>2, <1>3, <1>4, <1>7, SeatFollows
  <2>2. S = OneRoom(h, m.owner, t)
    BY <1>1, <1>2, <1>3, <1>5, <1>7 DEF Reseated
  <2>3. t \in Room
    BY <2>1 DEF Follows
  <2> QED
    BY <1>6, <2>1, <2>2, <2>3, OneRoomParts
<1>8. ASSUME ~Visits(h, u) PROVE S = h.rooms /\ S \in [Users -> OrNone(Room)]
  BY <1>5, <1>6, <1>8, HubParts DEF Reseated
<1>9. S[u] = h.rooms[u] /\ S \in [Users -> OrNone(Room)]
  BY <1>7, <1>8
<1>10. PICK A : A = Advanced(h, u, g)
  OBVIOUS
<1>11. PICK n : n = NewOwner(h.rooms[u], g)
  OBVIOUS
<1>12. A = IF h.rooms[u] = None THEN S ELSE [S EXCEPT ![u] = n]
  BY <1>5, <1>10, <1>11 DEF Advanced
<1>13. h.rooms[u] # None => Follows(h.rooms[u], n, u, c)
  BY <1>4, <1>11, OwnerFollows
<1>14. /\ A \in [Users -> OrNone(Room)]
       /\ A[u] = IF h.rooms[u] = None THEN None ELSE n
       /\ \A o \in Users : o # u => A[o] = S[o]
  BY <1>9, <1>12, <1>13 DEF Follows, OrNone
<1>15. ASSUME NEW o \in Users
       PROVE  /\ A[o] = None <=> h.rooms[o] = None
              /\ h.rooms[o] # None => Follows(h.rooms[o], A[o], o, c)
  <2>1. ASSUME NEW a, NEW b, NEW w, Follows(a, b, w, c) PROVE b # None
    BY <2>1, Constants DEF Follows
  <2>2. CASE o = u
    BY <1>13, <1>14, <2>1, <2>2
  <2>3. CASE o # u /\ Visits(h, u) /\ m.owner = o
    BY <1>2, <1>7, <1>14, <2>1, <2>3
  <2>4. CASE o # u /\ ~(Visits(h, u) /\ m.owner = o)
    <3>1. A[o] = h.rooms[o]
      BY <1>7, <1>8, <1>14, <2>4
    <3>2. h.rooms[o] # None => Follows(h.rooms[o], h.rooms[o], o, c)
      BY <1>1, <1>4, <2>4, OthersFollow
    <3> QED
      BY <3>1, <3>2
  <2> QED
    BY <2>2, <2>3, <2>4
<1>16. Advance(h, u, g) = HubOf(A, h.member, c)
  <2>1. S = IF m = None \/ m.slot = OWNER THEN h.rooms
            ELSE [h.rooms EXCEPT ![m.owner].seats[m.slot] =
                                          [user |-> u, gen |-> g, port |-> None]]
    BY <1>1, <1>2, <1>5 DEF Reseated, Visits, OneRoom, NewSeat
  <2>2. A = IF S[u] = None THEN S ELSE [S EXCEPT ![u].gen = g, ![u].port = None]
    BY <1>9, <1>11, <1>12 DEF NewOwner
  <2>3. Advance(h, u, g) = [h EXCEPT !.rooms = A, !.canon[u] = g]
    BY <1>1, <2>1, <2>2 DEF Advance
  <2>4. Advance(h, u, g) = [h EXCEPT !.rooms = A, !.canon = c]
    BY <1>4, <2>3
  <2>5. h = HubOf(h.rooms, h.member, h.canon)
    BY <1>6, HubParts
  <2> QED
    BY <2>4, <2>5 DEF HubOf
<1> QED
  BY <1>4, <1>10, <1>14, <1>15, <1>16

LEMMA AdvanceKeeps ==
    ASSUME NEW h, HubInv(h), NEW u \in Users, NEW g \in 1..GenMax, HasRole(h, u),
           NEW k, k = Advance(h, u, g)
    PROVE  /\ HubInv(k) /\ Untouched(h, k)
           /\ k.canon[u] = g /\ \A v \in Users : v # u => k.canon[v] = h.canon[v]
<1>1. Sound(h) /\ h \in Tables
  BY DEF HubInv, Sound
<1>2. PICK A : A = Advanced(h, u, g)
  OBVIOUS
<1>3. PICK c : c = [h.canon EXCEPT ![u] = g]
  OBVIOUS
<1>4. /\ k = HubOf(A, h.member, c)
      /\ A \in [Users -> OrNone(Room)]
      /\ \A o \in Users : /\ A[o] = None <=> h.rooms[o] = None
                          /\ h.rooms[o] # None => Follows(h.rooms[o], A[o], o, c)
  BY <1>1, <1>2, <1>3, AdvanceIs
<1>5. /\ c \in [Users -> OrNone(0..GenMax)]
      /\ c[u] = g /\ \A v \in Users : v # u => c[v] = h.canon[v]
  <2>1. g \in OrNone(0..GenMax)
    BY Constants DEF OrNone
  <2> QED
    BY <1>1, <1>3, <2>1, HubParts
<1>6. k \in Tables /\ k.rooms = A /\ k.member = h.member /\ k.canon = c
  BY <1>1, <1>4, <1>5, RoomsReplaced
<1>7. Alike(h, k)
  BY <1>4, <1>6 DEF Alike, Follows
<1>8. \A o \in Users : h.rooms[o] # None => Carries(k.rooms[o], o, k.canon)
  BY <1>4, <1>6 DEF Follows
<1>9. \A v \in Users : k.canon[v] # None <=> h.canon[v] # None
  <2>1. h.canon[u] # None /\ g # None
    BY Constants DEF HubInv, Sound, Rooted
  <2> QED
    BY <1>5, <1>6, <2>1
<1>10. HubInv(k)
  BY <1>6, <1>7, <1>8, <1>9, AlikeSound
<1>11. Untouched(h, k)
  BY <1>4, <1>6 DEF Untouched, Follows
<1> QED
  BY <1>5, <1>6, <1>10, <1>11

-----------------------------------------------------------------------------
(* A new policy for a room.                                                *)
Policy(h, u, info, rev) == [h EXCEPT !.rooms[u].info = info, !.rooms[u].rev = rev]

LEMMA PolicyKeeps ==
    ASSUME NEW h, HubInv(h), NEW u \in Users, h.rooms[u] # None,
           NEW info \in Infos, NEW rev \in Revisions, NEW k, k = Policy(h, u, info, rev)
    PROVE  /\ HubInv(k) /\ k.member = h.member /\ k.canon = h.canon
           /\ k.rooms[u] # None /\ k.rooms[u].info = info /\ k.rooms[u].rev = rev
           /\ \A o \in Users : o # u => k.rooms[o] = h.rooms[o]
<1>1. PICK r : r = h.rooms[u]
  OBVIOUS
<1>2. Sound(h) /\ h \in Tables
  BY DEF HubInv, Sound
<1>3. r \in Room
  BY <1>1, <1>2, HubPoints
<1>4. Carries(r, u, h.canon)
  BY <1>1, <1>2, CarriesHere
<1>5. PICK t : t = [r EXCEPT !.info = info, !.rev = rev]
  OBVIOUS
<1>6. /\ t \in Room /\ t.gen = r.gen /\ t.port = r.port /\ t.info = info
      /\ t.rev = rev /\ t.present = r.present /\ t.seats = r.seats
  BY <1>3, <1>5 DEF Room
<1>7. PICK R : R = OneRoom(h, u, t)
  OBVIOUS
<1>8. /\ R \in [Users -> OrNone(Room)] /\ R[u] = t
      /\ \A z \in Users : z # u => R[z] = h.rooms[z]
  BY <1>2, <1>6, <1>7, OneRoomParts
<1>9. k = HubOf(R, h.member, h.canon)
  <2>1. k = [h EXCEPT !.rooms = [h.rooms EXCEPT ![u] = t]]
    <3>1. k = [h EXCEPT !.rooms = [h.rooms EXCEPT ![u].info = info, ![u].rev = rev]]
      BY <1>2, HubParts DEF Policy, HubOf
    <3>2. h.rooms \in [Users -> OrNone(Room)]
      BY <1>2, HubParts
    <3>3. [h.rooms EXCEPT ![u].info = info, ![u].rev = rev] = [h.rooms EXCEPT ![u] = t]
      BY <1>1, <1>5, <3>2
    <3> QED
      BY <3>1, <3>3
  <2>2. k = [h EXCEPT !.rooms = R]
    BY <1>7, <2>1 DEF OneRoom
  <2>3. h = HubOf(h.rooms, h.member, h.canon)
    BY <1>2, HubParts
  <2> QED
    BY <2>2, <2>3 DEF HubOf
<1>10. k \in Tables /\ k.rooms = R /\ k.member = h.member /\ k.canon = h.canon
  BY <1>2, <1>8, <1>9, HubParts, RoomsReplaced
<1>11. Like(r, t) /\ Carries(t, u, h.canon)
  BY <1>4, <1>6 DEF Like, Carries
<1>12. t # None
  BY <1>6, RoomParts
<1>13. Alike(h, k)
  <2>1. \A z \in Users : Like(h.rooms[z], h.rooms[z])
    BY DEF Like
  <2> QED
    BY <1>1, <1>8, <1>10, <1>11, <1>12, <2>1 DEF Alike
<1>14. \A z \in Users : h.rooms[z] # None => Carries(k.rooms[z], z, k.canon)
  BY <1>2, <1>8, <1>10, <1>11, CarriesHere
<1>15. HubInv(k)
  BY <1>10, <1>13, <1>14, AlikeSound
<1> QED
  BY <1>6, <1>8, <1>10, <1>12, <1>15

-----------------------------------------------------------------------------
(* Entering the room of o, known as generation og, as generation g.        *)
MayEnter(h, u, g, port, o, og, info, rev) ==
    /\ HubInv(h) /\ u \in Users /\ o \in Users
    /\ g \in 1..GenMax /\ og \in 0..GenMax /\ (u = o => og = g)
    /\ port = None \/ port = g
    /\ h.canon[u] = None \/ h.canon[u] = g
    /\ h.canon[o] = None \/ h.canon[o] = og
    /\ info \in Infos /\ rev \in Revisions
    /\ HasSlot(h, u, o)
    /\ h.member[u] # None => h.member[u].owner # o

(* The hub without u, who has left the room it was in.                     *)
Gone(h, u) == IF h.member[u] = None THEN h ELSE Detach(h, u)

Without(h, l, u) ==
    /\ Sound(l) /\ l.canon = h.canon /\ Shrunk(h, l) /\ l.member[u] = None
    /\ \A v \in Users : v # u => l.member[v] = h.member[v]
    /\ \A x \in Users : h.member[u] = None \/ x # h.member[u].owner => l.rooms[x] = h.rooms[x]

LEMMA GoneParts ==
    ASSUME NEW h, Sound(h), NEW u \in Users
    PROVE  Without(h, Gone(h, u), u)
<1> DEFINE l == Gone(h, u)
<1>1. CASE h.member[u] = None
  BY <1>1 DEF Gone, Shrunk, Without
<1>2. CASE h.member[u] # None
  <2>1. l = Detach(h, u)
    BY <1>2 DEF Gone
  <2>2. /\ l.canon = h.canon
        /\ \A v \in Users : l.member[v] = IF v = u THEN None ELSE h.member[v]
        /\ \A x \in Users : x # h.member[u].owner => l.rooms[x] = h.rooms[x]
    BY <1>2, <2>1, DetachParts
  <2>3. Sound(l) /\ Shrunk(h, l)
    BY <1>2, <2>1, DetachSound, DetachShrinks
  <2> QED
    BY <1>2, <2>2, <2>3 DEF Without
<1> QED
  BY <1>1, <1>2

(* The room that u finds, in the hub l without it.                         *)
Base(h, o, og, info, rev) == IF h.rooms[o] = None THEN NewRoom(og, info, rev) ELSE h.rooms[o]
Found(l, o, b) ==
    /\ b \in Room
    /\ b.present => l.member[o] = [owner |-> o, slot |-> OWNER]
    /\ b.port # None => b.present /\ b.port = b.gen
    /\ \A i \in Seats : b.seats[i] # None =>
         /\ b.seats[i].user \in Users /\ b.seats[i].user # o
         /\ l.member[b.seats[i].user] = [owner |-> o, slot |-> i]
         /\ b.seats[i].gen = l.canon[b.seats[i].user]
         /\ b.seats[i].port # None => b.seats[i].port = b.seats[i].gen
    /\ l.rooms[o] # None => b = l.rooms[o]
    /\ l.rooms[o] = None => ~b.present /\ b.port = None /\ \A i \in Seats : b.seats[i] = None

LEMMA BaseFound ==
    ASSUME NEW l, Sound(l), NEW o \in Users, NEW og \in 0..GenMax,
           l.canon[o] = None \/ l.canon[o] = og,
           NEW info \in Infos, NEW rev \in Revisions, NEW b, b = Base(l, o, og, info, rev)
    PROVE  /\ Found(l, o, b) /\ b.gen = og
           /\ l.rooms[o] = None => b.info = info /\ b.rev = rev
<1>1. CASE l.rooms[o] = None
  <2>1. b = NewRoom(og, info, rev)
    BY <1>1 DEF Base
  <2>2. b \in Room
    BY <2>1 DEF NewRoom, Room, OrNone
  <2>3. /\ b.gen = og /\ b.port = None /\ b.info = info /\ b.rev = rev /\ b.present = FALSE
        /\ \A i \in Seats : b.seats[i] = None
    BY <2>1 DEF NewRoom
  <2> QED
    BY <1>1, <2>2, <2>3 DEF Found
<1>2. CASE l.rooms[o] # None
  <2>1. b = l.rooms[o]
    BY <1>2 DEF Base
  <2>2. InOrder(l, o)
    BY <1>2, RoomOf
  <2>3. b.gen = og
    BY <2>1, <2>2 DEF InOrder
  <2>4. Found(l, o, b)
    BY <1>2, <2>1, <2>2 DEF InOrder, Found
  <2> QED
    BY <1>2, <2>3, <2>4
<1> QED
  BY <1>1, <1>2

LEMMA SlotFound ==
    ASSUME NEW h, NEW u \in Users, NEW o \in Users, HasSlot(h, u, o),
           NEW b, h.rooms[o] # None => b = h.rooms[o],
           h.rooms[o] = None => \A i \in Seats : b.seats[i] = None,
           NEW s, s = NextSlot(h, u, o)
    PROVE  /\ u = o => s = OWNER
           /\ u # o => s \in Seats /\ s # OWNER /\ b.seats[s] = None
<1>1. CASE u = o
  BY <1>1 DEF NextSlot
<1>2. CASE u # o /\ h.rooms[o] = None
  <2>1. s = 1 /\ 1 \in Seats
    BY <1>2, Constants DEF NextSlot, Seats
  <2> QED
    BY <1>2, <2>1, SeatsArePositive
<1>3. CASE u # o /\ h.rooms[o] # None
  <2>1. s = Min(FreeSeats(b)) /\ FreeSeats(b) # {}
    BY <1>3 DEF NextSlot, HasSlot
  <2>2. FreeSeats(b) \subseteq Nat
    BY SeatsArePositive DEF FreeSeats
  <2>3. s \in FreeSeats(b)
    BY <2>1, <2>2, MinBelongs
  <2> QED
    BY <1>3, <2>3, SeatsArePositive DEF FreeSeats
<1> QED
  BY <1>1, <1>2, <1>3

(* The room with u in it.                                                  *)
Visitor(u, g, port) == [user |-> u, gen |-> g, port |-> port]
Joined(b, u, g, port, s) ==
    IF s = OWNER THEN [b EXCEPT !.present = TRUE, !.port = port]
                 ELSE PutSeat(b, s, Visitor(u, g, port))

Added(b, t, s, port, y) ==
    /\ t \in Room /\ t.gen = b.gen /\ t.info = b.info /\ t.rev = b.rev
    /\ s = OWNER => t.present = TRUE /\ t.port = port /\ t.seats = b.seats
    /\ s # OWNER => /\ t.present = b.present /\ t.port = b.port
                    /\ \A j \in Seats : t.seats[j] = IF j = s THEN y ELSE b.seats[j]

LEMMA VisitorParts ==
    ASSUME NEW u \in Users, NEW g \in 1..GenMax, NEW port \in OrNone(1..GenMax)
    PROVE  /\ Visitor(u, g, port) \in Visit /\ Visitor(u, g, port) # None
           /\ Visitor(u, g, port).user = u /\ Visitor(u, g, port).gen = g
           /\ Visitor(u, g, port).port = port
<1>1. Visitor(u, g, port) \in Visit
  BY DEF Visitor, Visit
<1>2. Visitor(u, g, port) # None
  BY <1>1, VisitParts
<1> QED
  BY <1>1, <1>2 DEF Visitor

LEMMA JoinedParts ==
    ASSUME NEW b \in Room, NEW u \in Users, NEW g \in 1..GenMax, NEW port \in OrNone(1..GenMax),
           NEW s \in Seats \union {OWNER}
    PROVE  Added(b, Joined(b, u, g, port, s), s, port, Visitor(u, g, port))
<1> DEFINE t == Joined(b, u, g, port, s)
           y == Visitor(u, g, port)
<1>1. y \in OrNone(Visit)
  BY VisitorParts DEF OrNone
<1> HIDE DEF y
<1>3. CASE s = OWNER
  <2>1. t = [b EXCEPT !.present = TRUE, !.port = port]
    BY <1>3 DEF Joined
  <2>2. t \in Room /\ t.gen = b.gen /\ t.info = b.info /\ t.rev = b.rev
        /\ t.present = TRUE /\ t.port = port /\ t.seats = b.seats
    BY <2>1 DEF Room
  <2> QED
    BY <1>3, <2>2 DEF Added
<1>4. CASE s # OWNER
  <2>1. t = PutSeat(b, s, y) /\ s \in Seats
    BY <1>4 DEF Joined, y
  <2>2. /\ t \in Room /\ t.gen = b.gen /\ t.port = b.port /\ t.info = b.info
        /\ t.rev = b.rev /\ t.present = b.present
        /\ \A j \in Seats : t.seats[j] = IF j = s THEN y ELSE b.seats[j]
    BY <1>1, <2>1, SeatParts
  <2> QED
    BY <1>4, <2>2 DEF Added, y
<1> QED
  BY <1>3, <1>4 DEF y

(* The generations, once u and o are known.                                *)
Known(c, u, g, o, og) ==
    [[c EXCEPT ![o] = IF @ = None THEN og ELSE @] EXCEPT ![u] = IF @ = None THEN g ELSE @]

LEMMA KnownParts ==
    ASSUME NEW c \in [Users -> OrNone(0..GenMax)], NEW u \in Users, NEW o \in Users,
           NEW g \in 1..GenMax, NEW og \in 0..GenMax, u = o => og = g,
           c[u] = None \/ c[u] = g, c[o] = None \/ c[o] = og,
           NEW k, k = Known(c, u, g, o, og)
    PROVE  /\ k \in [Users -> OrNone(0..GenMax)] /\ k[u] = g /\ k[o] = og
           /\ g # None /\ og # None
           /\ \A v \in Users : v # u /\ v # o => k[v] = c[v]
           /\ \A v \in Users : c[v] # None => k[v] = c[v]
<1>1. g # None /\ og # None /\ g \in OrNone(0..GenMax) /\ og \in OrNone(0..GenMax)
  BY Constants DEF OrNone
<1>2. PICK a : a = [c EXCEPT ![o] = IF @ = None THEN og ELSE @]
  OBVIOUS
<1>3. /\ a \in [Users -> OrNone(0..GenMax)] /\ a[o] = og
      /\ \A v \in Users : v # o => a[v] = c[v]
  BY <1>1, <1>2
<1>4. k = [a EXCEPT ![u] = IF @ = None THEN g ELSE @]
  BY <1>2 DEF Known
<1>5. a[u] = None \/ a[u] = g
  BY <1>3
<1>6. /\ k \in [Users -> OrNone(0..GenMax)] /\ k[u] = g
      /\ \A v \in Users : v # u => k[v] = a[v]
  BY <1>1, <1>3, <1>4, <1>5
<1> QED
  BY <1>1, <1>3, <1>6

Entered(l, u, g, o, og, t, s) ==
    HubOf(OneRoom(l, o, t), [l.member EXCEPT ![u] = [owner |-> o, slot |-> s]],
          Known(l.canon, u, g, o, og))

(* What u needs to be let in.                                              *)
Welcome(l, u, g, port, o, og, b, s) ==
    /\ Sound(l) /\ u \in Users /\ o \in Users /\ l.member[u] = None
    /\ g \in 1..GenMax /\ og \in 0..GenMax /\ (u = o => og = g)
    /\ port = None \/ port = g
    /\ l.canon[u] = None \/ l.canon[u] = g
    /\ l.canon[o] = None \/ l.canon[o] = og
    /\ Found(l, o, b) /\ b.gen = og
    /\ u = o => s = OWNER
    /\ u # o => s \in Seats /\ s # OWNER /\ b.seats[s] = None

LEMMA EnteredParts ==
    ASSUME NEW l, NEW u, NEW g, NEW port, NEW o, NEW og, NEW b, NEW s,
           Welcome(l, u, g, port, o, og, b, s), NEW t, t = Joined(b, u, g, port, s),
           NEW k, k = Entered(l, u, g, o, og, t, s)
    PROVE  /\ k \in Tables /\ t \in Room /\ t # None
           /\ k.rooms[o] = t /\ \A x \in Users : x # o => k.rooms[x] = l.rooms[x]
           /\ k.member[u] = [owner |-> o, slot |-> s]
           /\ \A v \in Users : v # u => k.member[v] = l.member[v]
           /\ k.canon[u] = g /\ k.canon[o] = og
           /\ \A v \in Users : v # u /\ v # o => k.canon[v] = l.canon[v]
           /\ \A v \in Users : l.canon[v] # None => k.canon[v] = l.canon[v]
<1>1. l \in Tables /\ b \in Room /\ u \in Users /\ o \in Users
  BY DEF Welcome, Sound, Found
<1>2. s \in Seats \union {OWNER} /\ port \in OrNone(1..GenMax) /\ g \in 1..GenMax
  BY DEF Welcome, OrNone
<1>3. t \in Room
  BY <1>1, <1>2, JoinedParts DEF Added
<1>4. PICK R : R = OneRoom(l, o, t)
  OBVIOUS
<1>5. /\ R \in [Users -> OrNone(Room)] /\ R[o] = t
      /\ \A x \in Users : x # o => R[x] = l.rooms[x]
  BY <1>1, <1>3, <1>4, OneRoomParts
<1>6. PICK p : p = [owner |-> o, slot |-> s]
  OBVIOUS
<1>7. PICK M : M = [l.member EXCEPT ![u] = p]
  OBVIOUS
<1>8. /\ M \in [Users -> OrNone(Place)] /\ M[u] = p
      /\ \A v \in Users : v # u => M[v] = l.member[v]
  <2>1. p \in OrNone(Place)
    BY <1>1, <1>2, <1>6, PlaceTyped DEF OrNone
  <2> QED
    BY <1>1, <1>7, <2>1, HubParts
<1>9. PICK C : C = Known(l.canon, u, g, o, og)
  OBVIOUS
<1>10. /\ C \in [Users -> OrNone(0..GenMax)] /\ C[u] = g /\ C[o] = og
       /\ \A v \in Users : v # u /\ v # o => C[v] = l.canon[v]
       /\ \A v \in Users : l.canon[v] # None => C[v] = l.canon[v]
  <2>1. l.canon \in [Users -> OrNone(0..GenMax)]
    BY <1>1, HubParts
  <2>2. /\ g \in 1..GenMax /\ og \in 0..GenMax /\ (u = o => og = g)
        /\ l.canon[u] = None \/ l.canon[u] = g
        /\ l.canon[o] = None \/ l.canon[o] = og
    BY DEF Welcome
  <2> QED
    BY <1>1, <1>9, <2>1, <2>2, KnownParts
<1>11. k = HubOf(R, M, C)
  BY <1>4, <1>6, <1>7, <1>9 DEF Entered
<1>12. k \in Tables /\ k.rooms = R /\ k.member = M /\ k.canon = C
  BY <1>5, <1>8, <1>10, <1>11, HubTyped, HubReads
<1>13. t # None
  BY <1>3, RoomParts
<1> QED
  BY <1>3, <1>5, <1>6, <1>8, <1>10, <1>12, <1>13

LEMMA EnteredSound ==
    ASSUME NEW l, NEW u, NEW g, NEW port, NEW o, NEW og, NEW b, NEW s,
           Welcome(l, u, g, port, o, og, b, s), NEW t, t = Joined(b, u, g, port, s),
           NEW k, k = Entered(l, u, g, o, og, t, s)
    PROVE  Sound(k)
<1>1. /\ k \in Tables /\ t \in Room /\ t # None
      /\ k.rooms[o] = t /\ \A x \in Users : x # o => k.rooms[x] = l.rooms[x]
      /\ k.member[u] = [owner |-> o, slot |-> s]
      /\ \A v \in Users : v # u => k.member[v] = l.member[v]
      /\ k.canon[u] = g /\ k.canon[o] = og
      /\ \A v \in Users : l.canon[v] # None => k.canon[v] = l.canon[v]
  BY EnteredParts
<1>2. /\ Sound(l) /\ u \in Users /\ o \in Users /\ l.member[u] = None
      /\ u = o => s = OWNER /\ og = g
      /\ u # o => s \in Seats /\ s # OWNER /\ b.seats[s] = None
      /\ port = None \/ port = g
      /\ Found(l, o, b) /\ b \in Room /\ b.gen = og
      /\ s \in Seats \union {OWNER} /\ g \in 1..GenMax /\ og \in 0..GenMax
      /\ port \in OrNone(1..GenMax)
  BY DEF Welcome, Found, OrNone
<1>3. PICK y : y = Visitor(u, g, port)
  OBVIOUS
<1>4. /\ y # None /\ y.user = u /\ y.gen = g /\ y.port = port
      /\ t.gen = b.gen
      /\ s = OWNER => t.present = TRUE /\ t.port = port /\ t.seats = b.seats
      /\ s # OWNER => /\ t.present = b.present /\ t.port = b.port
                      /\ \A j \in Seats : t.seats[j] = IF j = s THEN y ELSE b.seats[j]
  <2>1. y # None /\ y.user = u /\ y.gen = g /\ y.port = port
    BY <1>2, <1>3, VisitorParts
  <2>2. Added(b, t, s, port, y)
    BY <1>2, <1>3, JoinedParts
  <2> QED
    BY <2>1, <2>2 DEF Added
<1>5. [owner |-> o, slot |-> s].owner = o /\ [owner |-> o, slot |-> s].slot = s
  OBVIOUS
  (* Who else is in the room was in it before. *)
<1>6. ASSUME NEW j \in Seats, b.seats[j] # None PROVE t.seats[j] = b.seats[j]
  BY <1>2, <1>4, <1>6
<1>7. ASSUME NEW j \in Seats, t.seats[j] # None, t.seats[j] # b.seats[j]
      PROVE  j = s /\ s # OWNER /\ u # o /\ t.seats[j] = y
  BY <1>2, <1>4, <1>7
<1>8. ASSUME NEW v \in Users, l.member[v] # None PROVE v # u
  BY <1>2, <1>8
<1>9. Placed(k)
  <2> SUFFICES ASSUME NEW v \in Users, k.member[v] # None, NEW q, q = k.member[v],
                      NEW r, r = k.rooms[q.owner]
               PROVE  /\ r # None
                      /\ IF q.slot = OWNER THEN q.owner = v /\ r.present
                         ELSE r.seats[q.slot] # None /\ r.seats[q.slot].user = v
    BY DEF Placed
  <2>1. CASE v = u
    <3>1. q.owner = o /\ q.slot = s /\ r = t
      BY <1>1, <1>5, <2>1
    <3>2. CASE s = OWNER
      BY <1>1, <1>2, <1>4, <2>1, <3>1, <3>2
    <3>3. CASE s # OWNER
      <4>1. s \in Seats /\ t.seats[s] = y
        BY <1>2, <1>4, <3>3
      <4> QED
        <5>1. q.slot # OWNER /\ r.seats[q.slot] = y /\ y # None /\ y.user = v /\ r # None
          BY <1>1, <1>4, <2>1, <3>1, <3>3, <4>1
        <5> QED
          BY <5>1
    <3> QED
      BY <3>2, <3>3
  <2>2. CASE v # u
    <3>1. q = l.member[v] /\ l.member[v] # None
      BY <1>1, <2>2
    <3>2. PICK z : z = l.rooms[q.owner]
      OBVIOUS
    <3>3. /\ q.owner \in Users /\ z # None
          /\ q.slot = OWNER => q.owner = v /\ z.present
          /\ q.slot # OWNER => /\ q.slot \in Seats
                               /\ z.seats[q.slot] # None /\ z.seats[q.slot].user = v
      BY <1>2, <3>1, <3>2, PlaceOf
    <3>4. CASE q.owner # o
      <4>1. r = z
        BY <1>1, <3>2, <3>3, <3>4
      <4> QED
        BY <3>3, <4>1, Zenon
    <3>5. CASE q.owner = o
      <4>1. z = b /\ r = t
        BY <1>1, <1>2, <3>2, <3>3, <3>5 DEF Found
      <4>2. b.present => t.present
        BY <1>2, <1>4
      <4>3. CASE q.slot = OWNER
        BY <1>1, <3>3, <4>1, <4>2, <4>3
      <4>4. CASE q.slot # OWNER
        BY <1>1, <1>6, <3>3, <4>1, <4>4
      <4> QED
        BY <4>3, <4>4
    <3> QED
      BY <3>4, <3>5
  <2> QED
    BY <2>1, <2>2
<1>10. Inhabited(k)
  <2> SUFFICES ASSUME NEW x \in Users, k.rooms[x] # None, NEW r, r = k.rooms[x]
               PROVE  /\ Mapped(x, r) # {}
                      /\ r.present => k.member[x] = [owner |-> x, slot |-> OWNER]
                      /\ \A i \in Seats : r.seats[i] # None =>
                           /\ k.member[r.seats[i].user] = [owner |-> x, slot |-> i]
                           /\ r.seats[i].user # x
    BY DEF Inhabited
  <2>1. CASE x = o
    <3>1. r = t
      BY <1>1, <2>1
    <3>2. u \in Mapped(o, t)
      <4>1. s = OWNER => t.present /\ u = o
        BY <1>2, <1>4
      <4>2. s # OWNER => s \in Seats /\ t.seats[s] # None /\ t.seats[s].user = u
        BY <1>2, <1>4
      <4> QED
        BY <4>1, <4>2, InRoom
    <3>3. t.present => k.member[o] = [owner |-> o, slot |-> OWNER]
      <4>1. CASE s = OWNER
        BY <1>1, <1>2, <4>1
      <4>2. CASE s # OWNER
        BY <1>1, <1>2, <1>4, <4>2 DEF Found
      <4> QED
        BY <4>1, <4>2
    <3>4. ASSUME NEW i \in Seats, t.seats[i] # None
          PROVE  /\ k.member[t.seats[i].user] = [owner |-> o, slot |-> i]
                 /\ t.seats[i].user # o
      <4>1. CASE t.seats[i] = b.seats[i]
        <5>1. PICK w \in Users : w = b.seats[i].user /\ w # o
                                  /\ l.member[w] = [owner |-> o, slot |-> i]
          BY <1>2, <3>4, <4>1 DEF Found
        <5>2. w # u
          BY <1>2, <1>8, <5>1, PlaceTyped
        <5> QED
          BY <1>1, <4>1, <5>1, <5>2
      <4>2. CASE t.seats[i] # b.seats[i]
        BY <1>1, <1>4, <1>7, <3>4, <4>2
      <4> QED
        BY <4>1, <4>2
    <3> QED
      BY <2>1, <3>1, <3>2, <3>3, <3>4
  <2>2. CASE x # o
    <3>1. r = l.rooms[x] /\ l.rooms[x] # None
      BY <1>1, <2>2
    <3>2. InOrder(l, x)
      BY <1>2, <3>1, RoomOf
    <3>3. r.present => k.member[x] = [owner |-> x, slot |-> OWNER]
      <4>1. r.present => l.member[x] = [owner |-> x, slot |-> OWNER]
        BY <3>1, <3>2 DEF InOrder
      <4> QED
        BY <1>1, <1>8, <4>1, PlaceTyped
    <3>4. ASSUME NEW i \in Seats, r.seats[i] # None
          PROVE  /\ k.member[r.seats[i].user] = [owner |-> x, slot |-> i]
                 /\ r.seats[i].user # x
      <4>1. PICK w \in Users : w = r.seats[i].user /\ w # x
                                /\ l.member[w] = [owner |-> x, slot |-> i]
        BY <3>1, <3>2, <3>4 DEF InOrder
      <4>2. w # u
        BY <1>8, <4>1, PlaceTyped
      <4> QED
        BY <1>1, <4>1, <4>2
    <3>5. Mapped(x, r) # {}
      BY <3>1, <3>2 DEF InOrder
    <3> QED
      BY <3>3, <3>4, <3>5
  <2> QED
    BY <2>1, <2>2
<1>11. OneGeneration(k)
  <2> SUFFICES ASSUME NEW x \in Users, k.rooms[x] # None
               PROVE  Carries(k.rooms[x], x, k.canon)
    BY DEF OneGeneration, Carries
  <2>1. CASE x = o
    <3>1. t.gen = k.canon[o]
      BY <1>1, <1>2, <1>4
    <3>2. t.port # None => t.present /\ t.port = t.gen
      <4>1. CASE s = OWNER
        BY <1>2, <1>4, <4>1
      <4>2. CASE s # OWNER
        BY <1>2, <1>4, <4>2 DEF Found
      <4> QED
        BY <4>1, <4>2
    <3>3. ASSUME NEW i \in Seats, t.seats[i] # None
          PROVE  /\ t.seats[i].gen = k.canon[t.seats[i].user]
                 /\ t.seats[i].port # None => t.seats[i].port = t.seats[i].gen
      <4>1. CASE t.seats[i] = b.seats[i]
        <5>1. PICK w \in Users : /\ w = b.seats[i].user /\ b.seats[i].gen = l.canon[w]
                                 /\ l.member[w] = [owner |-> o, slot |-> i]
                                 /\ b.seats[i].port # None => b.seats[i].port = b.seats[i].gen
          BY <1>2, <3>3, <4>1 DEF Found
        <5>2. l.canon[w] # None
          <6>1. l.member[w] # None
            BY <5>1, PlaceTyped, <1>2
          <6> QED
            BY <1>2, <6>1 DEF Sound, Rooted, HasRole
        <5> QED
          BY <1>1, <4>1, <5>1, <5>2
      <4>2. CASE t.seats[i] # b.seats[i]
        BY <1>1, <1>2, <1>4, <1>7, <3>3, <4>2
      <4> QED
        BY <4>1, <4>2
    <3> QED
      BY <1>1, <2>1, <3>1, <3>2, <3>3 DEF Carries
  <2>2. CASE x # o
    <3>1. PICK r : r = l.rooms[x]
      OBVIOUS
    <3>2. k.rooms[x] = r /\ r # None
      BY <1>1, <2>2, <3>1
    <3>3. InOrder(l, x)
      BY <1>2, <3>1, <3>2, RoomOf
    <3>4. Carries(r, x, l.canon) /\ l.canon[x] # None
      BY <1>2, <3>1, <3>2, <3>3, CarriesHere DEF InOrder
    <3>5. ASSUME NEW i \in Seats, r.seats[i] # None
          PROVE  r.seats[i].user \in Users /\ l.canon[r.seats[i].user] # None
      <4>1. PICK w \in Users : w = r.seats[i].user /\ l.member[w] = [owner |-> x, slot |-> i]
        BY <3>1, <3>3, <3>5 DEF InOrder
      <4>2. l.member[w] # None
        BY <4>1, PlaceTyped
      <4> QED
        BY <1>2, <4>1, <4>2 DEF Sound, Rooted, HasRole
    <3>6. Carries(r, x, k.canon)
      BY <1>1, <3>4, <3>5 DEF Carries
    <3> QED
      BY <3>2, <3>6
  <2> QED
    BY <2>1, <2>2
<1>12. Rooted(k)
  <2> SUFFICES ASSUME NEW v \in Users, HasRole(k, v) PROVE k.canon[v] # None
    BY DEF Rooted
  <2>1. CASE v = u \/ v = o
    BY <1>1, <1>2, <2>1, Constants
  <2>2. CASE v # u /\ v # o
    <3>1. HasRole(l, v)
      BY <1>1, <2>2 DEF HasRole
    <3> QED
      BY <1>1, <1>2, <3>1 DEF Sound, Rooted
  <2> QED
    BY <2>1, <2>2
<1> QED
  BY <1>1, <1>9, <1>10, <1>11, <1>12 DEF Sound

(* What entering does.                                                     *)
Pruning(h, l, u) ==
    IF h.member[u] # None /\ l.rooms[h.member[u].owner] = None THEN {h.member[u].owner} ELSE {}

LEMMA EnterIs ==
    ASSUME NEW h, NEW u \in Users, NEW g, NEW port, NEW o \in Users, NEW og, NEW info, NEW rev,
           Sound(h), NEW l, l = Gone(h, u), l \in Tables, l.rooms[o] = h.rooms[o],
           NEW b, b = Base(h, o, og, info, rev), NEW s, s = NextSlot(h, u, o),
           NEW t, t = Joined(b, u, g, port, s),
           NEW k, k = Entered(l, u, g, o, og, t, s)
    PROVE  Enter(h, u, g, port, o, og, info, rev) = Prune(k, Pruning(h, l, u))
<1>1. PICK R : R = [l.rooms EXCEPT ![o] = t]
  OBVIOUS
<1>2. PICK M : M = [l.member EXCEPT ![u] = [owner |-> o, slot |-> s]]
  OBVIOUS
<1>3. PICK a : a = [l.canon EXCEPT ![o] = IF @ = None THEN og ELSE @]
  OBVIOUS
<1>4. PICK c : c = [a EXCEPT ![u] = IF @ = None THEN g ELSE @]
  OBVIOUS
<1>5. l = HubOf(l.rooms, l.member, l.canon)
  BY HubParts
<1>6. PICK w : w = [l EXCEPT !.rooms[o] = t, !.member[u] = [owner |-> o, slot |-> s],
                             !.canon[o] = IF @ = None THEN og ELSE @]
  OBVIOUS
<1>7. w = HubOf(R, M, a)
  BY <1>1, <1>2, <1>3, <1>5, <1>6 DEF HubOf
<1>8. [w EXCEPT !.canon[u] = IF @ = None THEN g ELSE @] = HubOf(R, M, c)
  <2>1. w.rooms = R /\ w.member = M /\ w.canon = a
    BY <1>7, HubReads
  <2>2. [w EXCEPT !.canon[u] = IF @ = None THEN g ELSE @] = [w EXCEPT !.canon = c]
    BY <1>4, <2>1
  <2> QED
    BY <1>7, <2>2 DEF HubOf
<1>9. k = HubOf(R, M, c)
  BY <1>1, <1>2, <1>3, <1>4 DEF Entered, OneRoom, Known
<1>10. t = IF s = OWNER THEN [b EXCEPT !.present = TRUE, !.port = port]
           ELSE [b EXCEPT !.seats[s] = [user |-> u, gen |-> g, port |-> port]]
  BY DEF Joined, PutSeat, Visitor
<1>11. b = IF h.rooms[o] = None THEN NewRoom(og, info, rev) ELSE h.rooms[o]
  BY DEF Base
<1>12. l = IF h.member[u] = None THEN h ELSE Detach(h, u)
  BY DEF Gone
<1>13. PICK S : S = IF h.member[u] # None /\ l.rooms[h.member[u].owner] = None
                   THEN {h.member[u].owner} ELSE {}
  OBVIOUS
<1>14. Enter(h, u, g, port, o, og, info, rev)
         = Prune([w EXCEPT !.canon[u] = IF @ = None THEN g ELSE @], S)
  <2> DEFINE m == h.member[u]
             left == IF m = None THEN h ELSE Detach(h, u)
             slot == NextSlot(h, u, o)
             room == IF h.rooms[o] = None THEN NewRoom(og, info, rev) ELSE h.rooms[o]
             joined == IF slot = OWNER
                       THEN [room EXCEPT !.present = TRUE, !.port = port]
                       ELSE [room EXCEPT !.seats[slot] =
                                             [user |-> u, gen |-> g, port |-> port]]
             moved == [left EXCEPT !.rooms[o] = joined,
                                   !.member[u] = [owner |-> o, slot |-> slot],
                                   !.canon[o] = IF @ = None THEN og ELSE @]
             pruned == IF m # None /\ left.rooms[m.owner] = None THEN {m.owner} ELSE {}
  <2>1. Enter(h, u, g, port, o, og, info, rev)
          = Prune([moved EXCEPT !.canon[u] = IF @ = None THEN g ELSE @], pruned)
    BY Zenon DEF Enter
  <2>2. left = l /\ room = b /\ slot = s
    BY <1>11, <1>12
  <2> HIDE DEF left, room, slot
  <2>3. joined = t
    BY <1>10, <2>2
  <2> HIDE DEF joined
  <2>4. moved = w
    BY <1>6, <2>2, <2>3
  <2>5. pruned = S
    BY <1>13, <2>2
  <2> HIDE DEF moved, pruned
  <2> QED
    BY <2>1, <2>4, <2>5
<1> QED
  BY <1>8, <1>9, <1>13, <1>14 DEF Pruning

Admitted(h, k, u, g, o, og, info, rev) ==
    /\ HubInv(k)
    /\ k.member[u] # None /\ k.member[u].owner = o
    /\ \A v \in Users : v # u => k.member[v] = h.member[v]
    /\ k.canon[u] = g /\ k.canon[o] = og
    /\ \A v \in Users : v # u /\ v # o => k.canon[v] = None \/ k.canon[v] = h.canon[v]
    /\ \A x \in Users : x # o /\ k.rooms[x] # None =>
         /\ h.rooms[x] # None
         /\ k.rooms[x].rev = h.rooms[x].rev /\ k.rooms[x].info = h.rooms[x].info
    /\ k.rooms[o] # None
    /\ h.rooms[o] = None => k.rooms[o].rev = rev /\ k.rooms[o].info = info
    /\ h.rooms[o] # None => k.rooms[o].rev = h.rooms[o].rev /\ k.rooms[o].info = h.rooms[o].info

(* The room of m's owner, when nobody but u was left in it.                *)
LastOne(h, u) == /\ h.member[u] # None /\ h.member[u].owner # u
                 /\ h.member[h.member[u].owner] = None
                 /\ Audience(h, h.member[u].owner) = {u}

LEMMA LastOneCloses ==
    ASSUME NEW h, Sound(h), NEW u \in Users, LastOne(h, u), NEW l, l = Gone(h, u)
    PROVE  l.rooms[h.member[u].owner] = None /\ h.canon[h.member[u].owner] # None
<1>1. PICK m : m = h.member[u]
  OBVIOUS
<1>2. PICK r : r = h.rooms[m.owner]
  OBVIOUS
<1>3. PICK p : p = Left(h, u)
  OBVIOUS
<1>4. h.member[u] # None /\ m.owner # u /\ Audience(h, m.owner) = {u}
  BY <1>1 DEF LastOne
<1>5. l = Detach(h, u)
  BY <1>4 DEF Gone
<1>6. m.owner \in Users /\ r # None
  BY <1>1, <1>2, <1>4, PlaceOf
<1>7. Mapped(m.owner, r) = {u}
  BY <1>2, <1>4, <1>6 DEF Audience
<1>8. /\ p.present => r.present
      /\ \A i \in Seats : p.seats[i] # None => p.seats[i] = r.seats[i] /\ r.seats[i].user # u
  BY <1>1, <1>2, <1>3, <1>4, StaysBehind
<1>9. \A x : x \in Mapped(m.owner, p) => x \in Mapped(m.owner, r) /\ x # u
  <2> SUFFICES ASSUME NEW x, x \in Mapped(m.owner, p)
               PROVE  x \in Mapped(m.owner, r) /\ x # u
    OBVIOUS
  <2>1. CASE p.present /\ x = m.owner
    BY <1>4, <1>8, <2>1, InRoom
  <2>2. CASE \E i \in Seats : p.seats[i] # None /\ p.seats[i].user = x
    <3>1. PICK i \in Seats : p.seats[i] # None /\ p.seats[i].user = x
      BY <2>2
    <3>2. r.seats[i] # None /\ r.seats[i].user = x /\ x # u
      BY <1>8, <3>1
    <3> QED
      BY <3>2, InRoom
  <2> QED
    BY <2>1, <2>2, InRoom
<1>10. Mapped(m.owner, p) = {}
  BY <1>7, <1>9
<1>11. l.rooms[m.owner] = None
  BY <1>1, <1>3, <1>4, <1>5, <1>10, DetachParts
<1>12. h.canon[m.owner] # None
  BY <1>2, <1>6 DEF Sound, Rooted, HasRole
<1> QED
  BY <1>1, <1>11, <1>12

LEMMA EnterKeeps ==
    ASSUME NEW h, NEW u, NEW g, NEW port, NEW o, NEW og, NEW info, NEW rev,
           MayEnter(h, u, g, port, o, og, info, rev),
           NEW k, k = Enter(h, u, g, port, o, og, info, rev)
    PROVE  /\ Admitted(h, k, u, g, o, og, info, rev)
           /\ LastOne(h, u) => k.canon[h.member[u].owner] = None
<1>1. /\ HubInv(h) /\ Sound(h) /\ u \in Users /\ o \in Users
      /\ g \in 1..GenMax /\ og \in 0..GenMax /\ (u = o => og = g)
      /\ port = None \/ port = g
      /\ h.canon[u] = None \/ h.canon[u] = g
      /\ h.canon[o] = None \/ h.canon[o] = og
      /\ info \in Infos /\ rev \in Revisions
      /\ HasSlot(h, u, o)
      /\ h.member[u] # None => h.member[u].owner # o
  BY DEF MayEnter, HubInv
<1>2. PICK l : l = Gone(h, u)
  OBVIOUS
<1>3. /\ Sound(l) /\ l.canon = h.canon /\ Shrunk(h, l) /\ l.member[u] = None
      /\ \A v \in Users : v # u => l.member[v] = h.member[v]
      /\ \A x \in Users : h.member[u] = None \/ x # h.member[u].owner
                            => l.rooms[x] = h.rooms[x]
  BY <1>1, <1>2, GoneParts DEF Without
<1>4. l.rooms[o] = h.rooms[o] /\ l \in Tables
  BY <1>1, <1>3 DEF Sound
<1>5. PICK b : b = Base(h, o, og, info, rev)
  OBVIOUS
<1>6. /\ Found(l, o, b) /\ b.gen = og
      /\ l.rooms[o] = None => b.info = info /\ b.rev = rev
  <2>1. b = Base(l, o, og, info, rev)
    BY <1>4, <1>5 DEF Base
  <2> QED
    BY <1>1, <1>3, <2>1, BaseFound
<1>7. PICK s : s = NextSlot(h, u, o)
  OBVIOUS
<1>8. /\ u = o => s = OWNER
      /\ u # o => s \in Seats /\ s # OWNER /\ b.seats[s] = None
  <2>1. /\ h.rooms[o] # None => b = h.rooms[o]
        /\ h.rooms[o] = None => \A i \in Seats : b.seats[i] = None
    BY <1>4, <1>6 DEF Found
  <2> QED
    BY <1>1, <1>7, <2>1, SlotFound
<1>9. PICK t : t = Joined(b, u, g, port, s)
  OBVIOUS
<1>10. PICK w : w = Entered(l, u, g, o, og, t, s)
  OBVIOUS
<1>11. Welcome(l, u, g, port, o, og, b, s)
  BY <1>1, <1>3, <1>6, <1>8 DEF Welcome
<1>12. /\ w \in Tables /\ t \in Room /\ t # None
       /\ w.rooms[o] = t /\ \A x \in Users : x # o => w.rooms[x] = l.rooms[x]
       /\ w.member[u] = [owner |-> o, slot |-> s]
       /\ \A v \in Users : v # u => w.member[v] = l.member[v]
       /\ w.canon[u] = g /\ w.canon[o] = og
       /\ \A v \in Users : v # u /\ v # o => w.canon[v] = l.canon[v]
  BY <1>9, <1>10, <1>11, EnteredParts
<1>13. Sound(w)
  BY <1>9, <1>10, <1>11, EnteredSound
<1>14. PICK P : P = Pruning(h, l, u)
  OBVIOUS
<1>15. k = Prune(w, P)
  BY <1>1, <1>2, <1>4, <1>5, <1>7, <1>9, <1>10, <1>14, EnterIs
<1>16. /\ k.rooms = w.rooms /\ k.member = w.member
       /\ \A v \in Users : k.canon[v] = IF v \in P /\ ~HasRole(w, v) THEN None ELSE w.canon[v]
  BY <1>12, <1>15, PruneParts
<1>17. w.member[u] # None /\ w.member[u].owner = o
  <2>1. s \in Seats \union {OWNER}
    BY <1>8
  <2> QED
    BY <1>1, <1>12, <2>1, PlaceTyped
<1>18. HasRole(w, u) /\ HasRole(w, o)
  BY <1>12, <1>17 DEF HasRole
<1>19. ASSUME NEW v \in Users, w.canon[v] # None, v \notin P PROVE HasRole(w, v)
  <2>1. CASE v = u \/ v = o
    BY <1>18, <2>1
  <2>2. CASE v # u /\ v # o
    <3>1. HasRole(h, v)
      BY <1>1, <1>3, <1>12, <1>19, <2>2 DEF HubInv, Pruned
    <3>2. CASE h.member[v] # None
      BY <1>3, <1>12, <2>2, <3>2 DEF HasRole
    <3>3. CASE h.rooms[v] # None
      <4>1. l.rooms[v] # None
        <5>1. CASE h.member[u] # None /\ v = h.member[u].owner
          BY <1>14, <1>19, <5>1 DEF Pruning
        <5>2. CASE ~(h.member[u] # None /\ v = h.member[u].owner)
          BY <1>3, <3>3, <5>2
        <5> QED
          BY <5>1, <5>2
      <4> QED
        BY <1>12, <2>2, <4>1 DEF HasRole
    <3> QED
      BY <3>1, <3>2, <3>3 DEF HasRole
  <2> QED
    BY <2>1, <2>2
<1>20. HubInv(k)
  BY <1>13, <1>15, <1>19, PruneComplete
<1>21. k.canon[u] = g /\ k.canon[o] = og
  BY <1>1, <1>12, <1>16, <1>18
<1>22. \A v \in Users : v # u /\ v # o => k.canon[v] = None \/ k.canon[v] = h.canon[v]
  BY <1>3, <1>12, <1>16
<1>23. \A x \in Users : x # o /\ k.rooms[x] # None =>
         /\ h.rooms[x] # None
         /\ k.rooms[x].rev = h.rooms[x].rev /\ k.rooms[x].info = h.rooms[x].info
  BY <1>3, <1>12, <1>16 DEF Shrunk
<1>24. /\ t.info = b.info /\ t.rev = b.rev
  <2>1. /\ b \in Room /\ u \in Users /\ g \in 1..GenMax /\ port \in OrNone(1..GenMax)
        /\ s \in Seats \union {OWNER}
    BY <1>1, <1>6, <1>8 DEF Found, OrNone
  <2>2. Added(b, t, s, port, Visitor(u, g, port))
    BY <1>9, <2>1, JoinedParts
  <2> QED
    BY <2>2 DEF Added
<1>25. /\ h.rooms[o] = None => k.rooms[o].rev = rev /\ k.rooms[o].info = info
       /\ h.rooms[o] # None => k.rooms[o].rev = h.rooms[o].rev /\ k.rooms[o].info = h.rooms[o].info
  BY <1>4, <1>6, <1>12, <1>16, <1>24 DEF Found
<1>26. Admitted(h, k, u, g, o, og, info, rev)
  BY <1>3, <1>12, <1>16, <1>17, <1>20, <1>21, <1>22, <1>23, <1>25 DEF Admitted
<1>27. ASSUME LastOne(h, u) PROVE k.canon[h.member[u].owner] = None
  <2>1. PICK q : q = h.member[u].owner
    OBVIOUS
  <2>2. l.rooms[q] = None
    BY <1>1, <1>2, <1>27, <2>1, LastOneCloses
  <2>3. h.member[u] # None /\ q # u /\ h.member[q] = None /\ q # o
    BY <1>1, <1>27, <2>1 DEF LastOne
  <2>4. q \in Users
    BY <1>1, <2>1, <2>3, PlaceOf
  <2>5. q \in P
    BY <1>14, <2>1, <2>2, <2>3 DEF Pruning
  <2>6. ~HasRole(w, q)
    BY <1>3, <1>12, <2>2, <2>3, <2>4 DEF HasRole
  <2> QED
    BY <1>16, <2>1, <2>4, <2>5, <2>6
<1> QED
  BY <1>26, <1>27

-----------------------------------------------------------------------------
(* The capacity: leaving and moving never exceed it.                       *)
LEMMA TrackedIsFinite ==
    ASSUME NEW h
    PROVE  IsFiniteSet(Tracked(h)) /\ Cardinality(Tracked(h)) \in Nat
<1>1. Tracked(h) \in SUBSET Users
  BY DEF Tracked
<1>2. IsFiniteSet(Tracked(h))
  BY <1>1, Constants, FS_Subset
<1> QED
  BY <1>2, FS_CardinalityType

LEMMA FewerTracked ==
    ASSUME NEW h, NEW k, Cardinality(Tracked(h)) <= Capacity,
           \A v \in Users : k.canon[v] # None => h.canon[v] # None
    PROVE  Cardinality(Tracked(k)) <= Capacity
<1>1. Tracked(k) \in SUBSET Tracked(h)
  BY DEF Tracked
<1>2. Cardinality(Tracked(k)) <= Cardinality(Tracked(h))
  BY <1>1, TrackedIsFinite, FS_Subset
<1>3. Cardinality(Tracked(k)) \in Nat /\ Cardinality(Tracked(h)) \in Nat /\ Capacity \in Nat
  BY TrackedIsFinite, Constants
<1> QED
  BY <1>2, <1>3

LEMMA EnterFits ==
    ASSUME NEW u, NEW g, NEW port, NEW o, NEW og, NEW info, NEW rev,
           MayEnter(hub, u, g, port, o, og, info, rev), FitsCapacity(u, o),
           NEW k, Admitted(hub, k, u, g, o, og, info, rev),
           LastOne(hub, u) => k.canon[hub.member[u].owner] = None
    PROVE  Cardinality(Tracked(k)) <= Capacity
<1> DEFINE T == Tracked(hub)
           N == NewIdentities(u, o)
           q == hub.member[u].owner
           D == IF LastOne(hub, u) THEN T \ {q} ELSE T
<1>1. u \in Users /\ o \in Users /\ Sound(hub)
  BY DEF MayEnter, HubInv
<1>2. /\ IsFiniteSet(T) /\ Cardinality(T) \in Nat
      /\ IsFiniteSet(Tracked(k)) /\ Cardinality(Tracked(k)) \in Nat /\ Capacity \in Nat
  BY TrackedIsFinite, Constants
<1>3. IsFiniteSet(N) /\ Cardinality(N) \in Nat
  <2>1. N \in SUBSET Users
    BY <1>1 DEF NewIdentities
  <2>2. IsFiniteSet(N)
    BY <2>1, Constants, FS_Subset
  <2> QED
    BY <2>2, FS_CardinalityType
<1>4. LastOne(hub, u) <=> Prunes(u)
  BY DEF LastOne, Prunes
<1>5. LastOne(hub, u) => q \in T
  <2> SUFFICES ASSUME LastOne(hub, u) PROVE q \in T
    OBVIOUS
  <2>1. PICK l : l = Gone(hub, u)
    OBVIOUS
  <2>2. hub.canon[q] # None
    BY <1>1, <2>1, LastOneCloses
  <2>3. hub.member[u] # None
    BY DEF LastOne
  <2>4. q \in Users
    BY <1>1, <2>3, PlaceOf
  <2> QED
    BY <2>2, <2>4 DEF Tracked
<1>6. IsFiniteSet(D) /\ Cardinality(D) = Cardinality(T) - (IF Prunes(u) THEN 1 ELSE 0)
  <2>1. CASE LastOne(hub, u)
    <3>1. D = T \ {q} /\ q \in T
      BY <1>5, <2>1
    <3> HIDE DEF D, T, q
    <3>2. IsFiniteSet(T \ {q}) /\ Cardinality(T \ {q}) = Cardinality(T) - 1
      BY <1>2, <3>1, FS_RemoveElement
    <3> QED
      BY <1>4, <2>1, <3>1, <3>2
  <2>2. CASE ~LastOne(hub, u)
    <3>1. D = T
      BY <2>2
    <3> HIDE DEF D, T, q
    <3> QED
      BY <1>2, <1>4, <2>2, <3>1
  <2> QED
    BY <2>1, <2>2
<1>7. Tracked(k) \in SUBSET (D \union N)
  <2> SUFFICES ASSUME NEW v \in Users, k.canon[v] # None PROVE v \in D \union N
    BY DEF Tracked
  <2>1. CASE hub.canon[v] = None
    <3>1. v = u \/ v = o
      BY <2>1 DEF Admitted
    <3> QED
      BY <2>1, <3>1 DEF NewIdentities
  <2>2. CASE hub.canon[v] # None
    <3>1. LastOne(hub, u) => v # q
      OBVIOUS
    <3> QED
      BY <2>2, <3>1 DEF Tracked
  <2> QED
    BY <2>1, <2>2
<1>8. Cardinality(T) + Cardinality(N) - (IF Prunes(u) THEN 1 ELSE 0) <= Capacity
  BY DEF FitsCapacity
<1> HIDE DEF D, T, N, q
<1>9. /\ IsFiniteSet(D \union N) /\ IsFiniteSet(D \cap N)
      /\ Cardinality(D \union N) = Cardinality(D) + Cardinality(N) - Cardinality(D \cap N)
  BY <1>3, <1>6, FS_Union, FS_Intersection
<1>10. /\ Cardinality(D \union N) \in Nat /\ Cardinality(D \cap N) \in Nat /\ Cardinality(D) \in Nat
  BY <1>6, <1>9, FS_CardinalityType
<1>11. Cardinality(Tracked(k)) <= Cardinality(D \union N)
  BY <1>7, <1>9, FS_Subset
<1>12. PICK x \in {0, 1} : x = IF Prunes(u) THEN 1 ELSE 0
  OBVIOUS
<1>13. Cardinality(D) = Cardinality(T) - x /\ Cardinality(T) + Cardinality(N) - x <= Capacity
  BY <1>6, <1>8, <1>12
<1> QED
  BY <1>2, <1>3, <1>9, <1>10, <1>11, <1>12, <1>13

-----------------------------------------------------------------------------
(* The invariant in the parts that the actions touch.                      *)
Operation == [kind : {"write"}, info : Infos] \union [kind : {"report"}]
               \union [kind : {"read"}, res : Resources, plan : Plan, grant : BOOLEAN, proof : Nat]
Grant == [gen : 0..GenMax, owner : Users, ogen : 0..GenMax, rev : Revisions, res : Resources,
          proof : Nat]

Registry == /\ life \in [Users -> {"offline", "active", "ownerless", "draining"}]
            /\ gen \in [Users -> 0..GenMax] /\ nextGen \in 1..(GenMax + 1)
            /\ moving \in [Users -> BOOLEAN]
            /\ Present
Rooms == HubInv(hub) /\ Cardinality(Tracked(hub)) <= Capacity
Promises == /\ op \in [Users -> OrNone(Operation)] /\ grants \in [Users -> OrNone(Grant)]
            /\ GrantsProve(hub) /\ PlansProve(hub)
Addresses == /\ durable \in [Users -> Infos]
             /\ observed \in [Users -> 0..GenMax] /\ reported \in [Users -> BOOLEAN]
Control == flushing \in BOOLEAN /\ stopped \in {"no", "stale", "audience", "capacity"}
Reading == read \in OrNone([by : Users, of : Users, proof : Nat]) /\ ProtectedReadIsEarned

LEMMA InvariantParts ==
    MyRoomInv <=> Registry /\ Rooms /\ Promises /\ Addresses /\ Control /\ Reading /\ RolesAreLive
<1>1. HubInv(hub) => hub \in Tables
  BY DEF HubInv, Sound
<1>2. MyRoomInv => Registry /\ Rooms /\ Promises /\ Addresses /\ Control /\ Reading /\ RolesAreLive
  BY DEF MyRoomInv, TypeOK, Registry, Rooms, Promises, Addresses, Control, Reading, Operation, Grant
<1>3. Registry /\ Rooms /\ Promises /\ Addresses /\ Control /\ Reading /\ RolesAreLive => MyRoomInv
  BY <1>1 DEF MyRoomInv, TypeOK, Registry, Rooms, Promises, Addresses, Control, Reading, Operation,
             Grant, Tables
<1> QED
  BY <1>2, <1>3

-----------------------------------------------------------------------------
(* What keeps each part.  A room of k has the policy that it had in h, or  *)
(* one that no grant and no plan refers to.                                *)
Kept(h, k) == \A o \in Users : k.rooms[o] # None =>
    \/ /\ h.rooms[o] # None
       /\ k.rooms[o].rev = h.rooms[o].rev /\ k.rooms[o].info = h.rooms[o].info
    \/ k.rooms[o].rev = FreshRevision(o)

LEMMA StillProves ==
    ASSUME NEW h, Kept(hub, h), NEW o \in Users, NEW rev, NEW pw,
           Proves(hub, o, rev, pw), rev # FreshRevision(o)
    PROVE  Proves(h, o, rev, pw)
<1> SUFFICES ASSUME h.rooms[o] # None, h.rooms[o].rev = rev PROVE h.rooms[o].info.item = pw
  BY DEF Proves
<1>1. /\ hub.rooms[o] # None
      /\ h.rooms[o].rev = hub.rooms[o].rev /\ h.rooms[o].info = hub.rooms[o].info
  BY DEF Kept
<1> QED
  BY <1>1 DEF Proves

FewerGrants == /\ grants' \in [Users -> OrNone(Grant)]
               /\ \A u \in Users : grants'[u] = None \/ grants'[u] = grants[u]
FewerReads == /\ op' \in [Users -> OrNone(Operation)]
              /\ \A u \in Users : op'[u] # None /\ op'[u].kind = "read" => op'[u] = op[u]

LEMMA GrantsKept ==
    ASSUME Promises, Kept(hub, hub'), FewerGrants
    PROVE  GrantsProve(hub)'
<1>1. SUFFICES ASSUME NEW u \in Users, grants'[u] # None
               PROVE  Proves(hub', grants'[u].owner, grants'[u].rev, grants'[u].proof)
  BY DEF GrantsProve
<1>2. PICK g : g = grants[u] /\ g = grants'[u]
  BY <1>1 DEF FewerGrants
<1>3. g \in Grant /\ g # None
  BY <1>1, <1>2 DEF Promises, OrNone
<1>4. g.owner \in Users
  BY <1>3 DEF Grant
<1>5. Proves(hub, g.owner, g.rev, g.proof)
  BY <1>2, <1>3 DEF Promises, GrantsProve
<1>6. g.rev # FreshRevision(g.owner)
  BY <1>2, <1>3, FreshFits
<1>7. PICK E : E = hub'
  OBVIOUS
<1>8. Proves(E, g.owner, g.rev, g.proof)
  BY <1>4, <1>5, <1>6, <1>7, StillProves
<1> QED
  BY <1>2, <1>7, <1>8

LEMMA PlansKept ==
    ASSUME Promises, Kept(hub, hub'), FewerReads
    PROVE  PlansProve(hub)'
<1>1. SUFFICES ASSUME NEW u \in Users, op'[u] # None, op'[u].kind = "read", op'[u].grant
               PROVE  Proves(hub', op'[u].plan.owner, op'[u].plan.rev, op'[u].proof)
  BY DEF PlansProve
<1>2. PICK x : x = op[u] /\ x = op'[u]
  BY <1>1 DEF FewerReads
<1>3. x \in Operation /\ x # None /\ x.kind = "read" /\ x.grant
  BY <1>1, <1>2 DEF Promises, OrNone
<1>4. x.plan \in Plan
  BY <1>3 DEF Operation
<1>5. x.plan.owner \in Users
  BY <1>4 DEF Plan
<1>6. Proves(hub, x.plan.owner, x.plan.rev, x.proof)
  BY <1>2, <1>3 DEF Promises, PlansProve
<1>7. x.plan.rev # FreshRevision(x.plan.owner)
  BY <1>2, <1>3, FreshFits
<1>8. PICK E : E = hub'
  OBVIOUS
<1>9. Proves(E, x.plan.owner, x.plan.rev, x.proof)
  BY <1>5, <1>6, <1>7, <1>8, StillProves
<1> QED
  BY <1>2, <1>8, <1>9

LEMMA PromisesKept ==
    ASSUME Promises, Kept(hub, hub'), FewerGrants, FewerReads
    PROVE  Promises'
BY GrantsKept, PlansKept DEF Promises, FewerGrants, FewerReads

(* A role that stays is one of the generation that had it.                 *)
LEMMA RolesKept ==
    ASSUME RolesAreLive,
           \A u \in Users : hub'.canon[u] # None =>
             /\ hub'.canon[u] = hub.canon[u] /\ gen'[u] = gen[u]
             /\ life[u] # "offline" => life'[u] # "offline"
             /\ hub.member[u] = None => hub'.member[u] = None
    PROVE  RolesAreLive'
BY DEF RolesAreLive

LEMMA RegistryStays ==
    ASSUME Registry, UNCHANGED registry
    PROVE  Registry'
BY DEF Registry, Present, registry

LEMMA AnswerIsSafe ==
    ASSUME Answered
    PROVE  Control' /\ Reading'
<1>1. EndTurn /\ read' = None
  BY DEF Answered
<1>2. Control'
  BY <1>1 DEF EndTurn, Control
<1> QED
  BY <1>1, <1>2 DEF Reading, ProtectedReadIsEarned, OrNone

LEMMA SameHub ==
    ASSUME UNCHANGED hub
    PROVE  Kept(hub, hub') /\ (Rooms => Rooms')
<1>1. Kept(hub, hub')
  BY DEF Kept
<1> QED
  BY <1>1 DEF Rooms

LEMMA SameGrants ==
    ASSUME Promises, UNCHANGED grants
    PROVE  FewerGrants
BY DEF Promises, FewerGrants

LEMMA SameOps ==
    ASSUME Promises, UNCHANGED op
    PROVE  FewerReads
BY DEF Promises, FewerReads

LEMMA GrantGone ==
    ASSUME Promises, NEW u \in Users, grants' = [grants EXCEPT ![u] = None]
    PROVE  FewerGrants
BY DEF Promises, FewerGrants, OrNone

LEMMA OpGone ==
    ASSUME Promises, NEW u \in Users, op' = [op EXCEPT ![u] = None]
    PROVE  FewerReads
BY DEF Promises, FewerReads, OrNone

(* The tables that nobody has logged in to, at the start and after the end.*)
Blank == /\ life = Nobody.life /\ gen = Nobody.gen /\ moving = Nobody.moving
         /\ op = Nobody.op /\ hub = Nobody.hub /\ grants = Nobody.grants
         /\ observed = Nobody.observed /\ reported = Nobody.reported
         /\ nextGen = 1 /\ durable \in [Users -> Infos]
         /\ flushing = FALSE /\ stopped \in {"no", "stale", "audience", "capacity"}
         /\ read = None

LEMMA EmptyHub ==
    ASSUME NEW h, h = Nobody.hub
    PROVE  HubInv(h) /\ Cardinality(Tracked(h)) <= Capacity
<1> DEFINE no == [u \in Users |-> None]
<1>1. h = HubOf(no, no, no)
  BY DEF Nobody, HubOf
<1>2. h \in Tables /\ h.rooms = no /\ h.member = no /\ h.canon = no
  <2>1. /\ no \in [Users -> OrNone(Room)] /\ no \in [Users -> OrNone(Place)]
        /\ no \in [Users -> OrNone(0..GenMax)]
    BY DEF OrNone
  <2> HIDE DEF no
  <2> QED
    BY <1>1, <2>1, HubTyped, HubReads
<1>3. \A u \in Users : h.rooms[u] = None /\ h.member[u] = None /\ h.canon[u] = None
  BY <1>2
<1>4. HubInv(h)
  BY <1>2, <1>3 DEF HubInv, Sound, Placed, Inhabited, OneGeneration, Rooted, Pruned, HasRole
<1>5. Tracked(h) = {}
  BY <1>3 DEF Tracked
<1>6. Cardinality(Tracked(h)) = 0
  BY <1>5, FS_EmptySet
<1> QED
  BY <1>4, <1>6, Constants

LEMMA BlankIsSafe == Blank => MyRoomInv
<1> SUFFICES ASSUME Blank PROVE MyRoomInv
  OBVIOUS
<1>1. Rooms
  BY EmptyHub DEF Blank, Rooms
<1>2. Registry
  BY Constants DEF Blank, Registry, Present, Nobody
<1>3. Promises
  BY DEF Blank, Promises, GrantsProve, PlansProve, Nobody, OrNone
<1>4. Addresses
  BY Constants DEF Blank, Addresses, Nobody
<1>5. Control /\ Reading
  BY DEF Blank, Control, Reading, ProtectedReadIsEarned, OrNone
<1>6. RolesAreLive
  BY DEF Blank, RolesAreLive, Nobody
<1> QED
  BY <1>1, <1>2, <1>3, <1>4, <1>5, <1>6, InvariantParts

LEMMA NextParts ==
    MyRoomInv' <=> /\ Registry' /\ Rooms' /\ Promises' /\ Addresses' /\ Control'
                   /\ Reading' /\ RolesAreLive'
BY InvariantParts, PTL

LEMMA HaltIsSafe ==
    ASSUME Addresses, NEW why \in {"stale", "audience", "capacity"}, Halt(why)
    PROVE  MyRoomInv'
<1>1. Blank'
  BY DEF Halt, Blank, Addresses
<1> QED
  BY <1>1, BlankIsSafe, PTL

-----------------------------------------------------------------------------
(* Identities come, move and go.                                           *)
LEMMA LoginStep ==
    ASSUME MyRoomInv, NEW u \in Users, Login(u)
    PROVE  MyRoomInv'
<1>1. Registry /\ Rooms /\ Promises /\ Addresses /\ RolesAreLive
  BY InvariantParts
<1>2. /\ life' = [life EXCEPT ![u] = "active"] /\ gen' = [gen EXCEPT ![u] = nextGen]
      /\ life[u] = "offline" /\ nextGen <= GenMax /\ nextGen' = nextGen + 1
      /\ moving' = moving /\ UNCHANGED hub
      /\ durable' = durable
  BY DEF Login
<1>3. Registry'
  <2>1. nextGen \in 1..GenMax /\ nextGen' \in 1..(GenMax + 1)
    BY <1>1, <1>2, Constants DEF Registry
  <2>2. /\ life' \in [Users -> {"offline", "active", "ownerless", "draining"}]
        /\ gen' \in [Users -> 0..GenMax] /\ moving' \in [Users -> BOOLEAN]
    BY <1>1, <1>2, <2>1 DEF Registry
  <2>3. \A v \in Users : life'[v] # "offline" => gen'[v] # 0
    BY <1>1, <1>2, <2>1 DEF Registry, Present
  <2> QED
    BY <2>1, <2>2, <2>3 DEF Registry, Present
<1>4. RolesAreLive'
  <2>1. SUFFICES ASSUME NEW v \in Users, hub.canon[v] # None
                 PROVE  \/ hub.canon[v] = gen'[v] /\ life'[v] # "offline"
                        \/ hub.canon[v] = OFFLINE_MYROOM /\ hub.member[v] = None
    BY <1>2 DEF RolesAreLive
  <2>2. \/ hub.canon[v] = gen[v] /\ life[v] # "offline"
        \/ hub.canon[v] = OFFLINE_MYROOM /\ hub.member[v] = None
    BY <1>1, <2>1 DEF RolesAreLive
  <2>3. v = u => life[v] = "offline"
    BY <1>2
  <2>4. v # u => life'[v] = life[v] /\ gen'[v] = gen[v]
    BY <1>1, <1>2 DEF Registry
  <2> QED
    BY <2>2, <2>3, <2>4
<1>5. Promises'
  <2>1. FewerGrants /\ FewerReads /\ Kept(hub, hub')
    BY <1>1, <1>2, SameHub, SameGrants, SameOps, GrantGone DEF Login
  <2> QED
    BY <1>1, <2>1, PromisesKept
<1>6. Rooms'
  BY <1>1, <1>2, SameHub
<1>7. Addresses'
  <2>1. /\ observed' = [observed EXCEPT ![u] = 0] /\ reported' = [reported EXCEPT ![u] = FALSE]
        /\ durable' = durable
    BY DEF Login
  <2>2. 0 \in 0..GenMax
    BY Constants
  <2> QED
    BY <1>1, <2>1, <2>2 DEF Addresses
<1>8. Control' /\ Reading'
  BY AnswerIsSafe DEF Login
<1> QED
  BY <1>3, <1>4, <1>5, <1>6, <1>7, <1>8, NextParts

LEMMA UntouchedKept ==
    ASSUME NEW h, Untouched(hub, h)
    PROVE  Kept(hub, h)
BY DEF Untouched, Kept

LEMMA ShrunkKept ==
    ASSUME NEW h, Shrunk(hub, h)
    PROVE  Kept(hub, h)
BY DEF Shrunk, Kept

(* A generation takes over the roles of u: the capacity is kept.           *)
LEMMA AdvanceFits ==
    ASSUME Rooms, NEW u \in Users, HasRole(hub, u), NEW g \in 1..GenMax,
           NEW h, h = Advance(hub, u, g)
    PROVE  /\ HubInv(h) /\ Untouched(hub, h) /\ Cardinality(Tracked(h)) <= Capacity
           /\ h.canon[u] = g /\ \A v \in Users : v # u => h.canon[v] = hub.canon[v]
<1>1. HubInv(hub)
  BY DEF Rooms
<1>2. /\ HubInv(h) /\ Untouched(hub, h)
      /\ h.canon[u] = g /\ \A v \in Users : v # u => h.canon[v] = hub.canon[v]
  BY <1>1, AdvanceKeeps
<1>3. hub.canon[u] # None
  BY <1>1 DEF HubInv, Sound, Rooted
<1>4. Cardinality(Tracked(h)) <= Capacity
  BY <1>2, <1>3, FewerTracked DEF Rooms
<1> QED
  BY <1>2, <1>4

LEMMA GetRiderStep ==
    ASSUME MyRoomInv, NEW u \in Users, GetRider(u)
    PROVE  MyRoomInv'
<1>1. Registry /\ Rooms /\ Promises /\ Addresses /\ RolesAreLive
  BY InvariantParts
<1>2. /\ life[u] = "active" /\ hub.canon[u] = OFFLINE_MYROOM /\ hub' = Advance(hub, u, gen[u])
      /\ UNCHANGED registry /\ UNCHANGED op /\ UNCHANGED grants
      /\ UNCHANGED durable /\ UNCHANGED ports /\ Answered
  BY DEF GetRider
<1>3. gen[u] \in 1..GenMax
  BY <1>1, <1>2, Constants DEF Registry, Present
<1>4. HasRole(hub, u)
  <2>1. hub.canon[u] # None
    BY <1>2, Constants DEF OFFLINE_MYROOM
  <2> QED
    BY <1>1, <2>1 DEF Rooms, HubInv, Pruned
<1>5. PICK E : E = hub'
  OBVIOUS
<1>6. /\ HubInv(E) /\ Untouched(hub, E) /\ Cardinality(Tracked(E)) <= Capacity
      /\ E.canon[u] = gen[u] /\ \A v \in Users : v # u => E.canon[v] = hub.canon[v]
  BY <1>1, <1>2, <1>3, <1>4, <1>5, AdvanceFits
<1>7. Rooms'
  BY <1>5, <1>6 DEF Rooms
<1>8. RolesAreLive'
  <2>1. SUFFICES ASSUME NEW v \in Users, E.canon[v] # None
                 PROVE  \/ E.canon[v] = gen[v] /\ life[v] # "offline"
                        \/ E.canon[v] = OFFLINE_MYROOM /\ E.member[v] = None
    BY <1>2, <1>5 DEF RolesAreLive, registry
  <2>2. CASE v = u
    BY <1>2, <1>6, <2>2
  <2>3. CASE v # u
    BY <1>1, <1>6, <2>1, <2>3 DEF RolesAreLive, Untouched
  <2> QED
    BY <2>2, <2>3
<1>9. Promises'
  <2>1. FewerGrants /\ FewerReads
    BY <1>1, <1>2, SameGrants, SameOps
  <2>2. Kept(hub, hub')
    BY <1>5, <1>6, UntouchedKept
  <2> QED
    BY <1>1, <2>1, <2>2, PromisesKept
<1>10. Registry'
  BY <1>1, <1>2, RegistryStays
<1>11. Addresses'
  BY <1>1, <1>2 DEF Addresses, ports
<1> QED
  BY <1>2, <1>7, <1>8, <1>9, <1>10, <1>11, AnswerIsSafe, NextParts

LEMMA BeginMigrationStep ==
    ASSUME MyRoomInv, NEW u \in Users, BeginMigration(u)
    PROVE  MyRoomInv'
<1>1. Registry /\ Rooms /\ Promises /\ Addresses /\ RolesAreLive
  BY InvariantParts
<1>2. /\ moving' = [moving EXCEPT ![u] = TRUE] /\ UNCHANGED life /\ UNCHANGED gen
      /\ UNCHANGED nextGen /\ UNCHANGED op /\ UNCHANGED hub /\ UNCHANGED grants
      /\ UNCHANGED durable /\ UNCHANGED ports /\ Answered
  BY DEF BeginMigration
<1>3. Registry' /\ RolesAreLive' /\ Addresses'
  BY <1>1, <1>2 DEF Registry, Present, RolesAreLive, Addresses, ports
<1>4. Promises' /\ Rooms'
  BY <1>1, <1>2, SameHub, SameGrants, SameOps, PromisesKept
<1> QED
  BY <1>2, <1>3, <1>4, AnswerIsSafe, NextParts

LEMMA CompleteMigrationStep ==
    ASSUME MyRoomInv, NEW u \in Users, CompleteMigration(u)
    PROVE  MyRoomInv'
<1>1. Registry /\ Rooms /\ Promises /\ Addresses /\ RolesAreLive
  BY InvariantParts
<1>2. CASE ~Exact(u) /\ Halt("stale")
  BY <1>1, <1>2, HaltIsSafe
<1>3. CASE ~(~Exact(u) /\ Halt("stale"))
  <2>1. /\ life' = [life EXCEPT ![u] = "active"] /\ gen' = [gen EXCEPT ![u] = nextGen]
        /\ moving' = [moving EXCEPT ![u] = FALSE] /\ nextGen' = nextGen + 1 /\ nextGen <= GenMax
        /\ hub' = (IF HasRole(hub, u) THEN Advance(hub, u, nextGen) ELSE hub)
        /\ grants' = [grants EXCEPT ![u] = None] /\ UNCHANGED op /\ UNCHANGED durable
        /\ observed' = [observed EXCEPT ![u] = 0] /\ reported' = [reported EXCEPT ![u] = FALSE]
        /\ Answered
    BY <1>3 DEF CompleteMigration
  <2>2. nextGen \in 1..GenMax /\ nextGen' \in 1..(GenMax + 1) /\ 0 \in 0..GenMax
    BY <1>1, <2>1, Constants DEF Registry
  <2>3. Registry'
    <3>1. /\ life' \in [Users -> {"offline", "active", "ownerless", "draining"}]
          /\ gen' \in [Users -> 0..GenMax] /\ moving' \in [Users -> BOOLEAN]
      BY <1>1, <2>1, <2>2 DEF Registry
    <3>2. \A v \in Users : life'[v] # "offline" => gen'[v] # 0
      BY <1>1, <2>1, <2>2 DEF Registry, Present
    <3> QED
      BY <2>2, <3>1, <3>2 DEF Registry, Present
  <2>4. PICK E : E = hub'
    OBVIOUS
  <2>5. /\ HubInv(E) /\ Untouched(hub, E) /\ Cardinality(Tracked(E)) <= Capacity
        /\ E.canon[u] # None => E.canon[u] = nextGen
        /\ \A v \in Users : v # u => E.canon[v] = hub.canon[v]
    <3>1. CASE HasRole(hub, u)
      <4>1. E = Advance(hub, u, nextGen)
        BY <2>1, <2>4, <3>1
      <4> QED
        BY <1>1, <2>2, <3>1, <4>1, AdvanceFits
    <3>2. CASE ~HasRole(hub, u)
      <4>1. E = hub
        BY <2>1, <2>4, <3>2
      <4>2. hub.canon[u] = None
        BY <1>1, <3>2 DEF Rooms, HubInv, Pruned
      <4> QED
        BY <1>1, <4>1, <4>2 DEF Rooms, Untouched
    <3> QED
      BY <3>1, <3>2
  <2>6. Rooms'
    BY <2>4, <2>5 DEF Rooms
  <2>7. RolesAreLive'
    <3>1. SUFFICES ASSUME NEW v \in Users, E.canon[v] # None
                   PROVE  \/ E.canon[v] = gen'[v] /\ life'[v] # "offline"
                          \/ E.canon[v] = OFFLINE_MYROOM /\ E.member[v] = None
      BY <2>4 DEF RolesAreLive
    <3>2. CASE v = u
      BY <1>1, <2>1, <2>5, <3>1, <3>2 DEF Registry
    <3>3. CASE v # u
      <4>1. life'[v] = life[v] /\ gen'[v] = gen[v]
        BY <1>1, <2>1, <3>3 DEF Registry
      <4> QED
        BY <1>1, <2>5, <3>1, <3>3, <4>1 DEF RolesAreLive, Untouched
    <3> QED
      BY <3>2, <3>3
  <2>8. Promises'
    <3>1. FewerGrants /\ FewerReads
      BY <1>1, <2>1, GrantGone, SameOps
    <3>2. Kept(hub, hub')
      BY <2>4, <2>5, UntouchedKept
    <3> QED
      BY <1>1, <3>1, <3>2, PromisesKept
  <2>9. Addresses'
    BY <1>1, <2>1, <2>2 DEF Addresses
  <2> QED
    BY <2>1, <2>3, <2>6, <2>7, <2>8, <2>9, AnswerIsSafe, NextParts
<1> QED
  BY <1>2, <1>3

(* A release turns exactly the users in S offline.                         *)
Retired(S, l) == /\ l \in [Users -> {"offline", "active", "ownerless", "draining"}]
                 /\ \A v \in Users : v \notin S /\ life[v] # "offline" => l[v] # "offline"
                 /\ \A v \in Users : l[v] # "offline" => v \notin S /\ life[v] # "offline"

LEMMA ReleaseStep ==
    ASSUME MyRoomInv, NEW S \in SUBSET Users, NEW l, Retired(S, l),
           NEW m \in [Users -> BOOLEAN], Release(S, l, m)
    PROVE  MyRoomInv'
<1>1. Registry /\ Rooms /\ Promises /\ Addresses /\ RolesAreLive
  BY InvariantParts
<1>2. CASE Halt("stale") \/ Halt("audience")
  BY <1>1, <1>2, HaltIsSafe
<1>3. CASE ~(Halt("stale") \/ Halt("audience"))
  <2>1. /\ hub' = DisconnectAll(hub, S)
        /\ life' = l /\ moving' = m
        /\ gen' = [u \in Users |-> IF u \in S THEN 0 ELSE gen[u]]
        /\ grants' = [u \in Users |-> IF u \in S THEN None ELSE grants[u]]
        /\ observed' = [u \in Users |-> IF u \in S THEN 0 ELSE observed[u]]
        /\ UNCHANGED nextGen /\ UNCHANGED op /\ UNCHANGED durable /\ UNCHANGED reported
        /\ Answered
    BY <1>3 DEF Release, DisconnectAll
  <2>2. 0 \in 0..GenMax
    BY Constants
  <2>3. Registry'
    <3>1. /\ life' \in [Users -> {"offline", "active", "ownerless", "draining"}]
          /\ gen' \in [Users -> 0..GenMax] /\ moving' \in [Users -> BOOLEAN]
      BY <1>1, <2>1, <2>2 DEF Registry, Retired
    <3>2. \A v \in Users : life'[v] # "offline" => gen'[v] # 0
      BY <1>1, <2>1 DEF Registry, Present, Retired
    <3> QED
      BY <1>1, <2>1, <3>1, <3>2 DEF Registry, Present
  <2>4. PICK E : E = hub'
    OBVIOUS
  <2>5. HubInv(E) /\ Shrunk(hub, E) /\ \A v \in S : E.canon[v] = None
    <3>1. Released(hub, DisconnectAll(hub, S), S)
      BY <1>1, DisconnectAllKeeps DEF Rooms
    <3> QED
      BY <2>1, <2>4, <3>1 DEF Released
  <2>6. Rooms'
    <3>1. \A v \in Users : E.canon[v] # None => hub.canon[v] # None
      BY <2>5 DEF Shrunk
    <3>2. Cardinality(Tracked(E)) <= Capacity
      BY <1>1, <3>1, FewerTracked DEF Rooms
    <3> QED
      BY <2>4, <2>5, <3>2 DEF Rooms
  <2>7. RolesAreLive'
    <3>1. SUFFICES ASSUME NEW v \in Users, hub'.canon[v] # None
                   PROVE  /\ hub'.canon[v] = hub.canon[v] /\ gen'[v] = gen[v]
                          /\ life[v] # "offline" => life'[v] # "offline"
                          /\ hub.member[v] = None => hub'.member[v] = None
      BY <1>1, RolesKept
    <3>2. v \notin S
      BY <2>4, <2>5, <3>1
    <3>3. gen'[v] = gen[v] /\ (life[v] # "offline" => life'[v] # "offline")
      BY <2>1, <3>2 DEF Retired
    <3>4. E.canon[v] = hub.canon[v] /\ (hub.member[v] = None => E.member[v] = None)
      BY <2>4, <2>5, <3>1 DEF Shrunk
    <3> QED
      BY <2>4, <3>3, <3>4
  <2>8. Promises'
    <3>1. FewerGrants
      BY <1>1, <2>1 DEF Promises, FewerGrants, OrNone
    <3>2. FewerReads
      BY <1>1, <2>1, SameOps
    <3>3. Kept(hub, hub')
      BY <2>4, <2>5, ShrunkKept
    <3> QED
      BY <1>1, <3>1, <3>2, <3>3, PromisesKept
  <2>9. Addresses'
    BY <1>1, <2>1, <2>2 DEF Addresses
  <2> QED
    BY <2>1, <2>3, <2>6, <2>7, <2>8, <2>9, AnswerIsSafe, NextParts
<1> QED
  BY <1>2, <1>3

LEMMA CloseSessionStep ==
    ASSUME MyRoomInv, NEW u \in Users, CloseSession(u)
    PROVE  MyRoomInv'
<1>1. Registry /\ Rooms /\ Promises /\ Addresses /\ RolesAreLive
  BY InvariantParts
<1>2. life[u] = "active"
  BY DEF CloseSession
<1>3. CASE moving[u] \/ op[u] # None
  <2>1. PICK x \in {"ownerless", "draining"} : x = IF moving[u] THEN "ownerless" ELSE "draining"
    OBVIOUS
  <2>2. /\ life' = [life EXCEPT ![u] = x]
        /\ UNCHANGED gen /\ UNCHANGED moving /\ UNCHANGED nextGen /\ UNCHANGED op /\ UNCHANGED hub
        /\ UNCHANGED grants /\ UNCHANGED durable /\ UNCHANGED ports /\ Answered
    BY <1>3, <2>1 DEF CloseSession
  <2>3. /\ life' \in [Users -> {"offline", "active", "ownerless", "draining"}]
        /\ \A v \in Users : life'[v] # "offline" <=> life[v] # "offline"
    BY <1>1, <1>2, <2>2 DEF Registry
  <2>4. Registry'
    BY <1>1, <2>2, <2>3 DEF Registry, Present
  <2>5. RolesAreLive'
    BY <1>1, <2>2, <2>3 DEF RolesAreLive
  <2>6. Addresses'
    BY <1>1, <2>2 DEF Addresses, ports
  <2>7. Promises' /\ Rooms'
    BY <1>1, <2>2, SameHub, SameGrants, SameOps, PromisesKept
  <2> QED
    BY <2>2, <2>4, <2>5, <2>6, <2>7, AnswerIsSafe, NextParts
<1>4. CASE ~(moving[u] \/ op[u] # None)
  <2>1. PICK l : l = [life EXCEPT ![u] = "offline"]
    OBVIOUS
  <2>2. PICK m : m = moving
    OBVIOUS
  <2>3. PICK S : S = {u}
    OBVIOUS
  <2>4. Release(S, l, m)
    BY <1>4, <2>1, <2>2, <2>3 DEF CloseSession
  <2>5. Retired(S, l)
    BY <1>1, <1>2, <2>1, <2>3 DEF Registry, Retired
  <2>6. S \in SUBSET Users /\ m \in [Users -> BOOLEAN]
    BY <1>1, <2>2, <2>3 DEF Registry
  <2> QED
    BY <2>4, <2>5, <2>6, ReleaseStep
<1> QED
  BY <1>3, <1>4

LEMMA ExpireMigrationsStep ==
    ASSUME MyRoomInv, NEW S \in SUBSET Users, ExpireMigrations(S)
    PROVE  MyRoomInv'
<1>1. Registry
  BY InvariantParts
<1>2. PICK lost : lost = {u \in S : life[u] = "ownerless"}
  OBVIOUS
<1>3. PICK gone : gone = {u \in lost : op[u] = None}
  OBVIOUS
<1>4. PICK l : l = [u \in Users |-> IF u \in gone THEN "offline"
                                   ELSE IF u \in lost THEN "draining" ELSE life[u]]
  OBVIOUS
<1>5. PICK m : m = [u \in Users |-> moving[u] /\ u \notin S]
  OBVIOUS
<1>6. Release(gone, l, m)
  BY <1>2, <1>3, <1>4, <1>5 DEF ExpireMigrations
<1>7. \A u \in lost : u \in Users /\ life[u] # "offline"
  BY <1>2
<1>8. Retired(gone, l)
  <2>1. \A u \in gone : u \in lost
    BY <1>3
  <2> HIDE <1>2
  <2>2. l \in [Users -> {"offline", "active", "ownerless", "draining"}]
    BY <1>1, <1>4 DEF Registry
  <2>3. \A u \in Users : l[u] = IF u \in gone THEN "offline"
                                ELSE IF u \in lost THEN "draining" ELSE life[u]
    BY <1>4
  <2> QED
    BY <1>7, <2>1, <2>2, <2>3 DEF Retired
<1>9. gone \in SUBSET Users /\ m \in [Users -> BOOLEAN]
  BY <1>1, <1>2, <1>3, <1>5 DEF Registry
<1> QED
  BY <1>6, <1>8, <1>9, ReleaseStep

LEMMA FlushStep ==
    ASSUME MyRoomInv, Flush
    PROVE  MyRoomInv'
<1>1. Registry
  BY InvariantParts
<1>2. PICK gone : gone = Drained(life, op)
  OBVIOUS
<1>3. PICK l : l = [u \in Users |-> IF u \in gone THEN "offline" ELSE life[u]]
  OBVIOUS
<1>4. PICK m : m = moving
  OBVIOUS
<1>5. Release(gone, l, m)
  BY <1>2, <1>3, <1>4 DEF Flush
<1>6. gone \in SUBSET Users /\ m \in [Users -> BOOLEAN]
  BY <1>1, <1>2, <1>4 DEF Drained, Registry
<1>7. Retired(gone, l)
  BY <1>1, <1>3 DEF Registry, Retired
<1> QED
  BY <1>5, <1>6, <1>7, ReleaseStep

-----------------------------------------------------------------------------
(* Entering and leaving.                                                   *)
LEMMA Asking ==
    ASSUME MyRoomInv, NEW u \in Users, Request(u)
    PROVE  /\ life[u] = "active" /\ gen[u] \in 1..GenMax
           /\ hub.canon[u] = None \/ hub.canon[u] = gen[u]
           /\ SessionPort(u) = None \/ SessionPort(u) = gen[u]
<1>1. Registry
  BY InvariantParts
<1>2. life[u] = "active" /\ Exact(u)
  BY DEF Request
<1>3. gen[u] \in 0..GenMax /\ gen[u] # 0
  BY <1>1, <1>2 DEF Registry, Present
<1> QED
  BY <1>2, <1>3, Constants DEF Exact, SessionPort

(* The generation that an owner is resolved to: its own, or none.          *)
Resolved(u, o, og) == /\ og \in 0..GenMax
                      /\ u = o => og = gen[u]
                      /\ \/ og = gen[o] /\ life[o] # "offline"
                         \/ og = OFFLINE_MYROOM

LEMMA AbsentOwner ==
    ASSUME MyRoomInv, NEW o \in Users, hub.canon[o] \in {None, OFFLINE_MYROOM}
    PROVE  hub.member[o] = None
<1>1. Registry /\ RolesAreLive /\ HubInv(hub)
  BY InvariantParts DEF Rooms
<1>2. CASE hub.canon[o] = None
  BY <1>1, <1>2 DEF HubInv, Sound, Rooted, HasRole
<1>3. CASE hub.canon[o] # None
  <2>1. hub.canon[o] = OFFLINE_MYROOM
    BY <1>3
  <2> QED
    BY <1>1, <1>3, <2>1 DEF RolesAreLive, Registry, Present, OFFLINE_MYROOM
<1> QED
  BY <1>2, <1>3

LEMMA AdmittedKept ==
    ASSUME NEW h, NEW u, NEW g, NEW o \in Users, NEW og, NEW info,
           Admitted(hub, h, u, g, o, og, info, FreshRevision(o))
    PROVE  Kept(hub, h)
<1>1. SUFFICES ASSUME NEW x \in Users, h.rooms[x] # None
               PROVE  \/ /\ hub.rooms[x] # None
                         /\ h.rooms[x].rev = hub.rooms[x].rev
                         /\ h.rooms[x].info = hub.rooms[x].info
                      \/ h.rooms[x].rev = FreshRevision(x)
  BY DEF Kept
<1>2. CASE x = o
  BY <1>2 DEF Admitted
<1>3. CASE x # o
  BY <1>1, <1>3 DEF Admitted
<1> QED
  BY <1>2, <1>3

(* The roles in h are live ones, for the registry as it is.                *)
LiveRoles(h) == \A v \in Users : h.canon[v] # None =>
    \/ h.canon[v] = gen[v] /\ life[v] # "offline"
    \/ h.canon[v] = OFFLINE_MYROOM /\ h.member[v] = None

LEMMA AdmittedLive ==
    ASSUME MyRoomInv, NEW u \in Users, life[u] = "active", NEW o \in Users, NEW og, Resolved(u, o, og),
           hub.canon[o] = None \/ hub.canon[o] = og, NEW h, NEW info, NEW rev,
           Admitted(hub, h, u, gen[u], o, og, info, rev)
    PROVE  LiveRoles(h)
<1> SUFFICES ASSUME NEW v \in Users, h.canon[v] # None
             PROVE  \/ h.canon[v] = gen[v] /\ life[v] # "offline"
                    \/ h.canon[v] = OFFLINE_MYROOM /\ h.member[v] = None
  BY DEF LiveRoles
<1>1. CASE v = u
  BY <1>1 DEF Admitted
<1>2. CASE v # u /\ v = o
  <2>1. h.canon[v] = og /\ h.member[v] = hub.member[v]
    BY <1>2 DEF Admitted
  <2>2. CASE og = gen[o] /\ life[o] # "offline"
    BY <1>2, <2>1, <2>2
  <2>3. CASE og = OFFLINE_MYROOM
    <3>1. hub.member[o] = None
      BY <2>3, AbsentOwner
    <3> QED
      BY <1>2, <2>1, <2>3, <3>1
  <2> QED
    BY <2>2, <2>3 DEF Resolved
<1>3. CASE v # u /\ v # o
  <2>1. h.canon[v] = hub.canon[v] /\ h.member[v] = hub.member[v]
    BY <1>3 DEF Admitted
  <2> QED
    BY <2>1, InvariantParts DEF RolesAreLive
<1> QED
  BY <1>1, <1>2, <1>3

LEMMA EnterRoomStep ==
    ASSUME MyRoomInv, NEW u \in Users, Request(u), NEW o \in Users, NEW og, Resolved(u, o, og),
           NEW info \in Infos, EnterRoom(u, o, og, info)
    PROVE  MyRoomInv'
<1>1. Registry /\ Rooms /\ Promises /\ Addresses /\ RolesAreLive
  BY InvariantParts
<1>2. CASE Halt("stale") \/ Halt("audience") \/ Halt("capacity")
  BY <1>1, <1>2, HaltIsSafe
<1>3. CASE ~(Halt("stale") \/ Halt("audience") \/ Halt("capacity"))
  <2>1. PICK again : again = (hub.member[u] # None /\ hub.member[u].owner = o)
    OBVIOUS
  <2>2. PICK rev : rev = FreshRevision(o)
    OBVIOUS
  <2>3. PICK port : port = SessionPort(u)
    OBVIOUS
  <2>4. PICK E : E = hub'
    OBVIOUS
  <2>5. /\ hub.canon[o] \in {None, og}
        /\ again \/ (HasSlot(hub, u, o) /\ FitsCapacity(u, o))
        /\ hub' = (IF again THEN hub ELSE Enter(hub, u, gen[u], port, o, og, info, rev))
        /\ grants' = [grants EXCEPT ![u] = None]
        /\ UNCHANGED registry /\ UNCHANGED op /\ UNCHANGED durable /\ UNCHANGED ports /\ Answered
    BY <1>3, <2>1, <2>2, <2>3, Zenon DEF EnterRoom
  <2>6. FewerGrants /\ FewerReads /\ Registry' /\ Addresses' /\ Control' /\ Reading'
    BY <1>1, <2>5, GrantGone, SameOps, RegistryStays, AnswerIsSafe DEF Addresses, ports
  <2>7. CASE again
    <3>1. UNCHANGED hub
      BY <2>5, <2>7
    <3>2. Promises' /\ Rooms'
      BY <1>1, <2>6, <3>1, SameHub, PromisesKept
    <3>3. RolesAreLive'
      BY <1>1, <2>5, <3>1 DEF RolesAreLive, registry
    <3> QED
      BY <2>6, <3>2, <3>3, NextParts
  <2>8. CASE ~again
    <3>1. E = Enter(hub, u, gen[u], port, o, og, info, rev) /\ HasSlot(hub, u, o) /\ FitsCapacity(u, o)
      BY <2>4, <2>5, <2>8
    <3>2. MayEnter(hub, u, gen[u], port, o, og, info, rev)
      <4>1. HubInv(hub) /\ rev \in Revisions
        BY <1>1, <2>2, FreshIsFree DEF Rooms
      <4>2. /\ gen[u] \in 1..GenMax /\ og \in 0..GenMax /\ (u = o => og = gen[u])
            /\ port = None \/ port = gen[u]
            /\ hub.canon[u] = None \/ hub.canon[u] = gen[u]
        BY <2>3, Asking DEF Resolved
      <4>3. hub.member[u] # None => hub.member[u].owner # o
        BY <2>1, <2>8
      <4> QED
        BY <2>5, <3>1, <4>1, <4>2, <4>3 DEF MayEnter
    <3>3. /\ Admitted(hub, E, u, gen[u], o, og, info, rev)
          /\ LastOne(hub, u) => E.canon[hub.member[u].owner] = None
      BY <3>1, <3>2, EnterKeeps
    <3>4. Rooms'
      <4>1. Cardinality(Tracked(E)) <= Capacity
        BY <3>1, <3>2, <3>3, EnterFits
      <4> QED
        BY <2>4, <3>3, <4>1 DEF Rooms, Admitted
    <3>5. Promises'
      <4>1. Kept(hub, hub')
        BY <2>2, <2>4, <3>3, AdmittedKept
      <4> QED
        BY <1>1, <2>6, <4>1, PromisesKept
    <3>6. RolesAreLive'
      <4>1. hub.canon[o] = None \/ hub.canon[o] = og
        BY <2>5
      <4>2. life[u] = "active"
        BY Asking
      <4>3. LiveRoles(E)
        BY <3>3, <4>1, <4>2, AdmittedLive
      <4> QED
        BY <2>4, <2>5, <4>3 DEF RolesAreLive, LiveRoles, registry
    <3> QED
      BY <2>6, <3>4, <3>5, <3>6, NextParts
  <2> QED
    BY <2>7, <2>8
<1> QED
  BY <1>2, <1>3

LEMMA Policies ==
    ASSUME MyRoomInv, NEW o \in Users
    PROVE  /\ durable[o] \in Infos
           /\ hub.rooms[o] # None => hub.rooms[o].info \in Infos
<1>1. Addresses /\ hub \in Tables
  BY InvariantParts DEF Rooms, HubInv, Sound
<1>2. hub.rooms[o] # None => hub.rooms[o] \in Room
  BY <1>1, HubPoints
<1> QED
  BY <1>1, <1>2, RoomParts DEF Addresses

(* The owner of a room that is there is resolved to the room's generation. *)
LEMMA RoomResolves ==
    ASSUME MyRoomInv, NEW u \in Users, Request(u), NEW o \in Users, hub.rooms[o] # None
    PROVE  Resolved(u, o, hub.rooms[o].gen)
<1>1. Sound(hub) /\ RolesAreLive
  BY InvariantParts DEF Rooms, HubInv
<1>2. hub.rooms[o].gen = hub.canon[o] /\ hub.canon[o] # None
  <2>1. PICK h : h = hub
    OBVIOUS
  <2>2. InOrder(h, o)
    BY <1>1, <2>1, RoomOf
  <2> QED
    BY <2>1, <2>2 DEF InOrder
<1>3. hub.canon[o] \in 0..GenMax
  BY <1>1, <1>2, HubPoints DEF Sound
<1>4. u = o => hub.canon[o] = gen[u]
  BY <1>2, Asking
<1>5. (hub.canon[o] = gen[o] /\ life[o] # "offline") \/ hub.canon[o] = OFFLINE_MYROOM
  BY <1>1, <1>2 DEF RolesAreLive
<1> QED
  BY <1>2, <1>3, <1>4, <1>5 DEF Resolved

LEMMA ActiveResolves ==
    ASSUME MyRoomInv, NEW u, NEW o \in Users, life[o] = "active"
    PROVE  Resolved(u, o, gen[o])
<1>1. Registry
  BY InvariantParts
<1> QED
  BY <1>1 DEF Resolved, Registry

LEMMA EnterOwnStep ==
    ASSUME MyRoomInv, NEW u \in Users, EnterOwn(u)
    PROVE  MyRoomInv'
<1>1. PICK info : info = IF hub.rooms[u] = None THEN durable[u] ELSE hub.rooms[u].info
  OBVIOUS
<1>2. PICK og : og = gen[u]
  OBVIOUS
<1>3. Request(u) /\ EnterRoom(u, u, og, info)
  BY <1>1, <1>2 DEF EnterOwn
<1>4. info \in Infos
  BY <1>1, Policies
<1>5. life[u] = "active"
  BY <1>3, Asking
<1>6. Resolved(u, u, og)
  BY <1>2, <1>5, ActiveResolves
<1> QED
  BY <1>3, <1>4, <1>6, EnterRoomStep

LEMMA EnterDirectStep ==
    ASSUME MyRoomInv, NEW u \in Users, NEW o \in Users, EnterDirect(u, o)
    PROVE  MyRoomInv'
<1>1. Request(u) /\ u # o
  BY DEF EnterDirect
<1>2. CASE Halt("stale")
  BY <1>2, HaltIsSafe, InvariantParts
<1>3. CASE life[o] = "active" /\ ~Halt("stale")
  <2>1. PICK info : info = IF PresentOwner(o) THEN hub.rooms[o].info ELSE durable[o]
    OBVIOUS
  <2>2. PICK og : og = gen[o]
    OBVIOUS
  <2>3. EnterRoom(u, o, og, info)
    BY <1>3, <2>1, <2>2 DEF EnterDirect
  <2>4. info \in Infos
    BY <2>1, Policies DEF PresentOwner
  <2>5. Resolved(u, o, og)
    BY <1>3, <2>2, ActiveResolves
  <2> QED
    BY <1>1, <2>3, <2>4, <2>5, EnterRoomStep
<1>4. CASE life[o] # "active"
  <2>1. PICK info : info = durable[o]
    OBVIOUS
  <2>2. EnterRoom(u, o, OFFLINE_MYROOM, info)
    BY <1>4, <2>1 DEF EnterDirect
  <2>3. info \in Infos
    BY <2>1, Policies
  <2>4. Resolved(u, o, OFFLINE_MYROOM)
    BY <1>1, Constants DEF Resolved, OFFLINE_MYROOM
  <2> QED
    BY <1>1, <2>2, <2>3, <2>4, EnterRoomStep
<1> QED
  BY <1>2, <1>3, <1>4

LEMMA ReenterStep ==
    ASSUME MyRoomInv, NEW u \in Users, Reenter(u)
    PROVE  MyRoomInv'
<1>1. PICK o : o = hub.member[u].owner
  OBVIOUS
<1>2. PICK og : og = hub.rooms[o].gen
  OBVIOUS
<1>3. PICK info : info = hub.rooms[o].info
  OBVIOUS
<1>4. Request(u) /\ hub.member[u] # None /\ EnterRoom(u, o, og, info)
  BY <1>1, <1>2, <1>3 DEF Reenter
<1>5. Sound(hub)
  BY InvariantParts DEF Rooms, HubInv
<1>6. o \in Users /\ hub.rooms[o] # None
  <2>1. PICK r : r = hub.rooms[o]
    OBVIOUS
  <2>2. o \in Users /\ r # None
    BY <1>1, <1>4, <1>5, <2>1, PlaceOf
  <2> QED
    BY <2>1, <2>2
<1>7. info \in Infos /\ Resolved(u, o, og)
  BY <1>2, <1>3, <1>4, <1>6, Policies, RoomResolves
<1> QED
  BY <1>4, <1>6, <1>7, EnterRoomStep

LEMMA EnterRandomStep ==
    ASSUME MyRoomInv, NEW u \in Users, EnterRandom(u)
    PROVE  MyRoomInv'
<1>1. Request(u)
  BY DEF EnterRandom
<1>2. CASE Halt("stale")
  BY <1>2, HaltIsSafe, InvariantParts
<1>3. CASE ~Halt("stale")
  <2>1. PICK o \in Users : PresentOwner(o) /\ EnterRoom(u, o, hub.rooms[o].gen, hub.rooms[o].info)
    BY <1>3 DEF EnterRandom
  <2>2. hub.rooms[o] # None
    BY <2>1 DEF PresentOwner
  <2>3. PICK og : og = hub.rooms[o].gen
    OBVIOUS
  <2>4. PICK info : info = hub.rooms[o].info
    OBVIOUS
  <2>5. info \in Infos /\ Resolved(u, o, og)
    BY <1>1, <2>2, <2>3, <2>4, Policies, RoomResolves
  <2>6. EnterRoom(u, o, og, info)
    BY <2>1, <2>3, <2>4
  <2> QED
    BY <1>1, <2>5, <2>6, EnterRoomStep
<1> QED
  BY <1>2, <1>3

LEMMA LeaveRoomStep ==
    ASSUME MyRoomInv, NEW u \in Users, LeaveRoom(u)
    PROVE  MyRoomInv'
<1>1. Registry /\ Rooms /\ Promises /\ Addresses /\ RolesAreLive
  BY InvariantParts
<1>2. CASE Halt("audience")
  BY <1>1, <1>2, HaltIsSafe
<1>3. CASE ~Halt("audience")
  <2>1. /\ hub.member[u] # None /\ hub' = Leave(hub, u) /\ grants' = [grants EXCEPT ![u] = None]
        /\ UNCHANGED registry /\ UNCHANGED op /\ UNCHANGED durable /\ UNCHANGED ports /\ Answered
    BY <1>3 DEF LeaveRoom
  <2>2. PICK E : E = hub'
    OBVIOUS
  <2>3. HubInv(E) /\ Shrunk(hub, E)
    BY <1>1, <2>1, <2>2, LeaveKeeps DEF Rooms
  <2>4. Rooms'
    <3>1. \A v \in Users : E.canon[v] # None => hub.canon[v] # None
      BY <2>3 DEF Shrunk
    <3>2. Cardinality(Tracked(E)) <= Capacity
      BY <1>1, <3>1, FewerTracked DEF Rooms
    <3> QED
      BY <2>2, <2>3, <3>2 DEF Rooms
  <2>5. RolesAreLive'
    <3>1. SUFFICES ASSUME NEW v \in Users, hub'.canon[v] # None
                   PROVE  /\ hub'.canon[v] = hub.canon[v] /\ gen'[v] = gen[v]
                          /\ life[v] # "offline" => life'[v] # "offline"
                          /\ hub.member[v] = None => hub'.member[v] = None
      BY <1>1, RolesKept
    <3>2. E.canon[v] = hub.canon[v] /\ (hub.member[v] = None => E.member[v] = None)
      BY <2>2, <2>3, <3>1 DEF Shrunk
    <3> QED
      BY <2>1, <2>2, <3>2 DEF registry
  <2>6. Promises'
    <3>1. FewerGrants /\ FewerReads
      BY <1>1, <2>1, GrantGone, SameOps
    <3>2. Kept(hub, hub')
      BY <2>2, <2>3, ShrunkKept
    <3> QED
      BY <1>1, <3>1, <3>2, PromisesKept
  <2>7. Registry' /\ Addresses' /\ Control' /\ Reading'
    BY <1>1, <2>1, RegistryStays, AnswerIsSafe DEF Addresses, ports
  <2> QED
    BY <2>4, <2>5, <2>6, <2>7, NextParts
<1> QED
  BY <1>2, <1>3

LEMMA HaltStep ==
    ASSUME MyRoomInv, NEW u, PeerCommand(u) \/ StaleRequest(u)
    PROVE  MyRoomInv'
<1>1. Halt("audience") \/ Halt("stale")
  BY DEF PeerCommand, StaleRequest
<1> QED
  BY <1>1, HaltIsSafe, InvariantParts

-----------------------------------------------------------------------------
(* Protected resources.                                                    *)
Seen(u, o, p) == /\ o \in Users /\ hub.rooms[o] # None
                 /\ hub.rooms[o].info.item \in Nat
                 /\ p \in Plan
                 /\ p.owner = o /\ p.rev = hub.rooms[o].rev
                 /\ p.visible <=> (u = o \/ hub.rooms[o].info.item = 0)

LEMMA PlanOfRoom ==
    ASSUME MyRoomInv, NEW u \in Users, hub.member[u] # None, NEW p, p = OwnerPlan(u)
    PROVE  Seen(u, hub.member[u].owner, p)
<1>1. PICK h : h = hub
  OBVIOUS
<1>2. PICK m : m = h.member[u]
  OBVIOUS
<1>3. PICK o : o = m.owner
  OBVIOUS
<1>4. PICK r : r = h.rooms[o]
  OBVIOUS
<1>5. Sound(h) /\ h \in Tables /\ Registry
  BY <1>1, InvariantParts DEF Rooms, HubInv, Sound
<1>6. o \in Users /\ r # None
  BY <1>1, <1>2, <1>3, <1>4, <1>5, PlaceOf
<1>7. r \in Room
  BY <1>4, <1>5, <1>6, HubPoints
<1>8. r.gen \in 0..GenMax /\ r.rev \in Revisions /\ r.info \in Infos
  BY <1>7, RoomParts
<1>9. r.info.item \in Nat
  BY <1>8, Constants
<1>10. PICK b \in BOOLEAN : b <=> (u = o \/ r.info.item = 0)
  OBVIOUS
<1>11. p = [gen |-> gen[u], owner |-> o, ogen |-> r.gen, rev |-> r.rev, visible |-> b]
  BY <1>1, <1>2, <1>3, <1>4, <1>10 DEF OwnerPlan
<1>12. gen[u] \in 0..GenMax
  BY <1>5 DEF Registry
<1>13. p \in Plan /\ p.owner = o /\ p.rev = r.rev /\ p.visible = b
  BY <1>6, <1>8, <1>11, <1>12 DEF Plan
<1>14. Seen(u, o, p)
  BY <1>1, <1>4, <1>6, <1>9, <1>10, <1>13 DEF Seen
<1> QED
  BY <1>1, <1>2, <1>3, <1>14

LEMMA CheckPasswordStep ==
    ASSUME MyRoomInv, NEW u \in Users, NEW res \in Resources, CheckPassword(u, res)
    PROVE  MyRoomInv'
<1>1. Registry /\ Rooms /\ Promises /\ Addresses /\ RolesAreLive
  BY InvariantParts
<1>2. PICK p : p = OwnerPlan(u)
  OBVIOUS
<1>3. PICK o : o = hub.member[u].owner
  OBVIOUS
<1>4. hub.member[u] # None
  BY DEF CheckPassword
<1>5. Seen(u, o, p)
  BY <1>2, <1>3, <1>4, PlanOfRoom
<1>6. PICK g : g = [gen |-> p.gen, owner |-> p.owner, ogen |-> p.ogen, rev |-> p.rev, res |-> res,
                    proof |-> hub.rooms[p.owner].info.item]
  OBVIOUS
<1>7. PICK x : x = IF PresentOwner(p.owner) /\ ~p.visible THEN g ELSE None
  OBVIOUS
<1>8. /\ grants' = [grants EXCEPT ![u] = x]
      /\ UNCHANGED registry /\ UNCHANGED op /\ UNCHANGED hub /\ UNCHANGED durable
      /\ UNCHANGED ports /\ Answered
  BY <1>2, <1>6, <1>7 DEF CheckPassword
<1>9. g \in Grant /\ g.owner = o /\ g.rev = hub.rooms[o].rev /\ g.proof = hub.rooms[o].info.item
  BY <1>5, <1>6 DEF Seen, Plan, Grant
<1>10. Promises'
  <2>1. grants' \in [Users -> OrNone(Grant)] /\ op' \in [Users -> OrNone(Operation)]
    BY <1>1, <1>7, <1>8, <1>9 DEF Promises, OrNone
  <2>2. GrantsProve(hub)'
    <3>1. SUFFICES ASSUME NEW v \in Users, grants'[v] # None
                   PROVE  Proves(hub, grants'[v].owner, grants'[v].rev, grants'[v].proof)
      BY <1>8 DEF GrantsProve
    <3>2. CASE v = u
      <4>1. grants'[v] = g
        BY <1>1, <1>7, <1>8, <3>1, <3>2 DEF Promises
      <4> QED
        BY <1>9, <4>1 DEF Proves
    <3>3. CASE v # u
      <4>1. grants'[v] = grants[v]
        BY <1>1, <1>8, <3>3 DEF Promises
      <4> QED
        BY <1>1, <3>1, <4>1 DEF Promises, GrantsProve
    <3> QED
      BY <3>2, <3>3
  <2>3. PlansProve(hub)'
    BY <1>1, <1>8 DEF Promises, PlansProve
  <2> QED
    BY <2>1, <2>2, <2>3 DEF Promises
<1>11. Registry' /\ Rooms' /\ Addresses' /\ RolesAreLive'
  BY <1>1, <1>8, RegistryStays, SameHub DEF Addresses, ports, RolesAreLive, registry
<1> QED
  BY <1>8, <1>10, <1>11, AnswerIsSafe, NextParts

LEMMA PrepareReadStep ==
    ASSUME MyRoomInv, NEW u \in Users, NEW res \in Resources, PrepareRead(u, res)
    PROVE  MyRoomInv'
<1>1. Registry /\ Rooms /\ Promises /\ Addresses /\ RolesAreLive
  BY InvariantParts
<1>2. PICK p : p = OwnerPlan(u)
  OBVIOUS
<1>3. PICK g : g = grants[u]
  OBVIOUS
<1>4. hub.member[u] # None
  BY DEF PrepareRead
<1>5. p \in Plan /\ p.owner \in Users
  BY <1>2, <1>4, PlanOfRoom DEF Seen
<1>6. PICK earned \in BOOLEAN : earned <=> ~p.visible /\ Matches(g, res, p) /\ PresentOwner(p.owner)
  OBVIOUS
<1>7. PICK used \in BOOLEAN : used <=> g # None /\ g.res = res /\ (res = "items" \/ ~p.visible)
  OBVIOUS
<1>8. PICK pw : pw = IF earned THEN g.proof ELSE 0
  OBVIOUS
<1>9. PICK plan : plan = [kind |-> "read", res |-> res, plan |-> p, grant |-> earned, proof |-> pw]
  OBVIOUS
<1>10. PICK x : x = IF res = "items" \/ p.visible \/ earned THEN plan ELSE None
  OBVIOUS
<1>11. earned = (~p.visible /\ Matches(g, res, p) /\ PresentOwner(p.owner))
  BY <1>6 DEF Matches, PresentOwner
<1>12. grants' = [grants EXCEPT ![u] = IF used THEN None ELSE @]
  BY <1>2, <1>3, <1>7 DEF PrepareRead
<1>13. op' = [op EXCEPT ![u] = x]
  BY <1>2, <1>3, <1>8, <1>9, <1>10, <1>11 DEF PrepareRead
<1>14. /\ UNCHANGED registry /\ UNCHANGED hub /\ UNCHANGED durable /\ UNCHANGED ports /\ Answered
  BY DEF PrepareRead
<1>15. earned => /\ g \in Grant /\ g.proof \in Nat
                 /\ g # None /\ g.owner = p.owner /\ g.rev = p.rev
                 /\ Proves(hub, p.owner, p.rev, g.proof)
  <2> SUFFICES ASSUME earned PROVE /\ g \in Grant /\ g.proof \in Nat
                                   /\ g # None /\ g.owner = p.owner /\ g.rev = p.rev
                                   /\ Proves(hub, p.owner, p.rev, g.proof)
    OBVIOUS
  <2>1. g # None /\ g.owner = p.owner /\ g.rev = p.rev
    BY <1>6 DEF Matches
  <2>2. g \in Grant
    BY <1>1, <1>3, <2>1 DEF Promises, OrNone
  <2>3. Proves(hub, g.owner, g.rev, g.proof)
    BY <1>1, <1>3, <2>1 DEF Promises, GrantsProve
  <2> QED
    BY <2>1, <2>2, <2>3 DEF Grant
<1>16. plan \in Operation /\ plan.grant = earned /\ plan.plan = p /\ plan.proof = pw
  BY <1>5, <1>8, <1>9, <1>15 DEF Operation
<1>17. Promises'
  <2>1. FewerGrants
    BY <1>1, <1>12 DEF Promises, FewerGrants, OrNone
  <2>2. GrantsProve(hub)'
    BY <1>1, <1>14, <2>1, SameHub, GrantsKept
  <2>3. op' \in [Users -> OrNone(Operation)]
    BY <1>1, <1>10, <1>13, <1>16 DEF Promises, OrNone
  <2>4. PlansProve(hub)'
    <3>1. SUFFICES ASSUME NEW v \in Users, op'[v] # None, op'[v].kind = "read", op'[v].grant
                   PROVE  Proves(hub, op'[v].plan.owner, op'[v].plan.rev, op'[v].proof)
      BY <1>14 DEF PlansProve
    <3>2. CASE v = u
      <4>1. op'[v] = plan
        BY <1>1, <1>10, <1>13, <3>1, <3>2 DEF Promises
      <4>2. earned
        BY <1>16, <3>1, <4>1
      <4> QED
        BY <1>8, <1>15, <1>16, <4>1, <4>2
    <3>3. CASE v # u
      <4>1. op'[v] = op[v]
        BY <1>1, <1>13, <3>3 DEF Promises
      <4> QED
        BY <1>1, <3>1, <4>1 DEF Promises, PlansProve
    <3> QED
      BY <3>2, <3>3
  <2> QED
    BY <2>1, <2>2, <2>3, <2>4 DEF Promises, FewerGrants
<1>18. Registry' /\ Rooms' /\ Addresses' /\ RolesAreLive'
  BY <1>1, <1>14, RegistryStays, SameHub DEF Addresses, ports, RolesAreLive, registry
<1> QED
  BY <1>14, <1>17, <1>18, AnswerIsSafe, NextParts

LEMMA PublishReadStep ==
    ASSUME MyRoomInv, NEW u \in Users, PublishRead(u)
    PROVE  MyRoomInv'
<1>1. Registry /\ Rooms /\ Promises /\ Addresses /\ RolesAreLive
  BY InvariantParts
<1>2. /\ op[u] # None /\ op[u].kind = "read" /\ op' = [op EXCEPT ![u] = None]
      /\ UNCHANGED registry /\ UNCHANGED hub /\ UNCHANGED grants /\ UNCHANGED durable
      /\ UNCHANGED ports /\ EndTurn
  BY DEF PublishRead
<1>3. PICK x : x = op[u]
  OBVIOUS
<1>4. x \in Operation
  BY <1>1, <1>2, <1>3 DEF Promises, OrNone
<1>5. x.proof \in Nat /\ x.plan \in Plan
  BY <1>2, <1>3, <1>4 DEF Operation
<1>6. PICK a : a = [by |-> u, of |-> x.plan.owner, proof |-> x.proof]
  OBVIOUS
<1>7. a \in [by : Users, of : Users, proof : Nat] /\ a.by = u /\ a.of = x.plan.owner
      /\ a.proof = x.proof
  BY <1>5, <1>6 DEF Plan
<1>8. CASE Current(u) /\ (x.plan.visible \/ x.grant)
  <2>1. read' = a
    BY <1>3, <1>6, <1>8 DEF PublishRead
  <2>2. hub.member[u] # None /\ OwnerPlan(u) = x.plan
        /\ (x.grant => PresentOwner(x.plan.owner))
    BY <1>3, <1>8 DEF Current
  <2>3. PICK o : o = hub.member[u].owner
    OBVIOUS
  <2>4. Seen(u, o, x.plan)
    BY <2>2, <2>3, PlanOfRoom
  <2>5. x.plan.owner = o /\ x.plan.rev = hub.rooms[o].rev /\ hub.rooms[o] # None
    BY <2>4 DEF Seen
  <2>6. \/ u = o
        \/ hub.rooms[o].info.item = 0
        \/ hub.rooms[o].info.item = x.proof /\ hub.rooms[o].present
    <3>1. CASE x.plan.visible
      BY <2>4, <3>1 DEF Seen
    <3>2. CASE x.grant
      <4>1. Proves(hub, x.plan.owner, x.plan.rev, x.proof)
        BY <1>1, <1>2, <1>3, <3>2 DEF Promises, PlansProve
      <4>2. hub.rooms[o].present
        BY <2>2, <2>5, <3>2 DEF PresentOwner
      <4> QED
        BY <2>5, <4>1, <4>2 DEF Proves
    <3> QED
      BY <1>8, <3>1, <3>2
  <2>7. hub' = hub
    BY <1>2
  <2>8. ProtectedReadIsEarned'
    BY <1>7, <2>1, <2>2, <2>3, <2>5, <2>6, <2>7 DEF ProtectedReadIsEarned
  <2> QED
    BY <1>1, <1>2, <1>7, <2>1, <2>8, RegistryStays, SameHub, SameGrants, OpGone, PromisesKept,
       NextParts DEF EndTurn, Control, Reading, OrNone, Addresses, ports, RolesAreLive, registry
<1>9. CASE ~(Current(u) /\ (x.plan.visible \/ x.grant))
  <2>1. read' = None
    BY <1>3, <1>9 DEF PublishRead
  <2>2. Answered
    BY <1>2, <2>1 DEF Answered
  <2>3. Promises'
    BY <1>1, <1>2, SameHub, SameGrants, OpGone, PromisesKept
  <2>4. Registry' /\ Rooms' /\ Addresses' /\ RolesAreLive'
    BY <1>1, <1>2, RegistryStays, SameHub DEF Addresses, ports, RolesAreLive, registry
  <2> QED
    BY <2>2, <2>3, <2>4, AnswerIsSafe, NextParts
<1> QED
  BY <1>8, <1>9

LEMMA AbandonReadStep ==
    ASSUME MyRoomInv, NEW u \in Users, AbandonRead(u)
    PROVE  MyRoomInv'
<1>1. Registry /\ Rooms /\ Promises /\ Addresses /\ Control /\ RolesAreLive
  BY InvariantParts
<1>2. /\ op' = [op EXCEPT ![u] = None] /\ read' = None
      /\ UNCHANGED registry /\ UNCHANGED hub /\ UNCHANGED grants /\ UNCHANGED durable
      /\ UNCHANGED ports /\ UNCHANGED flushing /\ UNCHANGED stopped
  BY DEF AbandonRead
<1>3. Promises'
  BY <1>1, <1>2, SameHub, SameGrants, OpGone, PromisesKept
<1>4. Registry' /\ Rooms' /\ Addresses' /\ RolesAreLive'
  BY <1>1, <1>2, RegistryStays, SameHub DEF Addresses, ports, RolesAreLive, registry
<1>5. Control' /\ Reading'
  BY <1>1, <1>2 DEF Control, Reading, ProtectedReadIsEarned, OrNone
<1> QED
  BY <1>3, <1>4, <1>5, NextParts

-----------------------------------------------------------------------------
(* Room policy and addresses.                                              *)
LEMMA OpBegins ==
    ASSUME Promises, NEW u \in Users, NEW x \in Operation, x.kind # "read",
           op' = [op EXCEPT ![u] = x]
    PROVE  FewerReads
<1>1. op' \in [Users -> OrNone(Operation)]
  BY DEF Promises, OrNone
<1>2. \A v \in Users : v # u => op'[v] = op[v]
  BY DEF Promises
<1>3. op'[u] = x
  BY DEF Promises
<1> QED
  BY <1>1, <1>2, <1>3 DEF FewerReads

(* An operation that is only registered.                                   *)
LEMMA RegisterStep ==
    ASSUME MyRoomInv, NEW u \in Users,
           \/ BeginReport(u)
           \/ \E info \in Infos : RegisterInfoWrite(u, info)
    PROVE  MyRoomInv'
<1>1. Registry /\ Rooms /\ Promises /\ Addresses /\ RolesAreLive
  BY InvariantParts
<1>2. /\ UNCHANGED registry /\ UNCHANGED hub /\ UNCHANGED grants /\ UNCHANGED durable
      /\ UNCHANGED ports /\ Answered
  BY DEF BeginReport, RegisterInfoWrite
<1>3. \E x \in Operation : x.kind # "read" /\ op' = [op EXCEPT ![u] = x]
  <2>1. CASE BeginReport(u)
    <3>1. PICK x : x = [kind |-> "report"]
      OBVIOUS
    <3>2. x \in Operation /\ x.kind # "read"
      BY <3>1 DEF Operation
    <3> QED
      BY <2>1, <3>1, <3>2 DEF BeginReport
  <2>2. ASSUME NEW info \in Infos, RegisterInfoWrite(u, info)
        PROVE  \E x \in Operation : x.kind # "read" /\ op' = [op EXCEPT ![u] = x]
    <3>1. PICK x : x = [kind |-> "write", info |-> info]
      OBVIOUS
    <3>2. x \in Operation /\ x.kind # "read"
      BY <3>1 DEF Operation
    <3> QED
      BY <2>2, <3>1, <3>2 DEF RegisterInfoWrite
  <2> QED
    BY <2>1, <2>2
<1>4. FewerReads
  BY <1>1, <1>3, OpBegins
<1>5. Promises'
  BY <1>1, <1>2, <1>4, SameHub, SameGrants, PromisesKept
<1>6. Registry' /\ Rooms' /\ Addresses' /\ RolesAreLive'
  BY <1>1, <1>2, RegistryStays, SameHub DEF Addresses, ports, RolesAreLive, registry
<1> QED
  BY <1>2, <1>5, <1>6, AnswerIsSafe, NextParts

LEMMA CompleteInfoWriteStep ==
    ASSUME MyRoomInv, NEW u \in Users, CompleteInfoWrite(u)
    PROVE  MyRoomInv'
<1>1. Registry /\ Rooms /\ Promises /\ Addresses /\ RolesAreLive /\ HubInv(hub)
  BY InvariantParts DEF Rooms
<1>2. /\ op[u] # None /\ op[u].kind = "write" /\ op' = [op EXCEPT ![u] = None]
      /\ UNCHANGED registry /\ UNCHANGED grants /\ UNCHANGED ports /\ Answered
  BY DEF CompleteInfoWrite
<1>3. PICK info : info = op[u].info
  OBVIOUS
<1>4. info \in Infos
  <2>1. op[u] \in Operation
    BY <1>1, <1>2 DEF Promises, OrNone
  <2> QED
    BY <1>2, <1>3, <2>1 DEF Operation
<1>5. durable' = durable \/ durable' = [durable EXCEPT ![u] = info]
  BY <1>3 DEF CompleteInfoWrite
<1>6. PICK rev : rev = FreshRevision(u)
  OBVIOUS
<1>7. \/ hub' = hub
      \/ hub.member[u] = [owner |-> u, slot |-> OWNER] /\ hub' = Policy(hub, u, info, rev)
  BY <1>3, <1>6 DEF CompleteInfoWrite, UpdateOwnerInfo, Policy
<1>8. Registry' /\ Addresses' /\ Control' /\ Reading'
  BY <1>1, <1>2, <1>4, <1>5, RegistryStays, AnswerIsSafe DEF Addresses, ports
<1>9. CASE hub' = hub
  BY <1>1, <1>2, <1>8, <1>9, SameHub, SameGrants, OpGone, PromisesKept, NextParts
     DEF RolesAreLive, registry
<1>10. CASE hub' # hub
  <2>1. PICK E : E = hub'
    OBVIOUS
  <2>2. hub.rooms[u] # None
    <3>1. PICK m : m = hub.member[u]
      OBVIOUS
    <3>2. m = [owner |-> u, slot |-> OWNER]
      BY <1>7, <1>10, <3>1
    <3>3. m \in Place /\ m # None /\ m.owner = u
      BY <3>2, PlaceTyped
    <3> QED
      BY <1>1, <3>1, <3>3 DEF HubInv, Sound, Placed
  <2>3. rev \in Revisions
    BY <1>6, FreshIsFree
  <2>4. E = Policy(hub, u, info, rev)
    BY <1>7, <1>10, <2>1
  <2>5. /\ HubInv(E) /\ E.member = hub.member /\ E.canon = hub.canon
        /\ E.rooms[u] # None /\ E.rooms[u].info = info /\ E.rooms[u].rev = rev
        /\ \A o \in Users : o # u => E.rooms[o] = hub.rooms[o]
    BY <1>1, <1>4, <2>2, <2>3, <2>4, PolicyKeeps
  <2>6. Rooms'
    <3>1. Cardinality(Tracked(E)) <= Capacity
      BY <1>1, <2>5, FewerTracked DEF Rooms
    <3> QED
      BY <2>1, <2>5, <3>1 DEF Rooms
  <2>7. RolesAreLive'
    BY <1>1, <1>2, <2>1, <2>5 DEF RolesAreLive, registry
  <2>8. Kept(hub, hub')
    <3>1. Kept(hub, E)
      BY <1>6, <2>5 DEF Kept
    <3> QED
      BY <2>1, <3>1
  <2>9. Promises'
    BY <1>1, <1>2, <2>8, SameGrants, OpGone, PromisesKept
  <2> QED
    BY <1>8, <2>6, <2>7, <2>9, NextParts
<1> QED
  BY <1>9, <1>10

(* An address that is made known, and nothing else in the hub.             *)
LEMMA PublishPortParts ==
    ASSUME MyRoomInv, NEW u \in Users, gen[u] \in 1..GenMax,
           hub.canon[u] = None \/ hub.canon[u] = gen[u], PublishPort(u)
    PROVE  /\ Rooms' /\ Kept(hub, hub')
           /\ UNCHANGED registry => RolesAreLive'
<1>1. Rooms /\ RolesAreLive /\ HubInv(hub)
  BY InvariantParts DEF Rooms
<1>2. PICK E : E = hub'
  OBVIOUS
<1>3. PICK g : g = gen[u]
  OBVIOUS
<1>4. E = SetPort(hub, u, g) /\ g \in 1..GenMax /\ (hub.canon[u] = None \/ hub.canon[u] = g)
  BY <1>2, <1>3 DEF PublishPort
<1>5. HubInv(E) /\ Untouched(hub, E) /\ E.canon = hub.canon
  BY <1>1, <1>4, PortKeeps
<1>6. Rooms'
  <2>1. Cardinality(Tracked(E)) <= Capacity
    BY <1>1, <1>5, FewerTracked DEF Rooms
  <2> QED
    BY <1>2, <1>5, <2>1 DEF Rooms
<1>7. Kept(hub, hub')
  BY <1>2, <1>5, UntouchedKept
<1>8. UNCHANGED registry => RolesAreLive'
  BY <1>1, <1>2, <1>5 DEF RolesAreLive, Untouched, registry
<1> QED
  BY <1>6, <1>7, <1>8

LEMMA P2pDatagramStep ==
    ASSUME MyRoomInv, NEW u \in Users, P2pDatagram(u)
    PROVE  MyRoomInv'
<1>1. Registry /\ Rooms /\ Promises /\ Addresses /\ RolesAreLive
  BY InvariantParts
<1>2. /\ Request(u) /\ observed' = [observed EXCEPT ![u] = gen[u]] /\ PublishPort(u)
      /\ UNCHANGED registry /\ UNCHANGED op /\ UNCHANGED grants /\ UNCHANGED durable
      /\ UNCHANGED reported /\ Answered
  BY DEF P2pDatagram
<1>3. Rooms' /\ Kept(hub, hub') /\ RolesAreLive'
  BY <1>2, Asking, PublishPortParts
<1>4. Promises'
  BY <1>1, <1>2, <1>3, SameGrants, SameOps, PromisesKept
<1>5. Addresses'
  BY <1>1, <1>2 DEF Addresses, Registry
<1> QED
  BY <1>1, <1>2, <1>3, <1>4, <1>5, RegistryStays, AnswerIsSafe, NextParts

LEMMA CompleteReportStep ==
    ASSUME MyRoomInv, NEW u \in Users, CompleteReport(u)
    PROVE  MyRoomInv'
<1>1. Registry /\ Rooms /\ Promises /\ Addresses /\ RolesAreLive
  BY InvariantParts
<1>2. /\ op' = [op EXCEPT ![u] = None]
      /\ UNCHANGED registry /\ UNCHANGED grants /\ UNCHANGED durable /\ UNCHANGED observed
      /\ Answered
  BY DEF CompleteReport
<1>3. \/ /\ Turn /\ life[u] = "active" /\ Exact(u) /\ PublishPort(u)
         /\ reported' = [reported EXCEPT ![u] = TRUE]
      \/ UNCHANGED hub /\ UNCHANGED reported
  BY DEF CompleteReport
<1>4. Rooms' /\ Kept(hub, hub') /\ RolesAreLive'
  <2>1. CASE UNCHANGED hub
    BY <1>1, <1>2, <2>1, SameHub DEF RolesAreLive, registry
  <2>2. CASE Turn /\ life[u] = "active" /\ Exact(u) /\ PublishPort(u)
    BY <1>2, <2>2, Asking, PublishPortParts DEF Request
  <2> QED
    BY <1>3, <2>1, <2>2
<1>5. Promises'
  BY <1>1, <1>2, <1>4, SameGrants, OpGone, PromisesKept
<1>6. Addresses'
  BY <1>1, <1>2, <1>3 DEF Addresses
<1> QED
  BY <1>1, <1>2, <1>4, <1>5, <1>6, RegistryStays, AnswerIsSafe, NextParts

-----------------------------------------------------------------------------
LEMMA StepKeepsInv == MyRoomInv /\ [Next]_vars => MyRoomInv'
<1> SUFFICES ASSUME MyRoomInv, [Next]_vars PROVE MyRoomInv'
  OBVIOUS
<1>1. CASE Lifecycle
  <2>1. ASSUME NEW u \in Users, Login(u) PROVE MyRoomInv'
    BY <2>1, LoginStep
  <2>2. ASSUME NEW u \in Users, GetRider(u) PROVE MyRoomInv'
    BY <2>2, GetRiderStep
  <2>3. ASSUME NEW u \in Users, BeginMigration(u) PROVE MyRoomInv'
    BY <2>3, BeginMigrationStep
  <2>4. ASSUME NEW u \in Users, CompleteMigration(u) PROVE MyRoomInv'
    BY <2>4, CompleteMigrationStep
  <2>5. ASSUME NEW u \in Users, CloseSession(u) PROVE MyRoomInv'
    BY <2>5, CloseSessionStep
  <2>6. ASSUME NEW S \in SUBSET Users, ExpireMigrations(S) PROVE MyRoomInv'
    BY <2>6, ExpireMigrationsStep
  <2>7. CASE Flush
    BY <2>7, FlushStep
  <2> QED
    BY <1>1, <2>1, <2>2, <2>3, <2>4, <2>5, <2>6, <2>7 DEF Lifecycle
<1>2. CASE Topology
  <2>1. ASSUME NEW u \in Users, EnterOwn(u) PROVE MyRoomInv'
    BY <2>1, EnterOwnStep
  <2>2. ASSUME NEW u \in Users, NEW o \in Users, EnterDirect(u, o) PROVE MyRoomInv'
    BY <2>2, EnterDirectStep
  <2>3. ASSUME NEW u \in Users, Reenter(u) PROVE MyRoomInv'
    BY <2>3, ReenterStep
  <2>4. ASSUME NEW u \in Users, EnterRandom(u) PROVE MyRoomInv'
    BY <2>4, EnterRandomStep
  <2>5. ASSUME NEW u \in Users, LeaveRoom(u) PROVE MyRoomInv'
    BY <2>5, LeaveRoomStep
  <2>6. ASSUME NEW u \in Users, PeerCommand(u) \/ StaleRequest(u) PROVE MyRoomInv'
    BY <2>6, HaltStep
  <2> QED
    BY <1>2, <2>1, <2>2, <2>3, <2>4, <2>5, <2>6 DEF Topology
<1>3. CASE Operations
  <2>1. ASSUME NEW u \in Users, NEW res \in Resources, CheckPassword(u, res) PROVE MyRoomInv'
    BY <2>1, CheckPasswordStep
  <2>2. ASSUME NEW u \in Users, NEW res \in Resources, PrepareRead(u, res) PROVE MyRoomInv'
    BY <2>2, PrepareReadStep
  <2>3. ASSUME NEW u \in Users, PublishRead(u) PROVE MyRoomInv'
    BY <2>3, PublishReadStep
  <2>4. ASSUME NEW u \in Users, AbandonRead(u) PROVE MyRoomInv'
    BY <2>4, AbandonReadStep
  <2>5. ASSUME NEW u \in Users, \/ BeginReport(u)
                                \/ \E info \in Infos : RegisterInfoWrite(u, info)
        PROVE  MyRoomInv'
    BY <2>5, RegisterStep
  <2>6. ASSUME NEW u \in Users, CompleteInfoWrite(u) PROVE MyRoomInv'
    BY <2>6, CompleteInfoWriteStep
  <2>7. ASSUME NEW u \in Users, P2pDatagram(u) PROVE MyRoomInv'
    BY <2>7, P2pDatagramStep
  <2>8. ASSUME NEW u \in Users, CompleteReport(u) PROVE MyRoomInv'
    BY <2>8, CompleteReportStep
  <2> QED
    BY <1>3, <2>1, <2>2, <2>3, <2>4, <2>5, <2>6, <2>7, <2>8 DEF Operations
<1>4. CASE UNCHANGED vars
  BY <1>4 DEF vars, MyRoomInv, TypeOK, Present, RolesAreLive, GrantsProve, PlansProve,
              ProtectedReadIsEarned
<1> QED
  BY <1>1, <1>2, <1>3, <1>4 DEF Next

LEMMA InitIsSafe == Init => MyRoomInv
<1>1. Init => Blank
  BY Constants DEF Init, Blank
<1> QED
  BY <1>1, BlankIsSafe

(* The inductive invariant: the hub's tables are well formed and agree     *)
(* with each other and with the registry, and every password proof that a  *)
(* grant or a plan carries is the one of the policy whose revision it      *)
(* names.                                                                  *)
THEOREM MyRoomInvariant == Spec => []MyRoomInv
<1>1. Init => MyRoomInv
  BY InitIsSafe
<1>2. MyRoomInv /\ [Next]_vars => MyRoomInv'
  BY StepKeepsInv
<1> QED
  BY <1>1, <1>2, PTL DEF Spec

(* The tables of the registry, the hub and the World stay well formed, for *)
(* any number of users, seats and generations (myroom_hub.rs, world.rs).   *)
THEOREM MyRoomTypeCorrect == Spec => []TypeOK
<1>1. MyRoomInv => TypeOK
  BY DEF MyRoomInv
<1> QED
  BY <1>1, MyRoomInvariant, PTL

LEMMA InvAgrees == MyRoomInv => HubAgrees
<1> SUFFICES ASSUME MyRoomInv PROVE HubAgrees
  OBVIOUS
<1>1. PICK h : h = hub
  OBVIOUS
<1>2. Sound(h) /\ Pruned(h) /\ Cardinality(Tracked(h)) <= Capacity
  BY <1>1 DEF MyRoomInv, HubInv
<1>3. \A o \in Users : h.rooms[o] # None =>
        /\ Mapped(o, h.rooms[o]) # {}
        /\ h.rooms[o].gen = h.canon[o]
        /\ h.rooms[o].present => h.member[o] = [owner |-> o, slot |-> OWNER]
        /\ \A i \in Seats : h.rooms[o].seats[i] # None =>
             /\ h.member[h.rooms[o].seats[i].user] = [owner |-> o, slot |-> i]
             /\ h.rooms[o].seats[i].gen = h.canon[h.rooms[o].seats[i].user]
             /\ h.rooms[o].seats[i].user # o
  BY <1>2 DEF Sound, Inhabited, OneGeneration
<1>4. \A u \in Users : h.member[u] # None =>
        /\ h.rooms[h.member[u].owner] # None
        /\ u \in Audience(h, h.member[u].owner)
  <2>1. SUFFICES ASSUME NEW u \in Users, h.member[u] # None
                 PROVE  /\ h.rooms[h.member[u].owner] # None
                        /\ u \in Audience(h, h.member[u].owner)
    OBVIOUS
  <2>2. PICK m : m = h.member[u]
    OBVIOUS
  <2>3. PICK r : r = h.rooms[m.owner]
    OBVIOUS
  <2>4. r # None /\ m.slot \in Seats \union {OWNER}
    BY <1>2, <2>1, <2>2, <2>3, PlaceOf, HubPoints, PlaceParts DEF Sound
  <2>5. IF m.slot = OWNER THEN m.owner = u /\ r.present
        ELSE r.seats[m.slot] # None /\ r.seats[m.slot].user = u
    BY <1>2, <2>1, <2>2, <2>3 DEF Sound, Placed
  <2>6. u \in Mapped(m.owner, r)
    BY <2>4, <2>5, InRoom
  <2> QED
    BY <2>2, <2>3, <2>4, <2>6 DEF Audience
<1>5. \A u \in Users : h.canon[u] # None <=> HasRole(h, u)
  BY <1>2 DEF Sound, Rooted, Pruned
<1> QED
  BY <1>1, <1>2, <1>3, <1>4, <1>5 DEF HubAgrees

(* The hub's own audit never finds a fault (audit_invariants): no room is  *)
(* empty, rooms and memberships name each other, the roles of a user carry *)
(* one generation, only users with a role have one, and never more of them *)
(* than the capacity, whatever moves, leaves, releases and writes happen.  *)
THEOREM HubAlwaysAgrees == Spec => []HubAgrees
BY InvAgrees, MyRoomInvariant, PTL

(* A generation that plays a role in a room is the one the registry still  *)
(* holds for that user, or the absent owner that a visitor made from a     *)
(* profile: a release (release_identity_state) leaves no role behind.      *)
THEOREM RolesAlwaysLive == Spec => []RolesAreLive
<1>1. MyRoomInv => RolesAreLive
  BY DEF MyRoomInv
<1> QED
  BY <1>1, MyRoomInvariant, PTL

(* A protected resource is only sent to the owner, to a visitor of a room  *)
(* without item password, or to one who has proved the password that the   *)
(* room has now (publish_myroom_owner_items): neither a changed password   *)
(* nor another room lets an old proof through.                             *)
THEOREM ProtectedReadAlwaysEarned == Spec => []ProtectedReadIsEarned
<1>1. MyRoomInv => ProtectedReadIsEarned
  BY DEF MyRoomInv
<1> QED
  BY <1>1, MyRoomInvariant, PTL

(* An address in a room was made known by the generation that now plays    *)
(* the role (advance_identity, refresh_p2p_endpoint_if_tracked), and an    *)
(* absent owner has none.                                                  *)
THEOREM PortAlwaysCurrent == Spec => []PortIsCurrent
<1>1. MyRoomInv => PortIsCurrent
  BY DEF MyRoomInv, HubInv, Sound, OneGeneration, PortIsCurrent
<1> QED
  BY <1>1, MyRoomInvariant, PTL
=============================================================================

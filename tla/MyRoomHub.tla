------------------------------ MODULE MyRoomHub ------------------------------
(***************************************************************************)
(* MyRoom: the private rooms of the players (myroom_hub.rs) as the World   *)
(* actor drives them (world.rs).  A room belongs to a user, who may be in  *)
(* it, elsewhere, or not even logged in: a visitor then brings the room to *)
(* life from the owner's profile, under the reserved generation zero.  The *)
(* hub keeps its own copy of every identity that plays a role, and the     *)
(* World refuses to go on when that copy and the registry disagree.        *)
(*                                                                         *)
(* The registry is reduced to what the rooms see of it: whether a user is  *)
(* active, ownerless (moving between channels) or draining, and under      *)
(* which generation.  One actor turn is one step; the collection of        *)
(* drained identities that ends a turn is the step Flush, and no other     *)
(* turn begins before it.  A reply queue without room refuses a request    *)
(* and changes nothing.                                                    *)
(***************************************************************************)
EXTENDS Naturals, FiniteSets, FiniteSetsExt

CONSTANTS Users,
          May,        \* bound: what each user does, besides entering rooms
          None,       \* no room, place, generation, port, grant or operation
          Infos,      \* room policies: [locked, item], item 0 for no password
          Profiles,   \* the policies in the profiles at the start
          Slots,      \* VISITOR_CAPACITY
          Capacity,   \* identity_capacity of the World and of the hub
          GenMax      \* bound: the last generation a login or a move may get

OWNER == 0              \* MyRoomSlotIndex::OWNER
OFFLINE_MYROOM == 0     \* the generation of an owner who is not logged in
Seats == 1..Slots
Resources == {"items", "emblems"}
Revisions == 1..(2 * Cardinality(Users) + 2)

OrNone(S) == S \union {None}

(* What the tables hold: a visitor on a seat, a room, a user's place.      *)
Visit == [user : Users, gen : 1..GenMax, port : OrNone(1..GenMax)]
Room == [gen : 0..GenMax, port : OrNone(1..GenMax), info : Infos, rev : Revisions,
         present : BOOLEAN, seats : [Seats -> OrNone(Visit)]]
Place == [owner : Users, slot : Seats \union {OWNER}]

ASSUME MyRoomAssumption ==
    /\ IsFiniteSet(Users)
    /\ May \in [Users -> SUBSET {"login", "move", "read", "write", "report", "udp"}]
    /\ None \notin Users \union Nat \union Visit \union Room \union Place
    /\ Infos \subseteq [locked : BOOLEAN, item : Nat]
    /\ Profiles \in [Users -> Infos]
    /\ Slots \in Nat \ {0} /\ Capacity \in Nat \ {0} /\ GenMax \in Nat

VARIABLES life,      \* what the registry knows of a user
          gen,       \* the generation of a user, 0 when offline
          moving,    \* a migration permit is out
          nextGen,
          op,        \* the operation that a user's lease protects, or None
          hub,       \* rooms, member and canon: the tables of the hub
          grants,    \* pending_myroom_password_grants
          durable,   \* the room policy in each user's profile
          observed,  \* observed_p2p_ports: the generation, or 0
          reported,  \* the session's reported_p2p_port is not zero
          flushing,  \* drained identities are still to be collected
          stopped,   \* why the World actor ended, or "no"
          read       \* history: the protected resource sent by the last step

registry == <<life, gen, moving, nextGen>>
ports == <<observed, reported>>
vars == <<life, gen, moving, nextGen, op, hub, grants, durable, observed,
          reported, flushing, stopped, read>>

(* The tables of a World that nobody has logged in to.                     *)
Nobody ==
    LET all(x) == [u \in Users |-> x] IN
    [life |-> all("offline"), gen |-> all(0), moving |-> all(FALSE), op |-> all(None),
     hub |-> [rooms |-> all(None), member |-> all(None), canon |-> all(None)],
     grants |-> all(None), observed |-> all(0), reported |-> all(FALSE)]

Init == /\ life = Nobody.life /\ gen = Nobody.gen /\ moving = Nobody.moving
        /\ op = Nobody.op /\ hub = Nobody.hub /\ grants = Nobody.grants
        /\ observed = Nobody.observed /\ reported = Nobody.reported
        /\ nextGen = 1
        /\ durable = Profiles
        /\ flushing = FALSE
        /\ stopped = "no"
        /\ read = None

-----------------------------------------------------------------------------
(* The tables of the hub.                                                  *)

(* The users mapped into room r of owner o: the room's audience.           *)
Mapped(o, r) == {r.seats[i].user : i \in {j \in Seats : r.seats[j] # None}}
                    \union (IF r.present THEN {o} ELSE {})

Audience(h, o) == IF h.rooms[o] = None THEN {} ELSE Mapped(o, h.rooms[o])

HasRole(h, u) == h.member[u] # None \/ h.rooms[u] # None

Tracked(h) == {u \in Users : h.canon[u] # None}

(* push_generation_prune for the users in S.                               *)
Prune(h, S) ==
    [h EXCEPT !.canon = [u \in Users |->
        IF u \in S /\ ~HasRole(h, u) THEN None ELSE h.canon[u]]]

(* remove_participant: the owner's place stays behind, without an address. *)
RemoveParticipant(r, slot) ==
    IF slot = OWNER THEN [r EXCEPT !.present = FALSE, !.port = None]
                    ELSE [r EXCEPT !.seats[slot] = None]

(* Variant of Detach that keeps the room nobody is left in.                *)
DetachKeepsRoom(h, u) ==
    LET m == h.member[u]
        r == RemoveParticipant(h.rooms[m.owner], m.slot) IN
    [h EXCEPT !.member[u] = None, !.rooms[m.owner] = r]

(* u leaves the room it is in; a room that nobody is left in is deleted.   *)
Detach(h, u) ==
    LET m == h.member[u]
        r == RemoveParticipant(h.rooms[m.owner], m.slot) IN
    [h EXCEPT !.member[u] = None,
              !.rooms[m.owner] = IF Mapped(m.owner, r) = {} THEN None ELSE r]

NewRoom(g, info, rev) ==
    [gen |-> g, port |-> None, info |-> info, rev |-> rev, present |-> FALSE,
     seats |-> [i \in Seats |-> None]]

FreeSeats(r) == {i \in Seats : r.seats[i] = None}

(* next_slot_for finds a slot: the owner's own is always free for it.      *)
HasSlot(h, u, o) == u = o \/ (h.rooms[o] # None => FreeSeats(h.rooms[o]) # {})

(* next_slot_for, and the slot of the first visitor of a new room.         *)
NextSlot(h, u, o) ==
    IF u = o THEN OWNER
    ELSE IF h.rooms[o] = None THEN 1
    ELSE Min(FreeSeats(h.rooms[o]))

(* enter and build_enter_transition: u, known as generation g with address *)
(* port, moves to the room of owner o, known as generation og.             *)
Enter(h, u, g, port, o, og, info, rev) ==
    LET m == h.member[u]
        left == IF m = None THEN h ELSE Detach(h, u)
        slot == NextSlot(h, u, o)
        room == IF h.rooms[o] = None THEN NewRoom(og, info, rev) ELSE h.rooms[o]
        joined == IF slot = OWNER
                  THEN [room EXCEPT !.present = TRUE, !.port = port]
                  ELSE [room EXCEPT !.seats[slot] =
                                        [user |-> u, gen |-> g, port |-> port]]
        moved == [left EXCEPT !.rooms[o] = joined,
                              !.member[u] = [owner |-> o, slot |-> slot],
                              !.canon[o] = IF @ = None THEN og ELSE @] IN
    Prune([moved EXCEPT !.canon[u] = IF @ = None THEN g ELSE @],
          IF m # None /\ left.rooms[m.owner] = None THEN {m.owner} ELSE {})

(* leave.                                                                  *)
Leave(h, u) == Prune(Detach(h, u), {u, h.member[u].owner})

(* disconnect: u loses its place, and its own room closes on its visitors. *)
Disconnect(h, u) ==
    LET m == h.member[u]
        own == h.rooms[u]
        ejected == IF own = None THEN {} ELSE Mapped(u, own) \ {u}
        left == IF m # None /\ (m.owner # u \/ own = None) THEN Detach(h, u) ELSE h
        closed == [left EXCEPT !.rooms[u] = None,
                               !.member = [v \in Users |->
                                   IF v = u \/ v \in ejected THEN None ELSE @[v]]] IN
    Prune(closed, {u} \union ejected \union (IF m = None THEN {} ELSE {m.owner}))

(* Variant of Advance that hands the old generation's address on.          *)
AdvanceKeepsPort(h, u, g) ==
    LET m == h.member[u]
        seated == IF m = None \/ m.slot = OWNER THEN h.rooms
                  ELSE [h.rooms EXCEPT ![m.owner].seats[m.slot].gen = g] IN
    [h EXCEPT !.rooms = IF seated[u] = None THEN seated
                        ELSE [seated EXCEPT ![u].gen = g],
              !.canon[u] = g]

(* advance_identity: every role of u moves to generation g and loses its   *)
(* address.                                                                *)
Advance(h, u, g) ==
    LET m == h.member[u]
        seated == IF m = None \/ m.slot = OWNER THEN h.rooms
                  ELSE [h.rooms EXCEPT ![m.owner].seats[m.slot] =
                                          [user |-> u, gen |-> g, port |-> None]] IN
    [h EXCEPT !.rooms = IF seated[u] = None THEN seated
                        ELSE [seated EXCEPT ![u].gen = g, ![u].port = None],
              !.canon[u] = g]

(* refresh_p2p_endpoint_if_tracked: an absent owner stays without address. *)
SetPort(h, u, port) ==
    LET m == h.member[u] IN
    IF m = None THEN h
    ELSE IF m.slot = OWNER THEN [h EXCEPT !.rooms[u].port = port]
    ELSE [h EXCEPT !.rooms[m.owner].seats[m.slot].port = port]

(* A revision of o's policy that nothing refers to.  The counter of the    *)
(* code never returns to a value, and revisions are only compared for one  *)
(* owner: a value that nobody holds cannot be told from a new one.         *)
FreshRevision(o) ==
    LET granted == {grants[u] : u \in {v \in Users : grants[v] # None}}
        planned == {op[u].plan : u \in {v \in Users : op[v] # None /\ op[v].kind = "read"}}
        held == {x.rev : x \in {y \in granted \union planned : y.owner = o}}
    IN  Min(Revisions \ (held \union (IF hub.rooms[o] = None THEN {} ELSE {hub.rooms[o].rev})))

-----------------------------------------------------------------------------
(* The actor.                                                              *)

Drained(l, o) == {u \in Users : l[u] = "draining" /\ o[u] = None}

(* A turn begins when the last one has ended.                              *)
Turn == stopped = "no" /\ ~flushing

(* A turn ends with a flush of what has drained meanwhile.                 *)
EndTurn == /\ stopped' = "no"
           /\ flushing' = (Drained(life', op') # {})

Answered == EndTurn /\ read' = None

(* The error that ends the actor: its tables go with it.                   *)
Halt(why) == /\ life' = Nobody.life /\ gen' = Nobody.gen /\ moving' = Nobody.moving
             /\ op' = Nobody.op /\ hub' = Nobody.hub /\ grants' = Nobody.grants
             /\ observed' = Nobody.observed /\ reported' = Nobody.reported
             /\ nextGen' = 1
             /\ stopped' = why
             /\ flushing' = FALSE /\ read' = None
             /\ UNCHANGED durable

(* require_same_binding: what the hub knows of u is what the registry      *)
(* knows of u, or nothing.                                                 *)
Exact(u) == hub.canon[u] = None \/ hub.canon[u] = gen[u]

(* myroom_deliveries_from_serialized: every recipient is the active or the *)
(* ownerless generation that the room knows, or is being released now.     *)
Reachable(S, released) ==
    \A v \in S \ released : /\ life[v] \in {"active", "ownerless"}
                            /\ hub.canon[v] = gen[v]

(* Those who share a room with u.                                          *)
Peers(u) == IF hub.member[u] = None THEN {}
            ELSE Audience(hub, hub.member[u].owner) \ {u}

(* A request of u's session: the hub must know u exactly.                  *)
Request(u) == Turn /\ life[u] = "active" /\ Exact(u)

StaleRequest(u) == Turn /\ life[u] = "active" /\ ~Exact(u) /\ Halt("stale")

(* myroom_peer_command: a position or a talk for the peers; it changes     *)
(* nothing, and a peer that cannot be reached ends the actor.              *)
PeerCommand(u) == Request(u) /\ ~Reachable(Peers(u), {}) /\ Halt("audience")

-----------------------------------------------------------------------------
(* Identities come, move and go.                                           *)

(* ClaimIdentity.                                                          *)
Login(u) ==
    /\ Turn
    /\ "login" \in May[u]
    /\ life[u] = "offline"
    /\ Cardinality({v \in Users : life[v] # "offline"}) < Capacity
    /\ nextGen <= GenMax
    /\ life' = [life EXCEPT ![u] = "active"]
    /\ gen' = [gen EXCEPT ![u] = nextGen]
    /\ nextGen' = nextGen + 1
    /\ observed' = [observed EXCEPT ![u] = 0]
    /\ reported' = [reported EXCEPT ![u] = FALSE]
    /\ UNCHANGED <<moving, op, hub, grants, durable>>
    /\ Answered

(* refresh_myroom_presentation, which the client asks for after its login: *)
(* the offline owner of a room becomes the live one.                       *)
GetRider(u) ==
    /\ Turn
    /\ life[u] = "active"
    /\ hub.canon[u] = OFFLINE_MYROOM
    /\ hub' = Advance(hub, u, gen[u])
    /\ UNCHANGED <<registry, op, grants, durable, ports>>
    /\ Answered

BeginMigration(u) ==
    /\ Turn
    /\ "move" \in May[u] /\ life[u] = "active" /\ ~moving[u]
    /\ moving' = [moving EXCEPT ![u] = TRUE]
    /\ UNCHANGED <<life, gen, nextGen, op, hub, grants, durable, ports>>
    /\ Answered

(* complete_migration: the roles of u move with the identity.              *)
CompleteMigration(u) ==
    /\ Turn
    /\ moving[u] /\ op[u] = None
    /\ nextGen <= GenMax
    /\ \/ /\ Exact(u)
          /\ life' = [life EXCEPT ![u] = "active"]
          /\ gen' = [gen EXCEPT ![u] = nextGen]
          /\ moving' = [moving EXCEPT ![u] = FALSE]
          /\ nextGen' = nextGen + 1
          /\ hub' = IF HasRole(hub, u) THEN Advance(hub, u, nextGen) ELSE hub
          /\ grants' = [grants EXCEPT ![u] = None]
          /\ observed' = [observed EXCEPT ![u] = 0]
          /\ reported' = [reported EXCEPT ![u] = FALSE]
          /\ UNCHANGED <<op, durable>>
          /\ Answered
       \/ ~Exact(u) /\ Halt("stale")

(* Variant of Release for users that had no room of their own.             *)
ReleaseVisitors(S, l, m) ==
    /\ hub' = [hub EXCEPT !.member = [u \in Users |-> IF u \in S THEN None ELSE @[u]]]
    /\ life' = l /\ moving' = m
    /\ gen' = [u \in Users |-> IF u \in S THEN 0 ELSE gen[u]]
    /\ grants' = [u \in Users |-> IF u \in S THEN None ELSE grants[u]]
    /\ observed' = [u \in Users |-> IF u \in S THEN 0 ELSE observed[u]]
    /\ UNCHANGED <<nextGen, op, durable, reported>>
    /\ Answered

(* release_identity_state for the users in S together, when the registry   *)
(* turns to l and m: the hub drops their roles and tells those who stay.   *)
Release(S, l, m) ==
    LET told == UNION {Peers(u) \union Audience(hub, u) : u \in S} IN
    \/ /\ \A u \in S : Exact(u)
       /\ Reachable(told, S)
       /\ hub' = FoldSet(LAMBDA u, h : Disconnect(h, u), hub, S)
       /\ life' = l /\ moving' = m
       /\ gen' = [u \in Users |-> IF u \in S THEN 0 ELSE gen[u]]
       /\ grants' = [u \in Users |-> IF u \in S THEN None ELSE grants[u]]
       /\ observed' = [u \in Users |-> IF u \in S THEN 0 ELSE observed[u]]
       /\ UNCHANGED <<nextGen, op, durable, reported>>
       /\ Answered
    \/ (\E u \in S : ~Exact(u)) /\ Halt("stale")
    \/ (\A u \in S : Exact(u)) /\ ~Reachable(told, S) /\ Halt("audience")

(* close_session_state: the registry keeps a moving identity, keeps one    *)
(* with a live operation until that ends, and releases any other.          *)
CloseSession(u) ==
    /\ Turn
    /\ life[u] = "active"
    /\ \/ /\ moving[u] \/ op[u] # None
          /\ life' = [life EXCEPT ![u] = IF moving[u] THEN "ownerless" ELSE "draining"]
          /\ UNCHANGED <<gen, moving, nextGen, op, hub, grants, durable, ports>>
          /\ Answered
       \/ /\ ~moving[u] /\ op[u] = None
          /\ Release({u}, [life EXCEPT ![u] = "offline"], moving)

(* expire_migrations: the permits in S run out together.                   *)
ExpireMigrations(S) ==
    LET left == {u \in S : life[u] = "ownerless"}
        gone == {u \in left : op[u] = None} IN
    /\ Turn
    /\ S # {} /\ \A u \in S : moving[u]
    /\ Release(gone,
               [u \in Users |-> IF u \in gone THEN "offline"
                               ELSE IF u \in left THEN "draining" ELSE life[u]],
               [u \in Users |-> moving[u] /\ u \notin S])

(* collect_drained_identity_releases, at the end of a turn or of a tick.   *)
Flush ==
    LET gone == Drained(life, op) IN
    /\ stopped = "no"
    /\ gone # {}
    /\ Release(gone, [u \in Users |-> IF u \in gone THEN "offline" ELSE life[u]], moving)

-----------------------------------------------------------------------------
(* Entering and leaving.                                                   *)

(* The port that the session has reported; an address is abstracted to the *)
(* generation that made it known.                                          *)
SessionPort(u) == IF reported[u] THEN gen[u] ELSE None

(* enter_prunes_old_owner_generation, and the identities that are new.     *)
Prunes(u) ==
    LET m == hub.member[u] IN
    /\ m # None /\ m.owner # u
    /\ hub.member[m.owner] = None
    /\ Audience(hub, m.owner) = {u}

NewIdentities(u, o) == {v \in {u, o} : hub.canon[v] = None}

FitsCapacity(u, o) ==
    Cardinality(Tracked(hub)) + Cardinality(NewIdentities(u, o))
        - (IF Prunes(u) THEN 1 ELSE 0) <= Capacity

(* myroom_entry with the owner o resolved to generation og and policy info:*)
(* a member of the room is only told again, another user moves.  A full    *)
(* room is refused.                                                        *)
EnterRoom(u, o, og, info) ==
    LET again == hub.member[u] # None /\ hub.member[u].owner = o
        told == (IF again THEN {} ELSE Peers(u)) \union (Audience(hub, o) \ {u}) IN
    \/ /\ hub.canon[o] \notin {None, og}
       /\ Halt("stale")
    \/ /\ hub.canon[o] \in {None, og}
       /\ ~again /\ ~FitsCapacity(u, o)
       /\ HasSlot(hub, u, o)
       /\ Halt("capacity")
    \/ /\ hub.canon[o] \in {None, og}
       /\ again \/ (HasSlot(hub, u, o) /\ FitsCapacity(u, o))
       /\ \/ /\ Reachable(told, {})
             /\ hub' = IF again THEN hub
                       ELSE Enter(hub, u, gen[u], SessionPort(u), o, og, info, FreshRevision(o))
             /\ grants' = [grants EXCEPT ![u] = None]
             /\ UNCHANGED <<registry, op, durable, ports>>
             /\ Answered
          \/ ~Reachable(told, {}) /\ Halt("audience")

(* A user enters its own room: the one the hub has, or one made from its   *)
(* profile.                                                                *)
EnterOwn(u) ==
    /\ Request(u)
    /\ op[u] = None
    /\ EnterRoom(u, u, gen[u], IF hub.rooms[u] = None THEN durable[u] ELSE hub.rooms[u].info)

PresentOwner(o) == hub.rooms[o] # None /\ hub.rooms[o].present

(* resolve_direct_myroom_entry_owner: an active owner is the one the hub   *)
(* has in its room, or is made from its profile; any other owner is made   *)
(* from its profile as an offline one.  The password was the right one.    *)
EnterDirect(u, o) ==
    /\ Request(u)
    /\ u # o /\ op[u] = None
    /\ \/ life[o] = "active" /\ ~Exact(o) /\ Halt("stale")
       \/ /\ life[o] = "active" /\ Exact(o)
          /\ EnterRoom(u, o, gen[o],
                       IF PresentOwner(o) THEN hub.rooms[o].info ELSE durable[o])
       \/ life[o] # "active" /\ EnterRoom(u, o, OFFLINE_MYROOM, durable[o])

(* resolve_reenter_myroom_entry_owner, for a user that visits a room.      *)
Reenter(u) ==
    /\ Request(u)
    /\ op[u] = None
    /\ hub.member[u] # None
    /\ LET o == hub.member[u].owner IN EnterRoom(u, o, hub.rooms[o].gen, hub.rooms[o].info)

(* resolve_random_myroom_entry_owner: the scan looks at every active user; *)
(* the owner is drawn from the public rooms with their owner and a seat.   *)
EnterRandom(u) ==
    LET scanned == {c \in Users \ {u} : /\ life[c] = "active"
                                        /\ hub.member[u] # None => hub.member[u].owner # c}
        open == {c \in scanned : /\ PresentOwner(c)
                                 /\ ~hub.rooms[c].info.locked
                                 /\ FreeSeats(hub.rooms[c]) # {}} IN
    /\ Request(u)
    /\ op[u] = None
    /\ \/ (\E c \in scanned : ~Exact(c)) /\ Halt("stale")
       \/ /\ \A c \in scanned : Exact(c)
          /\ \E o \in open : EnterRoom(u, o, hub.rooms[o].gen, hub.rooms[o].info)

(* Secede, or enter_client_stage: leaving for another part of the game.    *)
LeaveRoom(u) ==
    /\ Request(u)
    /\ op[u] = None
    /\ hub.member[u] # None
    /\ \/ /\ Reachable(Peers(u), {})
          /\ hub' = Leave(hub, u)
          /\ grants' = [grants EXCEPT ![u] = None]
          /\ UNCHANGED <<registry, op, durable, ports>>
          /\ Answered
       \/ ~Reachable(Peers(u), {}) /\ Halt("audience")

-----------------------------------------------------------------------------
(* Protected resources: a password check earns a grant, a grant one plan,  *)
(* and a plan one answer, if the room is still as it was.                  *)

(* owner_resource_plan_if_member: what u sees of the room it is in.        *)
OwnerPlan(u) ==
    LET o == hub.member[u].owner
        r == hub.rooms[o] IN
    [gen |-> gen[u], owner |-> o, ogen |-> r.gen, rev |-> r.rev,
     visible |-> u = o \/ r.info.item = 0]

(* myroom_check_password with the password pw, for resource res.           *)
CheckPassword(u, res) ==
    /\ Request(u)
    /\ "read" \in May[u] /\ op[u] = None /\ hub.member[u] # None
    /\ LET plan == OwnerPlan(u)
           earned == PresentOwner(plan.owner) /\ ~plan.visible IN
       grants' = [grants EXCEPT ![u] =
                    IF earned THEN [gen |-> plan.gen, owner |-> plan.owner,
                                    ogen |-> plan.ogen, rev |-> plan.rev, res |-> res,
                                    proof |-> hub.rooms[plan.owner].info.item]
                              ELSE None]
    /\ UNCHANGED <<registry, op, hub, durable, ports>>
    /\ Answered

(* matches_resource.                                                       *)
Matches(g, res, plan) ==
    /\ g # None /\ g.res = res /\ g.gen = plan.gen
    /\ g.owner = plan.owner /\ g.ogen = plan.ogen /\ g.rev = plan.rev

(* prepare_myroom_owner_items and prepare_myroom_owner_resource: the grant *)
(* is consumed, whether it fits or not, when it is for this resource.      *)
PrepareRead(u, res) ==
    /\ Request(u)
    /\ "read" \in May[u] /\ op[u] = None /\ hub.member[u] # None
    /\ LET plan == OwnerPlan(u)
           g == grants[u]
           used == g # None /\ g.res = res /\ (res = "items" \/ ~plan.visible)
           earned == ~plan.visible /\ Matches(g, res, plan) /\ PresentOwner(plan.owner) IN
       /\ grants' = [grants EXCEPT ![u] = IF used THEN None ELSE @]
       /\ op' = [op EXCEPT ![u] =
                   IF res = "items" \/ plan.visible \/ earned
                   THEN [kind |-> "read", res |-> res, plan |-> plan, grant |-> earned,
                         proof |-> IF earned THEN g.proof ELSE 0]
                   ELSE None]
    /\ UNCHANGED <<registry, hub, durable, ports>>
    /\ Answered

(* revalidate_owner_resource_plan, and that a protected plan still has its *)
(* owner in the room.                                                      *)
Current(u) ==
    /\ hub.member[u] # None
    /\ OwnerPlan(u) = op[u].plan
    /\ op[u].grant => PresentOwner(op[u].plan.owner)

(* publish_myroom_owner_items and publish_myroom_owner_resource: the       *)
(* answer holds the resource if the plan allows it.                        *)
PublishRead(u) ==
    /\ Request(u)
    /\ op[u] # None /\ op[u].kind = "read"
    /\ op' = [op EXCEPT ![u] = None]
    /\ UNCHANGED <<registry, hub, grants, durable, ports>>
    /\ read' = IF /\ Current(u)
                  /\ op[u].plan.visible \/ op[u].grant
               THEN [by |-> u, of |-> op[u].plan.owner, proof |-> op[u].proof]
               ELSE None
    /\ EndTurn

(* The session is cancelled while it loads what the plan allows: its lease *)
(* ends outside the actor, which learns of it in its next turn.            *)
AbandonRead(u) ==
    /\ stopped = "no"
    /\ op[u] # None /\ op[u].kind = "read"
    /\ life[u] # "active"
    /\ op' = [op EXCEPT ![u] = None]
    /\ read' = None
    /\ UNCHANGED <<registry, hub, grants, durable, ports, flushing, stopped>>

-----------------------------------------------------------------------------
(* Room policy, written to the owner's profile.                            *)

(* register_myroom_info_write.                                             *)
RegisterInfoWrite(u, info) ==
    /\ Request(u)
    /\ "write" \in May[u] /\ op[u] = None
    /\ hub.member[u] = [owner |-> u, slot |-> OWNER]
    /\ op' = [op EXCEPT ![u] = [kind |-> "write", info |-> info]]
    /\ UNCHANGED <<registry, hub, grants, durable, ports>>
    /\ Answered

(* Variant of UpdateOwnerInfo that keeps the revision of the old policy.   *)
UpdateOwnerInfoSameRevision(u, info) == [hub EXCEPT !.rooms[u].info = info]

(* update_owner_info.                                                      *)
UpdateOwnerInfo(u, info) ==
    [hub EXCEPT !.rooms[u].info = info, !.rooms[u].rev = FreshRevision(u)]

(* handle_myroom_profile_completion: a write that failed is only reported; *)
(* a durable one reaches the room while the generation that asked for it   *)
(* is there, active or ownerless, and still in its own room.               *)
CompleteInfoWrite(u) ==
    /\ Turn
    /\ op[u] # None /\ op[u].kind = "write"
    /\ \/ UNCHANGED <<durable, hub>>
       \/ /\ durable' = [durable EXCEPT ![u] = op[u].info]
          /\ hub' = IF /\ life[u] \in {"active", "ownerless"}
                       /\ hub.member[u] = [owner |-> u, slot |-> OWNER]
                    THEN UpdateOwnerInfo(u, op[u].info)
                    ELSE hub
    /\ op' = [op EXCEPT ![u] = None]
    /\ UNCHANGED <<registry, grants, ports>>
    /\ Answered

-----------------------------------------------------------------------------
(* Addresses for the direct connection between players.                    *)

(* publish_active_p2p_endpoint.                                            *)
PublishPort(u) == hub' = SetPort(hub, u, gen[u])

(* dispatch_udp_ingress and record_observed_p2p_port: the first datagram   *)
(* that a generation sends makes its source port known.                    *)
P2pDatagram(u) ==
    /\ Request(u)
    /\ "udp" \in May[u]
    /\ observed[u] # gen[u]
    /\ observed' = [observed EXCEPT ![u] = gen[u]]
    /\ PublishPort(u)
    /\ UNCHANGED <<registry, op, grants, durable, reported>>
    /\ Answered

(* The report of a port, which is written to the profile first.            *)
BeginReport(u) ==
    /\ Request(u)
    /\ "report" \in May[u]
    /\ op[u] = None
    /\ op' = [op EXCEPT ![u] = [kind |-> "report"]]
    /\ UNCHANGED <<registry, hub, grants, durable, ports>>
    /\ Answered

(* handle_profile_presentation_completion: a failed write is only          *)
(* reported, and a durable one shows no address for a user who has left.   *)
CompleteReport(u) ==
    /\ Turn
    /\ op[u] # None /\ op[u].kind = "report"
    /\ \/ /\ life[u] = "active"
          /\ Exact(u)
          /\ PublishPort(u)
          /\ reported' = [reported EXCEPT ![u] = TRUE]
       \/ UNCHANGED <<hub, reported>>
    /\ op' = [op EXCEPT ![u] = None]
    /\ UNCHANGED <<registry, grants, durable, observed>>
    /\ Answered

-----------------------------------------------------------------------------
Lifecycle == \/ \E u \in Users : Login(u)
             \/ \E u \in Users : GetRider(u)
             \/ \E u \in Users : BeginMigration(u)
             \/ \E u \in Users : CompleteMigration(u)
             \/ \E u \in Users : CloseSession(u)
             \/ \E S \in SUBSET Users : ExpireMigrations(S)
             \/ Flush

Topology == \/ \E u \in Users : EnterOwn(u)
            \/ \E u \in Users : \E o \in Users : EnterDirect(u, o)
            \/ \E u \in Users : Reenter(u)
            \/ \E u \in Users : EnterRandom(u)
            \/ \E u \in Users : LeaveRoom(u)
            \/ \E u \in Users : PeerCommand(u)
            \/ \E u \in Users : StaleRequest(u)

Operations == \/ \E u \in Users : \E res \in Resources : CheckPassword(u, res)
              \/ \E u \in Users : \E res \in Resources : PrepareRead(u, res)
              \/ \E u \in Users : PublishRead(u)
              \/ \E u \in Users : AbandonRead(u)
              \/ \E u \in Users : \E info \in Infos : RegisterInfoWrite(u, info)
              \/ \E u \in Users : CompleteInfoWrite(u)
              \/ \E u \in Users : P2pDatagram(u)
              \/ \E u \in Users : BeginReport(u)
              \/ \E u \in Users : CompleteReport(u)

Next == Lifecycle \/ Topology \/ Operations

Spec == Init /\ [][Next]_vars

-----------------------------------------------------------------------------
Plan == [gen : 0..GenMax, owner : Users, ogen : 0..GenMax, rev : Revisions, visible : BOOLEAN]

(* The tables of the registry, of the hub and of the World are well formed.*)
TypeOK ==
    /\ life \in [Users -> {"offline", "active", "ownerless", "draining"}]
    /\ gen \in [Users -> 0..GenMax] /\ nextGen \in 1..(GenMax + 1)
    /\ moving \in [Users -> BOOLEAN]
    /\ op \in [Users -> OrNone([kind : {"write"}, info : Infos] \union [kind : {"report"}]
                   \union [kind : {"read"}, res : Resources, plan : Plan, grant : BOOLEAN,
                           proof : Nat])]
    /\ hub \in [rooms : [Users -> OrNone(Room)], member : [Users -> OrNone(Place)],
                 canon : [Users -> OrNone(0..GenMax)]]
    /\ grants \in [Users -> OrNone([gen : 0..GenMax, owner : Users, ogen : 0..GenMax,
                                     rev : Revisions, res : Resources, proof : Nat])]
    /\ durable \in [Users -> Infos]
    /\ observed \in [Users -> 0..GenMax] /\ reported \in [Users -> BOOLEAN]
    /\ flushing \in BOOLEAN /\ stopped \in {"no", "stale", "audience", "capacity"}
    /\ read \in OrNone([by : Users, of : Users, proof : Nat])

(* The hub's own audit (audit_invariants): no room is empty, every place   *)
(* in a room and every membership name each other, all the roles of a user *)
(* carry the one canonical generation, and only users with a role have     *)
(* one, never more than the capacity.                                      *)
HubAgrees ==
    /\ Cardinality(Tracked(hub)) <= Capacity
    /\ \A o \in Users : hub.rooms[o] # None =>
         LET r == hub.rooms[o] IN
         /\ Mapped(o, r) # {}
         /\ r.gen = hub.canon[o]
         /\ r.present => hub.member[o] = [owner |-> o, slot |-> OWNER]
         /\ \A i \in Seats : r.seats[i] # None =>
              /\ hub.member[r.seats[i].user] = [owner |-> o, slot |-> i]
              /\ r.seats[i].gen = hub.canon[r.seats[i].user]
              /\ r.seats[i].user # o
    /\ \A u \in Users : hub.member[u] # None =>
         /\ hub.rooms[hub.member[u].owner] # None
         /\ u \in Audience(hub, hub.member[u].owner)
    /\ \A u \in Users : hub.canon[u] # None <=> HasRole(hub, u)

(* The hub never outlives the registry: a generation that plays a role in  *)
(* a room is the one the registry still holds for that user, or it is the  *)
(* absent owner that a visitor made from a profile.  A released generation *)
(* has lost every role by then.                                            *)
RolesAreLive ==
    \A u \in Users : hub.canon[u] # None =>
        \/ /\ hub.canon[u] = gen[u]
           /\ life[u] # "offline"
        \/ /\ hub.canon[u] = OFFLINE_MYROOM
           /\ hub.member[u] = None

(* A protected resource is only sent to a user who is in the room at that  *)
(* moment and may see it: the owner, a visitor of a room without item      *)
(* password, or a visitor who has proved the item password that the room   *)
(* has now while its owner is there.  A password changed between check,    *)
(* plan and answer voids both.                                             *)
ProtectedReadIsEarned ==
    read # None =>
        /\ hub.member[read.by] # None
        /\ hub.member[read.by].owner = read.of
        /\ \/ read.by = read.of
           \/ hub.rooms[read.of].info.item = 0
           \/ /\ hub.rooms[read.of].info.item = read.proof
              /\ hub.rooms[read.of].present

(* An address in a room was made known by the very generation that now     *)
(* plays the role: neither a move nor a new login inherits one, and an     *)
(* absent owner has none.                                                  *)
PortIsCurrent ==
    \A o \in Users : hub.rooms[o] # None =>
        LET r == hub.rooms[o] IN
        /\ r.port # None => r.present /\ r.port = r.gen
        /\ \A i \in Seats : r.seats[i] # None /\ r.seats[i].port # None =>
             r.seats[i].port = r.seats[i].gen

(* An owner who logs in takes over the room that a visitor had opened in   *)
(* its absence: identity.rs promises that "normal login can later advance  *)
(* it", so no request meets a hub that disagrees with the registry.        *)
LoginAdvancesOfflineOwner == stopped # "stale"
=============================================================================

----------------------------- MODULE UdpEndpoints -----------------------------
(***************************************************************************)
(* The UDP sidecar (udp_state.rs, udp_runtime.rs) beside the identity      *)
(* registry: which endpoint speaks for a user on each transport, and where *)
(* relayed datagrams are sent.  The sidecar mirrors the active identities; *)
(* the World publishes every claim, move and release to it before its turn *)
(* ends, and stops when the sidecar refuses one of them                    *)
(* (flush_identity_lifecycle).  Datagrams are stamped by the readers, wait *)
(* in a bounded queue and are dispatched in a later turn of the World.     *)
(***************************************************************************)
EXTENDS IdentityRegistry

CONSTANTS Transports,   \* UdpTransport: an origin's field "on"
          Absent        \* no mirrored identity, no endpoint

ASSUME EndpointAssumption ==
    /\ Origins \subseteq [on : Transports, ip : {IpOf[s] : s \in Sessions}, port : Nat]
    /\ Absent \notin [gen : Nat, ip : {IpOf[s] : s \in Sessions}, boundary : Nat]
    /\ Absent \notin [gen : Nat, from : Origins, at : Nat, sentTo : Nat]

VARIABLES mirror,    \* active: what the sidecar knows of a user
          route,     \* game and p2p: the endpoint of a user on a transport
          refused,   \* the sidecar returned an error that stops the World
          reported   \* history: when the owner last reported a reconnect

sidecar == <<mirror, route, refused, reported>>
allVars == <<vars, sidecar>>

UdpInit == /\ Init
           /\ mirror = [n \in Names |-> Absent]
           /\ route = [t \in Transports |-> [n \in Names |-> Absent]]
           /\ refused = FALSE
           /\ reported = [n \in Names |-> 0]

-----------------------------------------------------------------------------
(* GenerationEndpointTable::release, for one user on both transports.      *)
Unrouted(r, n, g) ==
    [t \in Transports |-> [r[t] EXCEPT ![n] = IF @ # Absent /\ @.gen = g THEN Absent ELSE @]]

(* Variant of Releases that misses what had to wait for its operations.    *)
ReleasesAtOnce ==
    {[name |-> n, gen |-> gen[n]] : n \in {m \in Names : gen[m] # 0 /\ gen'[m] = 0}} \ deferred'

(* The Release events of a step: what leaves the registry for good, either *)
(* at once or when the last operation of a deferred release is over.       *)
Releases ==
    (deferred \cup {[name |-> n, gen |-> gen[n]] :
                        n \in {m \in Names : gen[m] # 0 /\ gen'[m] = 0}}) \ deferred'

(* The Announce and Advance events: a claim or the commit of a move.       *)
Arrivals == {n \in Names : gen'[n] \notin {0, gen[n]}}

(* remove_released_identity: the identities of mirror m that the releases  *)
(* of a step end; a release of an older generation ends nothing.           *)
Unmirrored(m) == {n \in Names : \E r \in Releases : /\ r.name = n
                                                    /\ m[n] # Absent
                                                    /\ m[n].gen = r.gen}
MirrorLeft(m) == [n \in Names |-> IF n \in Unmirrored(m) THEN Absent ELSE m[n]]
RoutesLeft(r) == [t \in Transports |-> [n \in Names |->
                    IF n \in Unmirrored(mirror) THEN Unrouted(r, n, mirror[n].gen)[t][n]
                                                ELSE r[t][n]]]

(* advance_identity of the sidecar, for a user it knows as m.              *)
Advanced(m, n) == IF m # Absent /\ m.gen >= gen'[n] THEN m
                  ELSE [gen |-> gen'[n], ip |-> IpOf[owner'[n]], boundary |-> 0]

(* The errors of advance_identity: another address under a generation that *)
(* is known already, or a new user when the table is full.                 *)
AdvanceRefused(left, n) ==
    \/ left[n] # Absent /\ left[n].gen = gen'[n] /\ left[n].ip # IpOf[owner'[n]]
    \/ left[n] = Absent /\ Cardinality({m \in Names : left[m] # Absent}) >= Capacity

(* flush_identity_lifecycle: the events of a turn in their order, releases *)
(* before the one arrival a turn can have.                                 *)
Publish ==
    LET left == MirrorLeft(mirror) IN
    /\ mirror' = [n \in Names |-> IF n \in Arrivals THEN Advanced(left[n], n) ELSE left[n]]
    /\ route' = RoutesLeft(route)
    /\ refused' = \E n \in Arrivals : AdvanceRefused(left, n)
    /\ reported' = [n \in Names |-> IF n \in Arrivals THEN 0 ELSE reported[n]]

(* A step of the registry, with what it publishes.                         *)
RegistryStep == ~refused /\ Step /\ Publish

-----------------------------------------------------------------------------
(* Datagrams.                                                              *)

(* A datagram that found the admission queue full, or that the registry    *)
(* does not admit.                                                         *)
DropDatagram(d) == ~refused /\ DispatchDatagram(d) /\ UNCHANGED sidecar

(* The sidecar's errors that stop the World: it does not know the user, or *)
(* knows another generation of it, or has a newer endpoint.                *)
BindRefused(d) ==
    LET m == mirror[d.name]
        r == route[d.from.on][d.name] IN
    \/ m = Absent
    \/ m.gen # gen[d.name]
    \/ r # Absent /\ r.gen > gen[d.name]

(* Variant of Binds that lets any endpoint take a user over.               *)
BindsAnyAddress(d) ==
    LET m == mirror[d.name] IN
    /\ d.from.port # 0
    /\ m.ip = IpOf[owner[d.name]]
    /\ d.at > m.boundary

(* bind_authorized_ingress_at: the source must have the owner's address    *)
(* and a stamp behind the last reconnect; within a generation the first    *)
(* endpoint wins.  Anything else is dropped.                               *)
Binds(d) ==
    LET m == mirror[d.name]
        r == route[d.from.on][d.name] IN
    /\ d.from.port # 0
    /\ m.ip = IpOf[owner[d.name]]
    /\ d.at > m.boundary
    /\ d.from.ip = m.ip
    /\ r # Absent /\ r.gen = gen[d.name] => r.from = d.from

(* dispatch_udp_ingress of an admitted datagram.                           *)
BindDatagram(d) ==
    /\ ~refused
    /\ UdpAdmitted(d)
    /\ DispatchDatagram(d)
    /\ refused' = BindRefused(d)
    /\ route' = IF ~BindRefused(d) /\ Binds(d)
                THEN [route EXCEPT ![d.from.on][d.name] =
                        [gen |-> gen[d.name], from |-> d.from, at |-> d.at,
                         sentTo |-> d.sentTo]]
                ELSE route
    /\ UNCHANGED <<mirror, reported>>

(* Variant of Rebind that clears the endpoints and sets no boundary.       *)
RebindUnfenced(s, n) ==
    /\ ~refused /\ ~quiescing /\ Authorized(s, n)
    /\ epoch < MaxEpoch
    /\ epoch' = epoch + 1
    /\ route' = Unrouted(route, n, gen[n])
    /\ reported' = [reported EXCEPT ![n] = epoch + 1]
    /\ UNCHANGED <<mirror, refused, active, bound, deferred, gates, nextGen, nextTransfer,
                   tickets, world, now, inflight>>

(* AuthorizeUdpRebind and authorize_rebind: the client reports that it has *)
(* lost its endpoint; both are forgotten, and a datagram that was received *)
(* before the report cannot claim them again.  The turn then publishes the *)
(* releases that it collects.                                              *)
Rebind(s, n) ==
    LET known == mirror[n] # Absent /\ mirror[n].gen = gen[n] /\ mirror[n].ip = IpOf[s] IN
    /\ ~refused /\ ~quiescing /\ Authorized(s, n)
    /\ epoch < MaxEpoch
    /\ epoch' = epoch + 1
    /\ UNCHANGED <<active, bound, leases, epochOf, nextGen, nextTransfer, tickets, world,
                   now, inflight>>
    /\ refused' = ~known
    /\ IF known
         THEN /\ FlushOnly
              /\ mirror' = MirrorLeft([mirror EXCEPT ![n].boundary = epoch + 1])
              /\ route' = RoutesLeft(Unrouted(route, n, gen[n]))
         ELSE UNCHANGED <<deferred, gate, mirror, route>>
    /\ reported' = [reported EXCEPT ![n] = epoch + 1]

UdpNext == \/ RegistryStep
           \/ \E d \in inflight : DropDatagram(d)
           \/ \E d \in inflight : BindDatagram(d)
           \/ \E s \in Sessions, n \in Names : Rebind(s, n)

(* The clock and the maintenance tick run, whoever holds a ticket submits  *)
(* or drops it (Drop for RegisteredMigrationPreflight), and a write is     *)
(* completed or, when its holder drops it, aborted.                        *)
UdpSpec == /\ UdpInit /\ [][UdpNext]_allVars
           /\ WF_allVars(Tick /\ Publish)
           /\ WF_allVars(ExpireMigrations /\ Publish)
           /\ WF_allVars(OtherCommand /\ Publish)
           /\ \A i \in Transfers :
                WF_allVars((\E t \in tickets : t.id = i /\ TicketNext(t)) /\ Publish)
           /\ \A n \in Names :
                WF_allVars((\E w \in writes : w.name = n /\ FinishWrite(w)) /\ Publish)

-----------------------------------------------------------------------------
(* An endpoint, as the reader stamped it.                                  *)
Endpoint == [gen : Generations, from : Origins, at : 0..MaxEpoch,
             sentTo : Generations \cup {0}]

(* The sidecar's tables are well formed.                                   *)
UdpTypeOK ==
    /\ TypeOK
    /\ mirror \in [Names -> {Absent} \cup
                    [gen : Generations, ip : {IpOf[s] : s \in Sessions}, boundary : 0..MaxEpoch]]
    /\ route \in [Transports -> [Names -> {Absent} \cup Endpoint]]
    /\ refused \in BOOLEAN
    /\ reported \in [Names -> 0..MaxEpoch]

(* current_authorized_target, as the relays ask for it: the identity that  *)
(* the registry has, if the mirror and the endpoint are of its generation. *)
Target(t, n) ==
    IF /\ gen[n] # 0 /\ owner[n] # NoSession
       /\ mirror[n] # Absent /\ mirror[n].gen = gen[n]
       /\ route[t][n] # Absent /\ route[t][n].gen = gen[n]
    THEN route[t][n] ELSE Absent

(* The sidecar accepts whatever the World publishes and dispatches: it     *)
(* never runs out of places before the World does, and never knows another *)
(* generation than the registry.  A refusal would stop the World.          *)
SidecarAgrees ==
    /\ ~refused
    /\ \A n \in Names : IF HeldBy(n) = 0 THEN mirror[n] = Absent
                        ELSE mirror[n] # Absent /\ mirror[n].gen = HeldBy(n)

(* Race traffic goes only to an endpoint that sent from the owner's own    *)
(* address, in a datagram that reached the server under this generation    *)
(* and after the owner's last report of a reconnect: neither a delayed     *)
(* datagram nor a sender elsewhere can draw it away.                       *)
RoutesAreCurrent ==
    \A t \in Transports, n \in Names : Target(t, n) # Absent =>
        LET r == Target(t, n) IN
        /\ r.from.on = t
        /\ r.from.ip = IpOf[owner[n]]
        /\ r.sentTo = gen[n]
        /\ r.at > reported[n]

(* An endpoint in use is not taken over: within one generation it changes  *)
(* only after the owner has reported a reconnect.                          *)
RouteIsStable ==
    [][\A t \in Transports, n \in Names :
          LET r == Target(t, n) r2 == Target(t, n)' IN
          r # Absent /\ r2 # Absent /\ gen'[n] = gen[n] /\ reported'[n] = reported[n]
             => r2.from = r.from]_allVars
=============================================================================

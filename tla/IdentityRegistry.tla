-------------------------- MODULE IdentityRegistry --------------------------
(***************************************************************************)
(* The identity registry (identity.rs) as the World actor drives it        *)
(* (world.rs): who owns a nickname, under which generation, and how a      *)
(* client that moves between channels carries its nickname to a new        *)
(* socket.  One actor turn is one step and ends, as in the code, with the  *)
(* collection of drained releases (flush_identity_lifecycle).  Leases are  *)
(* dropped, sockets receive datagrams, and tickets wait outside the actor. *)
(*                                                                         *)
(* A nickname stands for its stable user number as well; a token stands    *)
(* for the channel id and the token that a moving client must present.     *)
(***************************************************************************)
EXTENDS Naturals, FiniteSets

CONSTANTS Names, Sessions, Tokens,
          NoSession,     \* the owner of an identity whose socket is gone
          NoName,        \* the name of an unauthenticated session
          NoPermit,      \* no migration permit
          IpOf,          \* IpOf[s]: the peer address of session s
          Capacity,      \* identity_capacity
          GenMax,        \* u64::MAX for generations
          TransferMax,   \* u64::MAX for transfer ids; also the RETIRED word
          MaxLeases,     \* bound on the operations of one generation
          MaxNow,        \* the last instant the clock can represent
          TTL,           \* MIGRATION_TTL
          Origins,       \* the transports and source endpoints of datagrams
          MaxEpoch       \* bound: no datagram is received beyond this stamp

ASSUME RegistryAssumption ==
    /\ NoSession \notin Sessions /\ NoName \notin Names
    /\ GenMax \in Nat \ {0} /\ TransferMax \in Nat \ {0}
    /\ MaxLeases \in Nat /\ MaxNow \in Nat /\ TTL \in Nat \ {0}
    /\ Capacity \in Nat /\ MaxEpoch \in Nat

OPEN == 0
RETIRED == TransferMax
Generations == 1..(GenMax - 1)
Transfers == 1..(TransferMax - 1)

VARIABLES gen,       \* gen[n]: generation of the active identity n, 0 for none
          owner,     \* its owning session, or NoSession
          permit,    \* its migration permit, or NoPermit
          transfer,  \* transfer_in_progress: a transfer id, or 0
          bound,     \* session_bindings: the name and generation of a session
          deferred,  \* deferred_releases
          gate,      \* the state word of each generation's operation gate
          leases,    \* the lease count of each generation's operation gate
          epochOf,   \* activated_udp_epoch of each generation's gate
          nextGen, nextTransfer,
          tickets,   \* preflights held by tasks outside the actor
          writes,    \* pending_rider_equipment_writes
          closed,    \* sessions that have left the World's sessions
          quiescing, \* the World refuses new work
          now,       \* the clock
          epoch,     \* the UDP arrival clock
          inflight   \* received datagrams that wait for the actor

active == <<gen, owner, permit, transfer>>
gates == <<gate, leases, epochOf>>
world == <<writes, closed, quiescing>>
udp == <<epoch, inflight>>
vars == <<gen, owner, permit, transfer, bound, deferred, gate, leases, epochOf,
          nextGen, nextTransfer, tickets, writes, closed, quiescing, now, epoch, inflight>>

Unbound == [name |-> NoName, gen |-> 0]

Init == /\ gen = [n \in Names |-> 0]
        /\ owner = [n \in Names |-> NoSession]
        /\ permit = [n \in Names |-> NoPermit]
        /\ transfer = [n \in Names |-> 0]
        /\ bound = [s \in Sessions |-> Unbound]
        /\ deferred = {}
        /\ gate = [g \in Generations |-> OPEN]
        /\ leases = [g \in Generations |-> 0]
        /\ epochOf = [g \in Generations |-> 0]
        /\ nextGen = 1 /\ nextTransfer = 1
        /\ tickets = {}
        /\ writes = {}
        /\ closed = {}
        /\ quiescing = FALSE
        /\ now = 0
        /\ epoch = 0
        /\ inflight = {}

-----------------------------------------------------------------------------
(* authorize: session s speaks for n with the current generation.          *)
Authorized(s, n) == /\ bound[s].name = n
                    /\ gen[n] # 0
                    /\ owner[n] = s
                    /\ gen[n] = bound[s].gen
                    /\ transfer[n] = 0

(* Variant of Flush that never looks at the deferred releases again.       *)
FlushForgetful(d, g) == /\ deferred' = d
                        /\ gate' = g

(* collect_drained_releases, which ends the actor's turn: the releases in  *)
(* d whose last lease is gone retire their gate.                           *)
Flush(d, g) ==
    LET drained == {r \in d : leases'[r.gen] = 0} IN
    /\ deferred' = d \ drained
    /\ gate' = [h \in Generations |->
                  IF \E r \in drained : r.gen = h THEN RETIRED ELSE g[h]]

FlushOnly == Flush(deferred, gate)

-----------------------------------------------------------------------------
(* Variant of Claim that overlooks a name whose last owner still drains.   *)
ClaimDraining(s, n) ==
    /\ ~quiescing /\ s \notin closed /\ bound[s] = Unbound
    /\ gen[n] = 0 /\ nextGen < GenMax
    /\ gen' = [gen EXCEPT ![n] = nextGen]
    /\ owner' = [owner EXCEPT ![n] = s]
    /\ bound' = [bound EXCEPT ![s] = [name |-> n, gen |-> nextGen]]
    /\ epochOf' = [epochOf EXCEPT ![nextGen] = epoch + 1]
    /\ epoch' = epoch + 1 /\ nextGen' = nextGen + 1
    /\ UNCHANGED leases /\ FlushOnly
    /\ UNCHANGED <<permit, transfer, nextTransfer, tickets, world, now, inflight>>

(* ClaimIdentity: flush, advance the arrival clock, check the capacity and *)
(* claim_at.  A name is taken while it is active or still draining.        *)
Claim(s, n) ==
    LET waiting == {d \in deferred : leases[d.gen] # 0} IN
    /\ ~quiescing
    /\ s \notin closed
    /\ bound[s] = Unbound
    /\ gen[n] = 0
    /\ \A d \in waiting : d.name # n
    /\ Cardinality({m \in Names : gen[m] # 0}) + Cardinality(waiting) < Capacity
    /\ nextGen < GenMax
    /\ gen' = [gen EXCEPT ![n] = nextGen]
    /\ owner' = [owner EXCEPT ![n] = s]
    /\ bound' = [bound EXCEPT ![s] = [name |-> n, gen |-> nextGen]]
    /\ epochOf' = [epochOf EXCEPT ![nextGen] = epoch + 1]
    /\ epoch' = epoch + 1
    /\ nextGen' = nextGen + 1
    /\ UNCHANGED leases
    /\ FlushOnly
    /\ UNCHANGED <<permit, transfer, nextTransfer, tickets, world, now, inflight>>

(* A refused claim has advanced the arrival clock all the same.            *)
RefuseClaim(s, n) ==
    LET waiting == {d \in deferred : leases[d.gen] # 0} IN
    /\ ~quiescing
    /\ \/ s \in closed
       \/ bound[s] # Unbound
       \/ gen[n] # 0
       \/ \E d \in waiting : d.name = n
       \/ Cardinality({m \in Names : gen[m] # 0}) + Cardinality(waiting) >= Capacity
       \/ nextGen >= GenMax
    /\ epoch < MaxEpoch
    /\ epoch' = epoch + 1
    /\ UNCHANGED leases
    /\ FlushOnly
    /\ UNCHANGED <<active, bound, epochOf, nextGen, nextTransfer, tickets, world, now, inflight>>

(* AdmitIdentityOperation: one lease under the exact current generation.   *)
AdmitOperation(s, n) ==
    /\ ~quiescing
    /\ Authorized(s, n)
    /\ gate[gen[n]] = OPEN
    /\ leases[gen[n]] < MaxLeases
    /\ leases' = [leases EXCEPT ![gen[n]] = @ + 1]
    /\ FlushOnly
    /\ UNCHANGED <<active, bound, epochOf, nextGen, nextTransfer, tickets, world, now, udp>>

(* IdentityOperationLease::try_retain and Drop, outside the actor.         *)
RetainLease(g) ==
    /\ leases[g] \in 1..(MaxLeases - 1)
    /\ gate[g] # RETIRED
    /\ leases' = [leases EXCEPT ![g] = @ + 1]
    /\ UNCHANGED <<active, bound, deferred, gate, epochOf, nextGen, nextTransfer,
                   tickets, world, now, udp>>

DropLease(g) ==
    /\ leases[g] > 0
    /\ leases' = [leases EXCEPT ![g] = @ - 1]
    /\ UNCHANGED <<active, bound, deferred, gate, epochOf, nextGen, nextTransfer,
                   tickets, world, now, udp>>

-----------------------------------------------------------------------------
(* begin_migration: replace the permit of the current generation.          *)
BeginMigration(s, n, token) ==
    /\ ~quiescing
    /\ Authorized(s, n)
    /\ now + TTL <= MaxNow
    /\ permit' = [permit EXCEPT ![n] = [gen |-> gen[n], source |-> s, token |-> token,
                                        expires |-> now + TTL]]
    /\ UNCHANGED leases
    /\ FlushOnly
    /\ UNCHANGED <<gen, owner, transfer, bound, epochOf, nextGen, nextTransfer, tickets,
                   world, now, udp>>

(* validate_migration: session d presents token for n.                     *)
Valid(d, n, token) ==
    /\ bound[d] = Unbound
    /\ gen[n] # 0
    /\ permit[n] # NoPermit
    /\ now < permit[n].expires
    /\ permit[n].token = token
    /\ IpOf[permit[n].source] = IpOf[d]
    /\ permit[n].gen = gen[n]
    /\ owner[n] \in {NoSession, permit[n].source}

(* preflight_migration: freeze the source generation under a new id.  The  *)
(* compare-exchange cannot fail while no transfer is marked: FreezeAgrees. *)
PreflightMigration(d, n, token) ==
    /\ ~quiescing
    /\ d \notin closed
    /\ Valid(d, n, token)
    /\ transfer[n] = 0
    /\ nextTransfer < TransferMax
    /\ nextTransfer' = nextTransfer + 1
    /\ gate[gen[n]] = OPEN
    /\ tickets' = tickets \cup {[id |-> nextTransfer, dest |-> d, name |-> n,
                                 permit |-> permit[n]]}
    /\ transfer' = [transfer EXCEPT ![n] = nextTransfer]
    /\ UNCHANGED leases
    /\ Flush(deferred, [gate EXCEPT ![gen[n]] = nextTransfer])
    /\ UNCHANGED <<gen, owner, permit, bound, epochOf, nextGen, world, now, udp>>

(* The ticket still names the exact freeze (abort_preflighted_migration).  *)
Current(t) == /\ gen[t.name] = t.permit.gen
              /\ transfer[t.name] = t.id
              /\ permit[t.name] = t.permit
              /\ gate[t.permit.gen] = t.id

(* validate_preflighted_migration: everything a commit needs.              *)
Committable(t) == /\ Valid(t.dest, t.name, t.permit.token)
                  /\ Current(t)
                  /\ leases[t.permit.gen] = 0
                  /\ nextGen < GenMax

(* abort_preflighted_migration: a stale ticket reopens nothing.            *)
Reopen(t) ==
    /\ tickets' = tickets \ {t}
    /\ UNCHANGED leases
    /\ IF Current(t)
         THEN /\ transfer' = [transfer EXCEPT ![t.name] = 0]
              /\ Flush(deferred, [gate EXCEPT ![t.permit.gen] = OPEN])
         ELSE UNCHANGED transfer /\ FlushOnly

(* The ticket was dropped, or submitted and refused before a generation    *)
(* was allocated.                                                          *)
AbortMigration(t) ==
    /\ t \in tickets
    /\ Reopen(t)
    /\ UNCHANGED <<gen, owner, permit, bound, epochOf, nextGen, nextTransfer, world, now, udp>>

(* A room, MyRoom or outbound reservation failed after the replacement     *)
(* generation was allocated: the generation is burnt.                      *)
PrepareFails(t) ==
    /\ t \in tickets
    /\ t.dest \notin closed
    /\ Committable(t)
    /\ nextGen' = nextGen + 1
    /\ Reopen(t)
    /\ UNCHANGED <<gen, owner, permit, bound, epochOf, nextTransfer, world, now, udp>>

(* Prepare, lock, acknowledge and commit in one actor turn: the destination*)
(* owns the name under a new generation and the old gate is retired.       *)
CommitMigration(t) ==
    /\ t \in tickets
    /\ t.dest \notin closed
    /\ Committable(t)
    /\ gen' = [gen EXCEPT ![t.name] = nextGen]
    /\ owner' = [owner EXCEPT ![t.name] = t.dest]
    /\ permit' = [permit EXCEPT ![t.name] = NoPermit]
    /\ transfer' = [transfer EXCEPT ![t.name] = 0]
    /\ bound' = [bound EXCEPT ![t.dest] = [name |-> t.name, gen |-> nextGen]]
    /\ epochOf' = [epochOf EXCEPT ![nextGen] = epoch + 1]
    /\ epoch' = epoch + 1
    /\ nextGen' = nextGen + 1
    /\ tickets' = tickets \ {t}
    /\ UNCHANGED leases
    /\ Flush(deferred, [gate EXCEPT ![t.permit.gen] = RETIRED])
    /\ UNCHANGED <<nextTransfer, world, now, inflight>>

-----------------------------------------------------------------------------
(* Drop the active entries of the names in R and release or defer them;    *)
(* a freeze on one of them is lifted first.                                *)
Remove(R, g) ==
    /\ gen' = [n \in Names |-> IF n \in R THEN 0 ELSE gen[n]]
    /\ owner' = [n \in Names |-> IF n \in R THEN NoSession ELSE owner[n]]
    /\ UNCHANGED leases
    /\ Flush(deferred \cup {[name |-> n, gen |-> gen[n]] : n \in R}, g)

Frozen(n) == transfer[n] # 0 /\ gate[gen[n]] = transfer[n]
Thawed(R) == [g \in Generations |->
                IF \E n \in R : gen[n] = g /\ Frozen(n) THEN OPEN ELSE gate[g]]

(* Variant of EndSession that lets a stale session release its name.       *)
EndSessionStale(s) ==
    LET n == bound[s].name IN
    /\ closed' = closed \cup {s}
    /\ bound' = [bound EXCEPT ![s] = Unbound]
    /\ IF n = NoName \/ (n # NoName => gen[n] = 0)
         THEN /\ UNCHANGED <<active, leases>>
              /\ FlushOnly
         ELSE /\ permit' = [permit EXCEPT ![n] = NoPermit]
              /\ transfer' = [transfer EXCEPT ![n] = 0]
              /\ Remove({n}, Thawed({n}))
    /\ UNCHANGED <<epochOf, nextGen, nextTransfer, tickets, quiescing, now, udp>>

(* close_session and disconnect: only the exact current owner affects the  *)
(* identity, and a usable permit keeps it alive without an owner.          *)
EndSession(s) ==
    LET n == bound[s].name
        owns == n # NoName /\ (n # NoName => owner[n] = s /\ gen[n] = bound[s].gen)
        deferrable == owns /\ (owns => permit[n] # NoPermit /\ permit[n].expires > now) IN
    /\ closed' = closed \cup {s}
    /\ bound' = [bound EXCEPT ![s] = Unbound]
    /\ IF ~owns
         THEN UNCHANGED <<active, leases>> /\ FlushOnly
         ELSE IF deferrable
         THEN /\ owner' = [owner EXCEPT ![n] = NoSession]
              /\ UNCHANGED <<gen, permit, transfer, leases>>
              /\ FlushOnly
         ELSE /\ permit' = [permit EXCEPT ![n] = NoPermit]
              /\ transfer' = [transfer EXCEPT ![n] = 0]
              /\ Remove({n}, Thawed({n}))
    /\ UNCHANGED <<epochOf, nextGen, nextTransfer, tickets, quiescing, now, udp>>

(* SessionClosed, and a session whose outbound queue is full (deliver).    *)
CloseSession(s) ==
    /\ s \notin closed
    /\ \A w \in writes : w.owner # s
    /\ EndSession(s)
    /\ UNCHANGED writes

(* defer_session_close_for_rider_equipment: with its equipment write on    *)
(* the way the session leaves the table, and its identity stays.           *)
DeferClose(s) ==
    /\ s \notin closed
    /\ \E w \in writes : w.owner = s
    /\ closed' = closed \cup {s}
    /\ writes' = {IF w.owner = s THEN [w EXCEPT !.closing = TRUE] ELSE w : w \in writes}
    /\ UNCHANGED <<active, bound, deferred, gates, nextGen, nextTransfer, tickets,
                   quiescing, now, udp>>

(* register_rider_equipment_write: one write per user, for the session of  *)
(* an admitted operation.  The turn collects nothing.  Left out is a write *)
(* that its operation registers after the end of the session: it can close *)
(* nothing, and only keeps the user from registering another.              *)
RegisterWrite(s, n) ==
    /\ ~quiescing
    /\ bound[s].name = n
    /\ leases[bound[s].gen] # 0
    /\ \A w \in writes : w.name # n
    /\ writes' = writes \cup {[name |-> n, owner |-> s, closing |-> FALSE]}
    /\ UNCHANGED <<active, bound, deferred, gates, nextGen, nextTransfer, tickets,
                   closed, quiescing, now, udp>>

(* Variant of FinishWrite that forgets the session that waits for it.      *)
FinishWriteForgetful(w) ==
    /\ w \in writes
    /\ writes' = writes \ {w}
    /\ UNCHANGED <<active, bound, leases, epochOf, nextGen, nextTransfer, tickets,
                   closed, quiescing, now, udp>>
    /\ FlushOnly

(* handle_rider_equipment_profile_completion: the write was done, failed   *)
(* or never submitted; finish_deferred_equipment_close then closes the     *)
(* session that waits for it.                                              *)
FinishWrite(w) ==
    /\ w \in writes
    /\ writes' = writes \ {w}
    /\ IF w.closing
         THEN EndSession(w.owner)
         ELSE /\ UNCHANGED <<active, bound, leases, epochOf, nextGen, nextTransfer,
                             tickets, closed, quiescing, now, udp>>
              /\ FlushOnly

(* expire_migrations: due permits go, their freezes are lifted and their   *)
(* ownerless identities removed.                                           *)
Expire(due) ==
    /\ permit' = [n \in Names |-> IF n \in due THEN NoPermit ELSE permit[n]]
    /\ transfer' = [n \in Names |-> IF n \in due /\ Frozen(n) THEN 0 ELSE transfer[n]]
    /\ Remove({n \in due : owner[n] = NoSession}, Thawed(due))
    /\ UNCHANGED <<bound, epochOf, nextGen, nextTransfer, tickets, world, now, udp>>

DueBy(deadline) == {n \in Names : permit[n] # NoPermit /\ deadline >= permit[n].expires}

(* The actor's one-second maintenance tick.                                *)
ExpireMigrations == ~quiescing /\ Expire(DueBy(now))

(* Every other command of the actor (authorize, lobby, race, queries) ends *)
(* with the same collection.                                               *)
OtherCommand ==
    /\ UNCHANGED leases
    /\ FlushOnly
    /\ UNCHANGED <<active, bound, epochOf, nextGen, nextTransfer, tickets, world, now, udp>>

-----------------------------------------------------------------------------
Quiesce ==
    /\ ~quiescing
    /\ quiescing' = TRUE
    /\ UNCHANGED leases
    /\ FlushOnly
    /\ UNCHANGED <<active, bound, epochOf, nextGen, nextTransfer, tickets, writes, closed,
                   now, udp>>

(* drain_outbound_producers_once expires every permit in advance.          *)
DrainOutboundProducers == quiescing /\ Expire(DueBy(now + TTL))

(* drain_sessions_for_shutdown and drain_active: refused while any         *)
(* operation is outstanding, else every binding is revoked at once.        *)
DrainSessions ==
    /\ quiescing
    /\ \A g \in Generations : leases[g] = 0
    /\ closed' = Sessions
    /\ bound' = [s \in Sessions |-> Unbound]
    /\ permit' = [n \in Names |-> NoPermit]
    /\ transfer' = [n \in Names |-> 0]
    /\ Remove({n \in Names : gen[n] # 0}, gate)
    /\ UNCHANGED <<epochOf, nextGen, nextTransfer, tickets, writes, quiescing, now, udp>>

-----------------------------------------------------------------------------
(* A UDP reader stamps a datagram for n; the generation that holds n then  *)
(* is recorded to state what the stamp is for.                             *)
ReceiveDatagram(n, from) ==
    /\ epoch < MaxEpoch
    /\ epoch' = epoch + 1
    /\ inflight' = inflight \cup {[name |-> n, from |-> from, at |-> epoch + 1,
                                   sentTo |-> gen[n]]}
    /\ UNCHANGED <<active, bound, deferred, gates, nextGen, nextTransfer, tickets,
                   world, now>>

(* admit_udp_operation.                                                    *)
UdpAdmitted(d) == /\ gen[d.name] # 0
                  /\ owner[d.name] # NoSession
                  /\ transfer[d.name] = 0
                  /\ d.at > epochOf[gen[d.name]]
                  /\ gate[gen[d.name]] = OPEN

(* A datagram leaves the queue: it found no room there, was not admitted,  *)
(* or was dispatched (UdpEndpoints).  Its lease lives for that turn only.  *)
DispatchDatagram(d) ==
    /\ d \in inflight
    /\ inflight' = inflight \ {d}
    /\ UNCHANGED <<active, bound, deferred, gates, nextGen, nextTransfer, tickets,
                   world, now, epoch>>

Tick == /\ now < MaxNow
        /\ now' = now + 1
        /\ UNCHANGED <<active, bound, deferred, gates, nextGen, nextTransfer, tickets,
                       world, udp>>

-----------------------------------------------------------------------------
TicketNext(t) == AbortMigration(t) \/ PrepareFails(t) \/ CommitMigration(t)

Step == \/ \E s \in Sessions, n \in Names :
              \/ Claim(s, n) \/ RefuseClaim(s, n)
              \/ AdmitOperation(s, n) \/ RegisterWrite(s, n)
              \/ \E token \in Tokens : \/ BeginMigration(s, n, token)
                                       \/ PreflightMigration(s, n, token)
        \/ \E s \in Sessions : CloseSession(s) \/ DeferClose(s)
        \/ \E w \in writes : FinishWrite(w)
        \/ \E t \in tickets : TicketNext(t)
        \/ \E g \in Generations : RetainLease(g) \/ DropLease(g)
        \/ ExpireMigrations \/ OtherCommand
        \/ Quiesce \/ DrainOutboundProducers \/ DrainSessions
        \/ \E n \in Names, from \in Origins : ReceiveDatagram(n, from)
        \/ Tick

Next == Step \/ \E d \in inflight : DispatchDatagram(d)

Spec == Init /\ [][Next]_vars

-----------------------------------------------------------------------------
Permit == [gen : Generations, source : Sessions, token : Tokens, expires : 0..MaxNow]

Writing == [name : Names, owner : Sessions, closing : BOOLEAN]

(* Tables and counters are well formed.                                    *)
TypeOK ==
    /\ gen \in [Names -> Generations \cup {0}]
    /\ owner \in [Names -> Sessions \cup {NoSession}]
    /\ permit \in [Names -> Permit \cup {NoPermit}]
    /\ transfer \in [Names -> Transfers \cup {0}]
    /\ bound \in [Sessions -> [name : Names \cup {NoName}, gen : Generations \cup {0}]]
    /\ deferred \in SUBSET [name : Names, gen : Generations]
    /\ gate \in [Generations -> 0..TransferMax]
    /\ leases \in [Generations -> 0..MaxLeases]
    /\ epochOf \in [Generations -> Nat]
    /\ nextGen \in 1..GenMax /\ nextTransfer \in 1..TransferMax
    /\ tickets \in SUBSET [id : Transfers, dest : Sessions, name : Names, permit : Permit]
    /\ writes \in SUBSET Writing /\ closed \in SUBSET Sessions
    /\ quiescing \in BOOLEAN
    /\ now \in 0..MaxNow
    /\ epoch \in Nat
    /\ inflight \in SUBSET [name : Names, from : Origins, at : Nat,
                           sentTo : Generations \cup {0}]

(* The owner recorded for a name is indexed back to the same name and      *)
(* generation: a socket that lost its name to a migration can neither act  *)
(* for it nor release it.                                                  *)
IndexAgrees ==
    \A n \in Names : owner[n] # NoSession =>
        gen[n] # 0 /\ bound[owner[n]] = [name |-> n, gen |-> gen[n]]

(* A session that has left the World is bound to a name only while its     *)
(* equipment write, which will close it, is on the way: no name is held by *)
(* a session that is gone and that nobody will close.                      *)
ClosesWait ==
    \A s \in closed : bound[s] # Unbound =>
        \E w \in writes : w.owner = s /\ w.name = bound[s].name /\ w.closing

(* An owner loses its name only when it closes itself or when a client     *)
(* presents the permit that this very owner asked for: the late close of a *)
(* socket that has already moved on takes nothing from its successor.      *)
OwnerKeepsName ==
    [][\A n \in Names : owner[n] # NoSession /\ owner'[n] # owner[n] =>
          \/ owner[n] \in closed'
          \/ /\ owner'[n] # NoSession
             /\ permit[n] # NoPermit
             /\ permit[n].source = owner[n]]_vars

(* The gate's state word and transfer_in_progress never disagree, no       *)
(* transfer id is taken for RETIRED, and a freeze always has both ends     *)
(* that can lift it: the permit that expires and exactly the ticket that   *)
(* commits or aborts it.                                                   *)
FreezeAgrees ==
    \A n \in Names : gen[n] # 0 =>
        /\ transfer[n] = gate[gen[n]] /\ gate[gen[n]] # RETIRED
        /\ transfer[n] # 0 =>
              /\ permit[n] # NoPermit
              /\ Cardinality({t \in tickets : Current(t) /\ t.name = n}) = 1

(* Names, sockets, writes, gates, permits and tickets tell one story: who  *)
(* owns a name, for how long, and whether it is frozen.                    *)
RegistryAgrees == IndexAgrees /\ ClosesWait /\ FreezeAgrees

(* The registry keeps the promise of IdentityOwnership.                    *)
HeldBy(n) == IF gen[n] # 0 THEN gen[n]
             ELSE IF \E d \in deferred : d.name = n
                  THEN (CHOOSE d \in deferred : d.name = n).gen
                  ELSE 0

Ownership == INSTANCE IdentityOwnership WITH
    held    <- [n \in Names |-> HeldBy(n)],
    running <- [n \in Names |-> IF HeldBy(n) = 0 THEN 0 ELSE leases[HeldBy(n)]],
    fresh   <- nextGen

KeepsOwnership == Ownership!Spec

(* A nickname is never blocked for ever.  A frozen identity is thawed:     *)
(* committed, aborted or expired; one that lost its socket in the middle   *)
(* of a channel move is taken over or released; a session whose close had  *)
(* to wait gives its name up; and a deferred release whose last operation  *)
(* is over is collected.  Transfer ids, generations and sessions are never *)
(* used again, so each such hold ends if there is always a later moment    *)
(* without one.                                                            *)
MigrationsEnd == \A n \in Names :
    /\ []<>(transfer[n] = 0)
    /\ []<>(gen[n] = 0 \/ owner[n] # NoSession \/ quiescing)
    /\ []<>(owner[n] \notin closed)
    /\ []<>(\A d \in deferred : d.name = n => leases[d.gen] # 0)
=============================================================================

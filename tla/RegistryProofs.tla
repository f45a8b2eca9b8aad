---------------------------- MODULE RegistryProofs ----------------------------
(***************************************************************************)
(* Proofs about IdentityRegistry for any names, sessions and limits: the   *)
(* tables agree with each other, an owner keeps its name, and the registry *)
(* implements IdentityOwnership.  And about UdpEndpoints, which adds the   *)
(* World's view of the sockets to the registry, for any number of users,   *)
(* sockets, ports and datagrams in flight: the sidecar never refuses what  *)
(* the World publishes or dispatches, a relay goes only where the present  *)
(* owner has sent from, and an endpoint in use is not taken over.          *)
(***************************************************************************)
EXTENDS UdpEndpoints, FiniteSetTheorems, TLAPS

-----------------------------------------------------------------------------
(* Types.                                                                  *)

Released == [name : Names, gen : Generations]
Preflight == [id : Transfers, dest : Sessions, name : Names, permit : Permit]

LEMMA Bounds ==
    /\ GenMax \in Nat \ {0} /\ TransferMax \in Nat \ {0} /\ MaxLeases \in Nat
    /\ MaxNow \in Nat /\ TTL \in Nat \ {0}
    /\ NoSession \notin Sessions /\ NoName \notin Names
    /\ Generations \subseteq Nat /\ 0 \notin Generations
    /\ \A g \in Nat : g \in Generations <=> 1 <= g /\ g < GenMax
    /\ \A i \in Nat : i \in Transfers <=> 1 <= i /\ i < TransferMax
    /\ Transfers \subseteq Nat
BY RegistryAssumption DEF RegistryAssumption, Generations, Transfers

LEMMA GenerationsAreNumbers == \A g \in Generations \cup {0} : g \in Nat
BY Bounds

LEMMA FlushTypes ==
    ASSUME NEW d \in SUBSET Released, NEW g \in [Generations -> 0..TransferMax], Flush(d, g)
    PROVE  deferred' \in SUBSET Released /\ gate' \in [Generations -> 0..TransferMax]
BY Bounds DEF Flush, RETIRED

LEMMA RemoveTypes ==
    ASSUME TypeOK, NEW R \in SUBSET {n \in Names : gen[n] # 0},
           NEW g \in [Generations -> 0..TransferMax], Remove(R, g)
    PROVE  /\ gen' \in [Names -> Generations \cup {0}]
           /\ owner' \in [Names -> Sessions \cup {NoSession}]
           /\ deferred' \in SUBSET Released /\ gate' \in [Generations -> 0..TransferMax]
           /\ leases' = leases
<1> DEFINE d == deferred \cup {[name |-> n, gen |-> gen[n]] : n \in R}
<1>1. d \in SUBSET Released
  BY DEF TypeOK, Released
<1>2. Flush(d, g) /\ leases' = leases
  BY DEF Remove
<1> HIDE DEF d
<1>3. deferred' \in SUBSET Released /\ gate' \in [Generations -> 0..TransferMax]
  BY <1>1, <1>2, FlushTypes
<1> QED
  BY <1>2, <1>3 DEF Remove, TypeOK

LEMMA ThawedTypes ==
    ASSUME TypeOK, NEW R
    PROVE  Thawed(R) \in [Generations -> 0..TransferMax]
BY Bounds DEF Thawed, TypeOK, OPEN

(* The types that a turn leaves alone when it only collects releases.      *)
LEMMA FlushOnlyTypes ==
    ASSUME TypeOK, FlushOnly
    PROVE  deferred' \in SUBSET Released /\ gate' \in [Generations -> 0..TransferMax]
BY FlushTypes DEF FlushOnly, TypeOK, Released

(* An identity that is not active has neither owner, permit nor freeze.    *)
Idle == \A n \in Names : gen[n] = 0 =>
            owner[n] = NoSession /\ permit[n] = NoPermit /\ transfer[n] = 0

LEMMA ReopenTypes ==
    ASSUME TypeOK, NEW t \in tickets, Reopen(t)
    PROVE  /\ deferred' \in SUBSET Released /\ gate' \in [Generations -> 0..TransferMax]
           /\ tickets' \in SUBSET Preflight /\ transfer' \in [Names -> Transfers \cup {0}]
           /\ leases' = leases
<1>1. t.permit.gen \in Generations /\ t.name \in Names
  BY DEF TypeOK, Permit
<1>2. [gate EXCEPT ![t.permit.gen] = OPEN] \in [Generations -> 0..TransferMax]
  BY <1>1, Bounds DEF TypeOK, OPEN
<1>3. deferred \in SUBSET Released /\ gate \in [Generations -> 0..TransferMax]
  BY DEF TypeOK, Released
<1>4. tickets' \in SUBSET Preflight /\ leases' = leases
  BY DEF Reopen, TypeOK, Preflight
<1>5. CASE Current(t)
  <2>1. transfer' = [transfer EXCEPT ![t.name] = 0]
        /\ Flush(deferred, [gate EXCEPT ![t.permit.gen] = OPEN])
    BY <1>5 DEF Reopen
  <2>2. transfer' \in [Names -> Transfers \cup {0}]
    BY <1>1, <2>1 DEF TypeOK
  <2> QED
    BY <1>2, <1>3, <1>4, <2>1, <2>2, FlushTypes
<1>6. CASE ~Current(t)
  <2>1. transfer' = transfer /\ FlushOnly
    BY <1>6 DEF Reopen
  <2> QED
    BY <1>4, <2>1, FlushOnlyTypes DEF TypeOK
<1> QED
  BY <1>5, <1>6

LEMMA ClaimTypes ==
    ASSUME TypeOK, NEW s \in Sessions, NEW n \in Names, Claim(s, n)
    PROVE  TypeOK'
<1>1. deferred' \in SUBSET Released /\ gate' \in [Generations -> 0..TransferMax]
  BY FlushOnlyTypes DEF Claim
<1>2. nextGen \in Generations /\ nextGen' \in 1..GenMax
  BY Bounds DEF Claim, TypeOK
<1>3. gen' \in [Names -> Generations \cup {0}] /\ owner' \in [Names -> Sessions \cup {NoSession}]
  BY <1>2 DEF Claim, TypeOK
<1>4. bound' \in [Sessions -> [name : Names \cup {NoName}, gen : Generations \cup {0}]]
  BY <1>2 DEF Claim, TypeOK
<1>5. epochOf' \in [Generations -> Nat] /\ epoch' \in Nat
  BY <1>2 DEF Claim, TypeOK
<1>6. UNCHANGED <<leases, permit, transfer, nextTransfer, tickets, world, now, inflight>>
  BY DEF Claim
<1> QED
  BY <1>1, <1>2, <1>3, <1>4, <1>5, <1>6 DEF TypeOK, Released, world

LEMMA LeaseTypes ==
    ASSUME TypeOK,
           \/ \E s \in Sessions, n \in Names : AdmitOperation(s, n)
           \/ \E g \in Generations : RetainLease(g) \/ DropLease(g)
    PROVE  TypeOK'
<1>1. ASSUME NEW s \in Sessions, NEW n \in Names, AdmitOperation(s, n) PROVE TypeOK'
  <2>1. deferred' \in SUBSET Released /\ gate' \in [Generations -> 0..TransferMax]
    BY <1>1, FlushOnlyTypes DEF AdmitOperation
  <2>2. gen[n] \in Generations
    BY <1>1 DEF AdmitOperation, Authorized, TypeOK
  <2>3. leases[gen[n]] \in 0..MaxLeases /\ leases[gen[n]] < MaxLeases
    BY <1>1, <2>2 DEF AdmitOperation, TypeOK
  <2>4. MaxLeases \in Nat
    BY Bounds
  <2>5. leases[gen[n]] + 1 \in 0..MaxLeases
    BY <2>3, <2>4
  <2>6. leases' \in [Generations -> 0..MaxLeases]
    BY <1>1, <2>2, <2>5 DEF AdmitOperation, TypeOK
  <2>7. UNCHANGED <<active, bound, epochOf, nextGen, nextTransfer, tickets, world, now, udp>>
    BY <1>1 DEF AdmitOperation
  <2> QED
    BY <2>1, <2>6, <2>7 DEF TypeOK, Released, active, world, udp
<1>2. ASSUME NEW g \in Generations, RetainLease(g) \/ DropLease(g) PROVE TypeOK'
  <2>1. leases' \in [Generations -> 0..MaxLeases]
    BY <1>2, Bounds DEF RetainLease, DropLease, TypeOK
  <2>2. UNCHANGED <<active, bound, deferred, gate, epochOf, nextGen, nextTransfer,
                   tickets, world, now, udp>>
    BY <1>2 DEF RetainLease, DropLease
  <2> QED
    BY <2>1, <2>2 DEF TypeOK, active, world, udp
<1> QED
  BY <1>1, <1>2

LEMMA BeginTypes ==
    ASSUME TypeOK, NEW s \in Sessions, NEW n \in Names, NEW token \in Tokens,
           BeginMigration(s, n, token)
    PROVE  TypeOK'
<1>1. deferred' \in SUBSET Released /\ gate' \in [Generations -> 0..TransferMax]
  BY FlushOnlyTypes DEF BeginMigration
<1>2. gen[n] \in Generations /\ now + TTL \in 0..MaxNow
  BY Bounds DEF BeginMigration, Authorized, TypeOK
<1>3. permit' \in [Names -> Permit \cup {NoPermit}]
  <2>1. [gen |-> gen[n], source |-> s, token |-> token, expires |-> now + TTL] \in Permit
    BY <1>2 DEF Permit
  <2> QED
    BY <2>1 DEF BeginMigration, TypeOK
<1>4. UNCHANGED <<leases, gen, owner, transfer, bound, epochOf, nextGen, nextTransfer, tickets,
                   world, now, udp>>
  BY DEF BeginMigration
<1> QED
  BY <1>1, <1>3, <1>4 DEF TypeOK, Released, world, udp

LEMMA PreflightTypes ==
    ASSUME TypeOK, NEW d \in Sessions, NEW n \in Names, NEW token \in Tokens,
           PreflightMigration(d, n, token)
    PROVE  TypeOK'
<1>1. /\ gen[n] \in Generations /\ permit[n] \in Permit
      /\ nextTransfer \in Transfers /\ nextTransfer' \in 1..TransferMax
  BY Bounds DEF PreflightMigration, Valid, TypeOK
<1>2. [gate EXCEPT ![gen[n]] = nextTransfer] \in [Generations -> 0..TransferMax]
  BY <1>1, Bounds DEF TypeOK
<1>3. deferred' \in SUBSET Released /\ gate' \in [Generations -> 0..TransferMax]
  BY <1>2, FlushTypes DEF PreflightMigration, TypeOK, Released
<1>4. tickets' \in SUBSET Preflight /\ transfer' \in [Names -> Transfers \cup {0}]
  <2>1. [id |-> nextTransfer, dest |-> d, name |-> n, permit |-> permit[n]] \in Preflight
    BY <1>1 DEF Preflight
  <2> QED
    BY <1>1, <2>1 DEF PreflightMigration, TypeOK, Preflight
<1>5. UNCHANGED <<leases, gen, owner, permit, bound, epochOf, nextGen, world, now, udp>>
  BY DEF PreflightMigration
<1> QED
  BY <1>1, <1>3, <1>4, <1>5 DEF TypeOK, Released, Preflight, world, udp

LEMMA TicketTypes ==
    ASSUME TypeOK, NEW t \in tickets, TicketNext(t)
    PROVE  TypeOK'
<1>1. CASE AbortMigration(t)
  <2>1. /\ Reopen(t)
        /\ UNCHANGED <<gen, owner, permit, bound, epochOf, nextGen, nextTransfer, world, now, udp>>
    BY <1>1 DEF AbortMigration
  <2> QED
    BY <2>1, ReopenTypes DEF TypeOK, Released, Preflight, world, udp
<1>2. CASE PrepareFails(t)
  <2>1. /\ Reopen(t) /\ nextGen < GenMax /\ nextGen' = nextGen + 1
        /\ UNCHANGED <<gen, owner, permit, bound, epochOf, nextTransfer, world, now, udp>>
    BY <1>2 DEF PrepareFails, Committable
  <2>2. nextGen' \in 1..GenMax
    BY <2>1, Bounds DEF TypeOK
  <2> QED
    BY <2>1, <2>2, ReopenTypes DEF TypeOK, Released, Preflight, world, udp
<1>3. CASE CommitMigration(t)
  <2>1. /\ t.permit.gen \in Generations /\ t.name \in Names /\ t.dest \in Sessions
        /\ nextGen \in Generations /\ nextGen' \in 1..GenMax
    BY <1>3, Bounds DEF CommitMigration, Committable, TypeOK, Permit
  <2>2. [gate EXCEPT ![t.permit.gen] = RETIRED] \in [Generations -> 0..TransferMax]
    BY <2>1, Bounds DEF TypeOK, RETIRED
  <2>3. deferred' \in SUBSET Released /\ gate' \in [Generations -> 0..TransferMax]
    BY <1>3, <2>2, FlushTypes DEF CommitMigration, TypeOK, Released
  <2>4. gen' \in [Names -> Generations \cup {0}] /\ owner' \in [Names -> Sessions \cup {NoSession}]
    BY <1>3, <2>1 DEF CommitMigration, TypeOK
  <2>5. permit' \in [Names -> Permit \cup {NoPermit}] /\ transfer' \in [Names -> Transfers \cup {0}]
    BY <1>3, <2>1 DEF CommitMigration, TypeOK
  <2>6. bound' \in [Sessions -> [name : Names \cup {NoName}, gen : Generations \cup {0}]]
    BY <1>3, <2>1 DEF CommitMigration, TypeOK
  <2>7. epochOf' \in [Generations -> Nat] /\ epoch' \in Nat
    BY <1>3, <2>1 DEF CommitMigration, TypeOK
  <2>8. UNCHANGED <<leases, nextTransfer, world, now, inflight>> /\ tickets' \subseteq tickets
    BY <1>3 DEF CommitMigration
  <2> QED
    BY <2>1, <2>3, <2>4, <2>5, <2>6, <2>7, <2>8 DEF TypeOK, Released, world
<1> QED
  BY <1>1, <1>2, <1>3 DEF TicketNext

(* The actions that touch no table of the registry but the collected ones. *)
LEMMA QuietTypes ==
    ASSUME TypeOK, FlushOnly, UNCHANGED leases, epoch' \in Nat, quiescing' \in BOOLEAN,
           writes' \in SUBSET Writing,
           UNCHANGED <<active, bound, epochOf, nextGen, nextTransfer, tickets, closed, now, inflight>>
    PROVE  TypeOK'
<1>1. deferred' \in SUBSET Released /\ gate' \in [Generations -> 0..TransferMax]
  BY FlushOnlyTypes
<1> QED
  BY <1>1 DEF TypeOK, Released, active

(* The turn that ends session s: its close, or the end of the write that   *)
(* its close waits for.                                                    *)
Ending(s) == EndSession(s) /\ writes' \subseteq writes

LEMMA Endings ==
    ASSUME TypeOK
    PROVE  /\ \A s \in Sessions : CloseSession(s) => Ending(s)
           /\ \A w \in writes : FinishWrite(w) /\ w.closing =>
                                    w.owner \in Sessions /\ Ending(w.owner)
BY DEF Ending, CloseSession, FinishWrite, TypeOK, Writing

LEMMA CloseTypes ==
    ASSUME TypeOK, Idle, NEW s \in Sessions, Ending(s)
    PROVE  TypeOK'
<1> DEFINE n == bound[s].name
           owns == n # NoName /\ (n # NoName => owner[n] = s /\ gen[n] = bound[s].gen)
<1>1. /\ closed' \in SUBSET Sessions /\ writes' \in SUBSET Writing
      /\ bound' \in [Sessions -> [name : Names \cup {NoName}, gen : Generations \cup {0}]]
  BY DEF Ending, EndSession, TypeOK, Unbound
<1>2. UNCHANGED <<epochOf, nextGen, nextTransfer, tickets, quiescing, now, udp>>
  BY DEF Ending, EndSession
<1>3. CASE ~owns
  <2>1. UNCHANGED <<active, leases>> /\ FlushOnly
    BY <1>3 DEF Ending, EndSession
  <2> QED
    BY <1>1, <1>2, <2>1, FlushOnlyTypes DEF TypeOK, Released, active, udp
<1>4. CASE owns
  <2>1. n \in Names /\ gen[n] # 0 /\ owner[n] = s
    BY <1>4, Bounds DEF Idle, TypeOK
  <2>2. CASE /\ owner' = [owner EXCEPT ![n] = NoSession]
             /\ UNCHANGED <<gen, permit, transfer, leases>> /\ FlushOnly
    BY <1>1, <1>2, <2>2, FlushOnlyTypes DEF TypeOK, Released, udp
  <2>3. CASE /\ permit' = [permit EXCEPT ![n] = NoPermit]
             /\ transfer' = [transfer EXCEPT ![n] = 0]
             /\ Remove({n}, Thawed({n}))
    <3>1. permit' \in [Names -> Permit \cup {NoPermit}] /\ transfer' \in [Names -> Transfers \cup {0}]
      BY <2>1, <2>3 DEF TypeOK
    <3>2. /\ gen' \in [Names -> Generations \cup {0}]
          /\ owner' \in [Names -> Sessions \cup {NoSession}]
          /\ deferred' \in SUBSET Released /\ gate' \in [Generations -> 0..TransferMax]
          /\ leases' = leases
      <4>1. {n} \in SUBSET {m \in Names : gen[m] # 0}
        BY <2>1
      <4> QED
        BY <2>3, <4>1, RemoveTypes, ThawedTypes
    <3> QED
      BY <1>1, <1>2, <3>1, <3>2 DEF TypeOK, Released, udp
  <2> QED
    BY <1>4, <2>1, <2>2, <2>3 DEF Ending, EndSession
<1> QED
  BY <1>3, <1>4

LEMMA ExpireTypes ==
    ASSUME TypeOK, Idle, NEW due \in SUBSET Names, \A n \in due : permit[n] # NoPermit,
           Expire(due)
    PROVE  TypeOK'
<1> DEFINE R == {n \in due : owner[n] = NoSession}
<1>1. R \in SUBSET {n \in Names : gen[n] # 0} /\ Remove(R, Thawed(due))
  BY DEF Expire, Idle
<1>2. /\ gen' \in [Names -> Generations \cup {0}]
      /\ owner' \in [Names -> Sessions \cup {NoSession}]
      /\ deferred' \in SUBSET Released /\ gate' \in [Generations -> 0..TransferMax]
      /\ leases' = leases
  BY <1>1, RemoveTypes, ThawedTypes
<1>3. permit' \in [Names -> Permit \cup {NoPermit}] /\ transfer' \in [Names -> Transfers \cup {0}]
  BY DEF Expire, TypeOK
<1>4. UNCHANGED <<bound, epochOf, nextGen, nextTransfer, tickets, world, now, udp>>
  BY DEF Expire
<1> QED
  BY <1>2, <1>3, <1>4 DEF TypeOK, Released, world, udp

LEMMA DrainTypes ==
    ASSUME TypeOK, DrainSessions
    PROVE  TypeOK'
<1>1. Remove({n \in Names : gen[n] # 0}, gate) /\ gate \in [Generations -> 0..TransferMax]
  BY DEF DrainSessions, TypeOK
<1>2. /\ gen' \in [Names -> Generations \cup {0}]
      /\ owner' \in [Names -> Sessions \cup {NoSession}]
      /\ deferred' \in SUBSET Released /\ gate' \in [Generations -> 0..TransferMax]
      /\ leases' = leases
  BY <1>1, RemoveTypes
<1>3. /\ permit' \in [Names -> Permit \cup {NoPermit}] /\ transfer' \in [Names -> Transfers \cup {0}]
      /\ bound' \in [Sessions -> [name : Names \cup {NoName}, gen : Generations \cup {0}]]
      /\ closed' \in SUBSET Sessions
  BY DEF DrainSessions, TypeOK, Unbound
<1>4. UNCHANGED <<epochOf, nextGen, nextTransfer, tickets, writes, quiescing, now, udp>>
  BY DEF DrainSessions
<1> QED
  BY <1>2, <1>3, <1>4 DEF TypeOK, Released, udp

(* The turns that change what is noted of a session and nothing else.      *)
Noted == \E s \in Sessions : DeferClose(s) \/ \E n \in Names : RegisterWrite(s, n)

LEMMA OutsideTypes ==
    ASSUME TypeOK,
           \/ \E n \in Names, from \in Origins : ReceiveDatagram(n, from)
           \/ \E d \in inflight : DispatchDatagram(d)
           \/ Tick
           \/ Noted
    PROVE  TypeOK'
<1>1. ASSUME NEW n \in Names, NEW from \in Origins, ReceiveDatagram(n, from) PROVE TypeOK'
  <2>1. [name |-> n, from |-> from, at |-> epoch + 1, sentTo |-> gen[n]]
           \in [name : Names, from : Origins, at : Nat, sentTo : Generations \cup {0}]
    BY DEF TypeOK
  <2>2. epoch' \in Nat
    BY <1>1 DEF ReceiveDatagram, TypeOK
  <2> QED
    BY <1>1, <2>1, <2>2 DEF ReceiveDatagram, TypeOK, active, gates, world
<1>2. ASSUME NEW d \in inflight, DispatchDatagram(d) PROVE TypeOK'
  BY <1>2 DEF DispatchDatagram, TypeOK, active, gates, world
<1>3. ASSUME Tick PROVE TypeOK'
  BY <1>3, Bounds DEF Tick, TypeOK, active, gates, world, udp
<1>4. ASSUME NEW s \in Sessions, DeferClose(s) PROVE TypeOK'
  <2>1. writes' \in SUBSET Writing /\ closed' \in SUBSET Sessions
    <3>1. \A w \in writes : w \in Writing /\ [w EXCEPT !.closing = TRUE] \in Writing
      BY DEF TypeOK, Writing
    <3>2. /\ closed' = closed \cup {s}
          /\ writes' = {IF w.owner = s THEN [w EXCEPT !.closing = TRUE] ELSE w : w \in writes}
      BY <1>4 DEF DeferClose
    <3>3. writes' \in SUBSET Writing
      BY <3>1, <3>2
    <3>4. closed' \in SUBSET Sessions
      BY <3>2 DEF TypeOK
    <3> QED
      BY <3>3, <3>4
  <2>2. UNCHANGED <<active, bound, deferred, gates, nextGen, nextTransfer, tickets, quiescing, now, udp>>
    BY <1>4 DEF DeferClose
  <2> QED
    BY <2>1, <2>2 DEF TypeOK, active, gates, udp
<1>5. ASSUME NEW s \in Sessions, NEW n \in Names, RegisterWrite(s, n) PROVE TypeOK'
  <2>1. writes' \in SUBSET Writing
    <3>1. [name |-> n, owner |-> s, closing |-> FALSE] \in Writing
      BY DEF Writing
    <3> QED
      BY <1>5, <3>1 DEF RegisterWrite, TypeOK
  <2>2. UNCHANGED <<active, bound, deferred, gates, nextGen, nextTransfer, tickets, closed,
                    quiescing, now, udp>>
    BY <1>5 DEF RegisterWrite
  <2> QED
    BY <2>1, <2>2 DEF TypeOK, active, gates, udp
<1> QED
  BY <1>1, <1>2, <1>3, <1>4, <1>5 DEF Noted

-----------------------------------------------------------------------------
(* The inductive invariant.                                                *)

(* A generation that was never allocated has an open gate and no lease.    *)
FreshGates == \A g \in Generations : g >= nextGen => gate[g] = OPEN /\ leases[g] = 0

(* Each active name holds a generation of its own.                         *)
Holders == \A m, n \in Names : gen[n] # 0 => /\ gen[n] < nextGen
                                             /\ gen[m] = gen[n] => m = n

(* A draining release is the only one of its name and of its generation,   *)
(* and neither is active.                                                  *)
Draining == /\ \A d \in deferred : /\ d.gen < nextGen /\ gen[d.name] = 0
                                   /\ \A n \in Names : gen[n] # d.gen
            /\ \A d, e \in deferred : d.name = e.name \/ d.gen = e.gen => d = e

GateMatches == \A n \in Names : gen[n] # 0 => /\ transfer[n] = gate[gen[n]]
                                              /\ gate[gen[n]] # RETIRED

(* Transfer ids name one ticket each.                                      *)
TicketIds == \A t, u \in tickets : t.id < nextTransfer /\ (t.id = u.id => t = u)

(* A freeze is backed by its permit and by a ticket.                       *)
Backs(t, n) == t.name = n /\ t.id = transfer[n] /\ t.permit = permit[n] /\ t.permit.gen = gen[n]
FreezeBacked == \A n \in Names : transfer[n] # 0 => /\ permit[n] # NoPermit
                                                    /\ \E t \in tickets : Backs(t, n)

RegistryInv == /\ TypeOK /\ Idle /\ IndexAgrees /\ FreshGates /\ Holders /\ Draining
               /\ GateMatches /\ TicketIds /\ FreezeBacked

(* What the state words of the gates have to do with the tables.           *)
GatesSound == FreshGates /\ Draining /\ GateMatches

(* A turn that ends with releases D and words G leaves the gates sound if  *)
(* D and G are sound with the tables of the turn's end: releases that have *)
(* drained may share their name with a new generation, for they go.        *)
LEMMA Settled ==
    ASSUME TypeOK', NEW D \in SUBSET Released, NEW G \in [Generations -> 0..TransferMax],
           Flush(D, G),
           \A d \in D : /\ d.gen < nextGen'
                        /\ \A n \in Names : gen'[n] # d.gen
                        /\ leases'[d.gen] # 0 => gen'[d.name] = 0,
           \A d, e \in D : d.name = e.name \/ d.gen = e.gen => d = e,
           \A g \in Generations : g >= nextGen' => G[g] = OPEN /\ leases'[g] = 0,
           \A n \in Names : gen'[n] # 0 => transfer'[n] = G[gen'[n]] /\ G[gen'[n]] # RETIRED
    PROVE  GatesSound'
<1> DEFINE drained == {r \in D : leases'[r.gen] = 0}
<1>1. deferred' = D \ drained
  BY DEF Flush
<1>2. \A g \in Generations : (\A r \in drained : r.gen # g) => gate'[g] = G[g]
  BY DEF Flush
<1>3. FreshGates'
  <2> SUFFICES ASSUME NEW g \in Generations, g >= nextGen' PROVE gate'[g] = OPEN /\ leases'[g] = 0
    BY DEF FreshGates
  <2>1. g \in Nat /\ nextGen' \in Nat
    BY Bounds DEF TypeOK
  <2>2. ASSUME NEW r \in D PROVE r.gen # g
    <3>1. r.gen < nextGen' /\ r.gen \in Nat
      BY Bounds DEF Released
    <3> QED
      BY <2>1, <3>1
  <2> QED
    BY <1>2, <2>2
<1>4. Draining'
  BY <1>1 DEF Draining
<1>5. GateMatches'
  <2> SUFFICES ASSUME NEW n \in Names, gen'[n] # 0
               PROVE  transfer'[n] = gate'[gen'[n]] /\ gate'[gen'[n]] # RETIRED
    BY DEF GateMatches
  <2>1. gen'[n] \in Generations /\ \A r \in drained : r.gen # gen'[n]
    BY DEF TypeOK
  <2> QED
    BY <1>2, <2>1
<1> QED
  BY <1>3, <1>4, <1>5 DEF GatesSound

(* A turn that only collects releases.                                     *)
LEMMA SettledQuietly ==
    ASSUME RegistryInv, TypeOK', FlushOnly, UNCHANGED <<gen, transfer, nextGen>>,
           \A g \in Generations : g >= nextGen => leases'[g] = 0
    PROVE  GatesSound' /\ Holders'
<1>1. deferred \in SUBSET Released /\ gate \in [Generations -> 0..TransferMax] /\ Flush(deferred, gate)
  BY DEF RegistryInv, TypeOK, Released, FlushOnly
<1>2. \A d \in deferred : /\ d.gen < nextGen' /\ gen'[d.name] = 0
                          /\ \A n \in Names : gen'[n] # d.gen
  BY DEF RegistryInv, Draining
<1>3. \A d, e \in deferred : d.name = e.name \/ d.gen = e.gen => d = e
  BY DEF RegistryInv, Draining
<1>4. \A g \in Generations : g >= nextGen' => gate[g] = OPEN /\ leases'[g] = 0
  BY DEF RegistryInv, FreshGates
<1>5. \A n \in Names : gen'[n] # 0 => transfer'[n] = gate[gen'[n]] /\ gate[gen'[n]] # RETIRED
  BY DEF RegistryInv, GateMatches
<1>6. GatesSound'
  BY <1>1, <1>2, <1>3, <1>4, <1>5, Settled
<1>7. Holders'
  BY DEF RegistryInv, Holders
<1> QED
  BY <1>6, <1>7

(* A turn that drops the names R.                                          *)
LEMMA SettledRemoval ==
    ASSUME RegistryInv, TypeOK', NEW R \in SUBSET {n \in Names : gen[n] # 0},
           NEW G \in [Generations -> 0..TransferMax], Remove(R, G), UNCHANGED nextGen,
           \A g \in Generations : g >= nextGen => G[g] = gate[g],
           \A n \in Names \ R : gen[n] # 0 => transfer'[n] = G[gen[n]] /\ G[gen[n]] # RETIRED
    PROVE  GatesSound' /\ Holders'
<1> DEFINE D == deferred \cup {[name |-> n, gen |-> gen[n]] : n \in R}
<1>1. Flush(D, G) /\ leases' = leases
  BY DEF Remove
<1>2. \A n \in Names : gen'[n] = IF n \in R THEN 0 ELSE gen[n]
  BY DEF Remove
<1>3. Holders'
  BY <1>2 DEF RegistryInv, Holders
<1>4. D \in SUBSET Released
  BY DEF Released, RegistryInv, TypeOK
<1>5. ASSUME NEW d \in D
      PROVE  d.gen < nextGen' /\ gen'[d.name] = 0 /\ \A n \in Names : gen'[n] # d.gen
  <2>1. CASE d \in deferred
    <3>1. d.gen < nextGen /\ gen[d.name] = 0 /\ d.name \in Names /\ d.gen # 0
      BY <2>1, Bounds DEF RegistryInv, Draining, TypeOK
    <3>2. \A n \in Names : gen[n] # d.gen
      BY <2>1 DEF RegistryInv, Draining
    <3> QED
      BY <1>2, <3>1, <3>2
  <2>2. CASE \E n \in R : d = [name |-> n, gen |-> gen[n]]
    <3>1. PICK n \in R : d = [name |-> n, gen |-> gen[n]]
      BY <2>2
    <3>2. n \in Names /\ gen[n] # 0 /\ gen[n] < nextGen /\ \A m \in Names : gen[m] = gen[n] => m = n
      BY DEF RegistryInv, Holders
    <3> QED
      BY <1>2, <3>1, <3>2
  <2> QED
    BY <2>1, <2>2
<1>6. ASSUME NEW d \in D, NEW e \in D, d.name = e.name \/ d.gen = e.gen PROVE d = e
  <2>1. \A f \in deferred : /\ gen[f.name] = 0 /\ \A n \in Names : gen[n] # f.gen
                            /\ \A h \in deferred : f.name = h.name \/ f.gen = h.gen => f = h
    BY DEF RegistryInv, Draining
  <2>2. \A f \in D \ deferred : /\ f.name \in R /\ f.gen = gen[f.name]
                                /\ f = [name |-> f.name, gen |-> f.gen]
    OBVIOUS
  <2>3. \A m, n \in R : gen[m] = gen[n] => m = n
    BY DEF RegistryInv, Holders
  <2> QED
    BY <1>6, <2>1, <2>2, <2>3
<1>7. \A g \in Generations : g >= nextGen' => G[g] = OPEN /\ leases'[g] = 0
  BY <1>1 DEF RegistryInv, FreshGates
<1>8. \A n \in Names : gen'[n] # 0 => transfer'[n] = G[gen'[n]] /\ G[gen'[n]] # RETIRED
  BY <1>2
<1> HIDE DEF D
<1> QED
  BY <1>1, <1>3, <1>4, <1>5, <1>6, <1>7, <1>8, Settled

(* The actions that leave the tables alone.                                *)
LEMMA TablesUnchanged ==
    ASSUME RegistryInv, UNCHANGED <<active, bound, tickets, nextTransfer>>
    PROVE  Idle' /\ IndexAgrees' /\ TicketIds' /\ FreezeBacked'
BY DEF RegistryInv, Idle, IndexAgrees, TicketIds, FreezeBacked, Backs, active

LEMMA QuietInv ==
    ASSUME RegistryInv, TypeOK', FlushOnly,
           UNCHANGED <<active, bound, tickets, nextTransfer, nextGen>>,
           \A g \in Generations : g >= nextGen => leases'[g] = 0
    PROVE  RegistryInv'
<1>1. UNCHANGED <<gen, transfer, nextGen>>
  BY DEF active
<1> QED
  BY <1>1, SettledQuietly, TablesUnchanged DEF RegistryInv, GatesSound

LEMMA ClaimInv ==
    ASSUME RegistryInv, NEW s \in Sessions, NEW n \in Names, Claim(s, n)
    PROVE  RegistryInv'
<1>1. TypeOK /\ TypeOK'
  BY ClaimTypes DEF RegistryInv
<1>2. /\ s \notin closed /\ bound[s] = Unbound /\ gen[n] = 0 /\ nextGen \in Generations
      /\ \A d \in deferred : leases[d.gen] # 0 => d.name # n
      /\ gen' = [gen EXCEPT ![n] = nextGen] /\ owner' = [owner EXCEPT ![n] = s]
      /\ bound' = [bound EXCEPT ![s] = [name |-> n, gen |-> nextGen]]
      /\ nextGen' = nextGen + 1 /\ leases' = leases /\ Flush(deferred, gate)
      /\ UNCHANGED <<permit, transfer, nextTransfer, tickets, closed>>
  BY <1>1, Bounds DEF Claim, TypeOK, FlushOnly, world
<1>3. nextGen \in Nat /\ nextGen # 0 /\ \A m \in Names : gen[m] # nextGen
  BY <1>2, Bounds DEF RegistryInv, Holders, TypeOK
<1>4. Holders'
  <2> SUFFICES ASSUME NEW l \in Names, NEW m \in Names, gen'[m] # 0
               PROVE  /\ gen'[m] < nextGen'
                      /\ gen'[l] = gen'[m] => l = m
    BY DEF Holders
  <2>1. gen[m] # 0 => gen[m] < nextGen /\ gen[m] \in Nat
    BY <1>1, Bounds DEF RegistryInv, Holders, TypeOK
  <2>2. gen[m] # 0 /\ gen[l] = gen[m] => l = m
    BY DEF RegistryInv, Holders
  <2> QED
    BY <1>1, <1>2, <1>3, <2>1, <2>2 DEF TypeOK
<1>5. GatesSound'
  <2>1. deferred \in SUBSET Released /\ gate \in [Generations -> 0..TransferMax]
    BY <1>1 DEF TypeOK, Released
  <2>2. \A d \in deferred : /\ d.gen < nextGen'
                            /\ \A m \in Names : gen'[m] # d.gen
                            /\ leases'[d.gen] # 0 => gen'[d.name] = 0
    <3> SUFFICES ASSUME NEW d \in deferred
                 PROVE  /\ d.gen < nextGen'
                        /\ \A m \in Names : gen'[m] # d.gen
                        /\ leases'[d.gen] # 0 => gen'[d.name] = 0
      OBVIOUS
    <3>1. /\ d.gen < nextGen /\ d.gen \in Nat /\ d.name \in Names /\ gen[d.name] = 0
          /\ \A m \in Names : gen[m] # d.gen
      BY <1>1, Bounds DEF RegistryInv, Draining, TypeOK
    <3> QED
      BY <1>1, <1>2, <1>3, <3>1 DEF TypeOK
  <2>3. \A d, e \in deferred : d.name = e.name \/ d.gen = e.gen => d = e
    BY DEF RegistryInv, Draining
  <2>4. \A g \in Generations : g >= nextGen' => gate[g] = OPEN /\ leases'[g] = 0
    <3> SUFFICES ASSUME NEW g \in Generations, g >= nextGen' PROVE g >= nextGen
      BY <1>2 DEF RegistryInv, FreshGates
    <3> QED
      BY <1>2, <1>3, Bounds
  <2>5. \A m \in Names : gen'[m] # 0 => transfer'[m] = gate[gen'[m]] /\ gate[gen'[m]] # RETIRED
    <3>1. transfer[n] = 0 /\ gate[nextGen] = OPEN
      BY <1>2, <1>3 DEF RegistryInv, Idle, FreshGates
    <3>2. RETIRED # OPEN
      BY Bounds DEF OPEN, RETIRED
    <3>3. \A m \in Names : gen[m] # 0 => transfer[m] = gate[gen[m]] /\ gate[gen[m]] # RETIRED
      BY DEF RegistryInv, GateMatches
    <3> QED
      BY <1>1, <1>2, <3>1, <3>2, <3>3 DEF TypeOK, OPEN
  <2> QED
    BY <1>1, <1>2, <2>1, <2>2, <2>3, <2>4, <2>5, Settled
<1>6. Idle'
  BY <1>1, <1>2, <1>3 DEF RegistryInv, Idle, TypeOK
<1>7. IndexAgrees'
  <2>1. \A m \in Names : owner[m] # NoSession => gen[m] # 0 /\ owner[m] # s
    <3>1. bound[s].name \notin Names
      BY <1>2, Bounds DEF Unbound
    <3>2. ASSUME NEW m \in Names, owner[m] # NoSession PROVE gen[m] # 0 /\ owner[m] # s
      <4>1. gen[m] # 0 /\ bound[owner[m]] = [name |-> m, gen |-> gen[m]]
        BY <3>2 DEF RegistryInv, IndexAgrees
      <4>2. bound[owner[m]].name = m
        BY <4>1
      <4> QED
        BY <3>1, <4>1, <4>2
    <3> QED
      BY <3>2
  <2> QED
    BY <1>1, <1>2, <1>3, <2>1 DEF RegistryInv, IndexAgrees, TypeOK
<1>8. TicketIds'
  BY <1>2 DEF RegistryInv, TicketIds
<1>9. FreezeBacked'
  BY <1>1, <1>2 DEF RegistryInv, FreezeBacked, Backs, Idle, TypeOK
<1> QED
  BY <1>1, <1>4, <1>5, <1>6, <1>7, <1>8, <1>9 DEF RegistryInv, GatesSound

LEMMA LeaseInv ==
    ASSUME RegistryInv,
           \/ \E s \in Sessions, n \in Names : AdmitOperation(s, n)
           \/ \E g \in Generations : RetainLease(g) \/ DropLease(g)
    PROVE  RegistryInv'
<1>1. TypeOK /\ TypeOK'
  BY LeaseTypes DEF RegistryInv
<1>2. ASSUME NEW s \in Sessions, NEW n \in Names, AdmitOperation(s, n) PROVE RegistryInv'
  <2>1. /\ gen[n] # 0 /\ leases' = [leases EXCEPT ![gen[n]] = @ + 1] /\ FlushOnly
        /\ UNCHANGED <<active, bound, tickets, nextTransfer, nextGen, closed>>
    BY <1>2 DEF AdmitOperation, Authorized, world
  <2>2. gen[n] < nextGen /\ gen[n] \in Generations /\ nextGen \in Nat
    <3>1. gen[n] < nextGen
      BY <2>1 DEF RegistryInv, Holders
    <3> QED
      BY <1>1, <2>1, <3>1, Bounds DEF TypeOK
  <2>3. ASSUME NEW g \in Generations, g >= nextGen PROVE leases'[g] = 0
    <3>1. g # gen[n] /\ leases[g] = 0
      BY <2>2, <2>3, Bounds DEF RegistryInv, FreshGates
    <3> QED
      BY <1>1, <2>1, <3>1 DEF TypeOK
  <2> QED
    BY <1>1, <2>1, <2>3, QuietInv
<1>3. ASSUME NEW g \in Generations, RetainLease(g) \/ DropLease(g) PROVE RegistryInv'
  <2>1. leases[g] # 0 /\ \A h \in Generations : h # g => leases'[h] = leases[h]
    <3>1. leases[g] \in Nat /\ (leases[g] \in 1..(MaxLeases - 1) \/ leases[g] > 0)
      BY <1>1, <1>3, Bounds DEF RetainLease, DropLease, TypeOK
    <3>2. \A h \in Generations : h # g => leases'[h] = leases[h]
      BY <1>1, <1>3 DEF RetainLease, DropLease, TypeOK
    <3> QED
      BY <3>1, <3>2, Bounds
  <2>2. UNCHANGED <<active, bound, deferred, gate, nextGen, nextTransfer, tickets, closed>>
    BY <1>3 DEF RetainLease, DropLease, world
  <2>3. FreshGates'
    BY <2>1, <2>2 DEF RegistryInv, FreshGates
  <2>4. Holders' /\ Draining' /\ GateMatches'
    BY <2>2 DEF RegistryInv, Holders, Draining, GateMatches, active
  <2> QED
    BY <1>1, <2>2, <2>3, <2>4, TablesUnchanged DEF RegistryInv
<1> QED
  BY <1>2, <1>3

LEMMA BeginInv ==
    ASSUME RegistryInv, NEW s \in Sessions, NEW n \in Names, NEW token \in Tokens,
           BeginMigration(s, n, token)
    PROVE  RegistryInv'
<1>1. TypeOK /\ TypeOK'
  BY BeginTypes DEF RegistryInv
<1> DEFINE p == [gen |-> gen[n], source |-> s, token |-> token, expires |-> now + TTL]
<1>2. /\ gen[n] # 0 /\ transfer[n] = 0 /\ permit' = [permit EXCEPT ![n] = p] /\ FlushOnly
      /\ UNCHANGED <<gen, owner, transfer, bound, nextGen, nextTransfer, tickets, closed, leases>>
  BY DEF BeginMigration, Authorized, world
<1> HIDE DEF p
<1>3. GatesSound' /\ Holders'
  BY <1>1, <1>2, SettledQuietly DEF RegistryInv, FreshGates
<1>4. Idle'
  BY <1>1, <1>2 DEF RegistryInv, Idle, TypeOK
<1>5. IndexAgrees' /\ TicketIds'
  BY <1>2 DEF RegistryInv, IndexAgrees, TicketIds
<1>6. FreezeBacked'
  <2> SUFFICES ASSUME NEW m \in Names, transfer[m] # 0
               PROVE  permit'[m] # NoPermit /\ \E t \in tickets : Backs(t, m)'
    BY <1>2 DEF FreezeBacked
  <2>1. m # n /\ permit'[m] = permit[m]
    BY <1>1, <1>2 DEF TypeOK
  <2> QED
    BY <1>2, <2>1 DEF RegistryInv, FreezeBacked, Backs
<1> QED
  BY <1>1, <1>3, <1>4, <1>5, <1>6 DEF RegistryInv, GatesSound

LEMMA PreflightInv ==
    ASSUME RegistryInv, NEW d \in Sessions, NEW n \in Names, NEW token \in Tokens,
           PreflightMigration(d, n, token)
    PROVE  RegistryInv'
<1>1. TypeOK /\ TypeOK'
  BY PreflightTypes DEF RegistryInv
<1> DEFINE t0 == [id |-> nextTransfer, dest |-> d, name |-> n, permit |-> permit[n]]
           G == [gate EXCEPT ![gen[n]] = nextTransfer]
<1>2. /\ gen[n] # 0 /\ permit[n] # NoPermit /\ permit[n].gen = gen[n] /\ nextTransfer \in Transfers
      /\ nextTransfer' = nextTransfer + 1 /\ tickets' = tickets \cup {t0} /\ Flush(deferred, G)
      /\ transfer' = [transfer EXCEPT ![n] = nextTransfer]
      /\ UNCHANGED <<gen, owner, permit, bound, nextGen, closed, leases>>
  BY <1>1, Bounds DEF PreflightMigration, Valid, world, TypeOK
<1>3. gen[n] \in Generations /\ gen[n] < nextGen /\ nextTransfer # 0 /\ nextTransfer # RETIRED
  <2>1. gen[n] < nextGen
    BY <1>2 DEF RegistryInv, Holders
  <2> QED
    BY <1>1, <1>2, <2>1, Bounds DEF TypeOK, RETIRED
<1>4. /\ t0.id = nextTransfer /\ t0.name = n /\ t0.permit = permit[n]
      /\ \A g \in Generations : G[g] = IF g = gen[n] THEN nextTransfer ELSE gate[g]
      /\ G \in [Generations -> 0..TransferMax]
  BY <1>1, <1>3, Bounds DEF TypeOK
<1> HIDE DEF t0, G
<1>5. GatesSound'
  <2>1. deferred \in SUBSET Released
    BY <1>1 DEF TypeOK, Released
  <2>2. \A r \in deferred : /\ r.gen < nextGen' /\ gen'[r.name] = 0
                            /\ \A m \in Names : gen'[m] # r.gen
    BY <1>2 DEF RegistryInv, Draining
  <2>3. \A r, e \in deferred : r.name = e.name \/ r.gen = e.gen => r = e
    BY DEF RegistryInv, Draining
  <2>4. \A g \in Generations : g >= nextGen' => G[g] = OPEN /\ leases'[g] = 0
    <3> SUFFICES ASSUME NEW g \in Generations, g >= nextGen PROVE G[g] = OPEN /\ leases[g] = 0
      BY <1>2
    <3>1. g # gen[n]
      BY <1>1, <1>3, Bounds DEF TypeOK
    <3> QED
      BY <1>4, <3>1 DEF RegistryInv, FreshGates
  <2>5. \A m \in Names : gen'[m] # 0 => transfer'[m] = G[gen'[m]] /\ G[gen'[m]] # RETIRED
    <3> SUFFICES ASSUME NEW m \in Names, gen[m] # 0
                 PROVE  transfer'[m] = G[gen[m]] /\ G[gen[m]] # RETIRED
      BY <1>2
    <3>1. /\ gen[m] \in Generations /\ (gen[m] = gen[n] => m = n)
          /\ transfer[m] = gate[gen[m]] /\ gate[gen[m]] # RETIRED
      BY <1>1, <1>2 DEF RegistryInv, Holders, GateMatches, TypeOK
    <3> QED
      BY <1>1, <1>2, <1>3, <1>4, <3>1 DEF TypeOK
  <2> QED
    BY <1>1, <1>2, <1>4, <2>1, <2>2, <2>3, <2>4, <2>5, Settled
<1>6. Holders' /\ IndexAgrees'
  BY <1>2 DEF RegistryInv, Holders, IndexAgrees
<1>7. Idle'
  BY <1>1, <1>2 DEF RegistryInv, Idle, TypeOK
<1>8. TicketIds'
  <2>1. \A t \in tickets : t.id \in Nat /\ t.id < nextTransfer
    BY <1>1, Bounds DEF RegistryInv, TicketIds, TypeOK
  <2>2. \A t, u \in tickets : t.id = u.id => t = u
    BY DEF RegistryInv, TicketIds
  <2>3. nextTransfer \in Nat
    BY <1>2, Bounds
  <2> QED
    BY <1>2, <1>4, <2>1, <2>2, <2>3 DEF TicketIds
<1>9. FreezeBacked'
  <2> SUFFICES ASSUME NEW m \in Names, transfer'[m] # 0
               PROVE  permit'[m] # NoPermit /\ \E t \in tickets' : Backs(t, m)'
    BY DEF FreezeBacked
  <2>1. CASE m = n
    <3>1. PICK t \in tickets' : t = t0
      BY <1>2
    <3>2. Backs(t, n)'
      BY <1>1, <1>2, <1>4, <3>1 DEF Backs, TypeOK
    <3> QED
      BY <1>2, <2>1, <3>1, <3>2
  <2>2. CASE m # n
    <3>1. transfer'[m] = transfer[m]
      BY <1>1, <1>2, <2>2 DEF TypeOK
    <3>2. permit[m] # NoPermit /\ \E t \in tickets : Backs(t, m)
      BY <3>1 DEF RegistryInv, FreezeBacked
    <3> QED
      BY <1>2, <3>1, <3>2 DEF Backs
  <2> QED
    BY <2>1, <2>2
<1> QED
  BY <1>1, <1>5, <1>6, <1>7, <1>8, <1>9 DEF RegistryInv, GatesSound

(* A ticket that backs a freeze is current.                                *)
LEMMA BackedIsCurrent ==
    ASSUME RegistryInv, NEW n \in Names, transfer[n] # 0, NEW t \in tickets
    PROVE  Backs(t, n) <=> Current(t) /\ t.name = n
<1>1. gen[n] # 0 /\ transfer[n] = gate[gen[n]]
  BY DEF RegistryInv, Idle, GateMatches
<1> QED
  BY <1>1 DEF Backs, Current

LEMMA ReopenInv ==
    ASSUME RegistryInv, TypeOK', NEW t \in tickets, Reopen(t),
           UNCHANGED <<gen, owner, permit, bound, nextTransfer, closed>>,
           nextGen' \in {nextGen, nextGen + 1}
    PROVE  RegistryInv'
<1> DEFINE G == IF Current(t) THEN [gate EXCEPT ![t.permit.gen] = OPEN] ELSE gate
<1>1. TypeOK /\ t.permit.gen \in Generations /\ t.name \in Names /\ nextGen \in Nat
  BY DEF RegistryInv, TypeOK, Permit
<1>2. /\ tickets' = tickets \ {t} /\ leases' = leases /\ Flush(deferred, G)
      /\ transfer' = IF Current(t) THEN [transfer EXCEPT ![t.name] = 0] ELSE transfer
  BY DEF Reopen, FlushOnly
<1>3. Current(t) => gen[t.name] = t.permit.gen /\ gen[t.name] # 0
  BY <1>1, Bounds DEF Current
<1>4. /\ G \in [Generations -> 0..TransferMax]
      /\ \A g \in Generations : G[g] = IF Current(t) /\ g = t.permit.gen THEN OPEN ELSE gate[g]
  BY <1>1, Bounds DEF TypeOK, OPEN
<1> HIDE DEF G
<1>5. \A g \in Generations : g >= nextGen' => g >= nextGen
  BY <1>1, Bounds
<1>6. Holders' /\ \A r \in deferred : r.gen < nextGen'
  <2>1. nextGen' = nextGen \/ nextGen' = nextGen + 1
    OBVIOUS
  <2>2. \A m \in Names : gen[m] # 0 => gen[m] \in Nat
    BY <1>1, Bounds DEF TypeOK
  <2>3. \A r \in deferred : r.gen \in Nat
    BY <1>1, Bounds DEF TypeOK
  <2> QED
    BY <1>1, <2>1, <2>2, <2>3 DEF RegistryInv, Holders, Draining
<1>7. GatesSound'
  <2>1. deferred \in SUBSET Released
    BY <1>1 DEF TypeOK, Released
  <2>2. \A r \in deferred : gen'[r.name] = 0 /\ \A m \in Names : gen'[m] # r.gen
    BY DEF RegistryInv, Draining
  <2>3. \A r, e \in deferred : r.name = e.name \/ r.gen = e.gen => r = e
    BY DEF RegistryInv, Draining
  <2>4. \A g \in Generations : g >= nextGen' => G[g] = OPEN /\ leases'[g] = 0
    BY <1>2, <1>4, <1>5 DEF RegistryInv, FreshGates
  <2>5. \A m \in Names : gen'[m] # 0 => transfer'[m] = G[gen'[m]] /\ G[gen'[m]] # RETIRED
    <3> SUFFICES ASSUME NEW m \in Names, gen[m] # 0
                 PROVE  transfer'[m] = G[gen[m]] /\ G[gen[m]] # RETIRED
      OBVIOUS
    <3>1. /\ gen[m] \in Generations
          /\ transfer[m] = gate[gen[m]] /\ gate[gen[m]] # RETIRED
          /\ gen[m] = gen[t.name] => m = t.name
      BY <1>1 DEF RegistryInv, Holders, GateMatches, TypeOK
    <3>2. RETIRED # OPEN
      BY Bounds DEF OPEN, RETIRED
    <3> QED
      BY <1>1, <1>2, <1>3, <1>4, <3>1, <3>2 DEF TypeOK, OPEN
  <2> QED
    BY <1>2, <1>4, <1>6, <2>1, <2>2, <2>3, <2>4, <2>5, Settled
<1>8. Idle' /\ IndexAgrees' /\ TicketIds'
  BY <1>1, <1>2 DEF RegistryInv, Idle, IndexAgrees, TicketIds, TypeOK
<1>9. FreezeBacked'
  <2> SUFFICES ASSUME NEW m \in Names, transfer'[m] # 0
               PROVE  permit'[m] # NoPermit /\ \E u \in tickets' : Backs(u, m)'
    BY DEF FreezeBacked
  <2>1. transfer'[m] = transfer[m] /\ ~(Current(t) /\ t.name = m)
    BY <1>1, <1>2 DEF TypeOK
  <2>2. permit[m] # NoPermit
    BY <2>1 DEF RegistryInv, FreezeBacked
  <2>3. PICK u \in tickets : Backs(u, m)
    BY <2>1 DEF RegistryInv, FreezeBacked
  <2>4. u # t
    BY <2>1, <2>3, BackedIsCurrent
  <2> QED
    BY <1>2, <2>1, <2>2, <2>3, <2>4 DEF Backs
<1> QED
  BY <1>6, <1>7, <1>8, <1>9 DEF RegistryInv, GatesSound

LEMMA CommitInv ==
    ASSUME RegistryInv, TypeOK', NEW t \in tickets, CommitMigration(t)
    PROVE  RegistryInv'
<1> DEFINE n == t.name
           d == t.dest
           G == [gate EXCEPT ![t.permit.gen] = RETIRED]
<1>1. TypeOK /\ t.permit.gen \in Generations /\ n \in Names /\ d \in Sessions
  BY DEF RegistryInv, TypeOK, Permit
<1>2. /\ d \notin closed /\ bound[d] = Unbound /\ gen[n] = t.permit.gen /\ nextGen \in Generations
      /\ gen' = [gen EXCEPT ![n] = nextGen] /\ owner' = [owner EXCEPT ![n] = d]
      /\ permit' = [permit EXCEPT ![n] = NoPermit] /\ transfer' = [transfer EXCEPT ![n] = 0]
      /\ bound' = [bound EXCEPT ![d] = [name |-> n, gen |-> nextGen]]
      /\ nextGen' = nextGen + 1 /\ tickets' = tickets \ {t} /\ leases' = leases
      /\ Flush(deferred, G) /\ UNCHANGED <<nextTransfer, closed>>
  BY <1>1, Bounds DEF CommitMigration, Committable, Current, Valid, world, TypeOK
<1>3. /\ G \in [Generations -> 0..TransferMax]
      /\ \A g \in Generations : G[g] = IF g = gen[n] THEN RETIRED ELSE gate[g]
  BY <1>1, <1>2, Bounds DEF TypeOK, RETIRED
<1>4. gen[n] # 0 /\ gen[n] < nextGen
  <2>1. gen[n] # 0
    BY <1>1, <1>2, Bounds
  <2> QED
    BY <1>1, <2>1 DEF RegistryInv, Holders
<1> HIDE DEF n, d, G
<1>5. nextGen \in Nat /\ nextGen # 0 /\ \A m \in Names : gen[m] # nextGen
  BY <1>2, Bounds DEF RegistryInv, Holders, TypeOK
<1>6. Holders'
  <2> SUFFICES ASSUME NEW l \in Names, NEW m \in Names, gen'[m] # 0
               PROVE  /\ gen'[m] < nextGen'
                      /\ gen'[l] = gen'[m] => l = m
    BY DEF Holders
  <2>1. gen[m] # 0 => gen[m] < nextGen /\ gen[m] \in Nat
    BY <1>1, Bounds DEF RegistryInv, Holders, TypeOK
  <2>2. gen[m] # 0 /\ gen[l] = gen[m] => l = m
    BY DEF RegistryInv, Holders
  <2> QED
    BY <1>1, <1>2, <1>5, <2>1, <2>2 DEF TypeOK
<1>7. GatesSound'
  <2>1. deferred \in SUBSET Released
    BY <1>1 DEF TypeOK, Released
  <2>2. \A r \in deferred : /\ r.gen < nextGen' /\ gen'[r.name] = 0
                            /\ \A m \in Names : gen'[m] # r.gen
    <3> SUFFICES ASSUME NEW r \in deferred
                 PROVE  /\ r.gen < nextGen' /\ gen'[r.name] = 0
                        /\ \A m \in Names : gen'[m] # r.gen
      OBVIOUS
    <3>1. /\ r.gen < nextGen /\ r.gen \in Nat /\ r.name \in Names /\ gen[r.name] = 0
          /\ \A m \in Names : gen[m] # r.gen
      BY <1>1, Bounds DEF RegistryInv, Draining, TypeOK
    <3>2. r.name # n
      BY <1>4, <3>1
    <3> QED
      BY <1>1, <1>2, <1>5, <3>1, <3>2 DEF TypeOK
  <2>3. \A r, e \in deferred : r.name = e.name \/ r.gen = e.gen => r = e
    BY DEF RegistryInv, Draining
  <2>4. \A g \in Generations : g >= nextGen' => G[g] = OPEN /\ leases'[g] = 0
    <3> SUFFICES ASSUME NEW g \in Generations, g >= nextGen' PROVE g >= nextGen /\ g # gen[n]
      BY <1>2, <1>3 DEF RegistryInv, FreshGates
    <3>1. gen[n] \in Nat
      <4>1. gen[n] \in Generations \cup {0}
        BY <1>1 DEF TypeOK
      <4> QED
        BY <4>1, GenerationsAreNumbers
    <3>2. g \in Nat /\ g >= nextGen + 1
      BY <1>2, Bounds
    <3> QED
      BY <1>4, <1>5, <3>1, <3>2
  <2>5. \A m \in Names : gen'[m] # 0 => transfer'[m] = G[gen'[m]] /\ G[gen'[m]] # RETIRED
    <3> SUFFICES ASSUME NEW m \in Names, gen'[m] # 0
                 PROVE  transfer'[m] = G[gen'[m]] /\ G[gen'[m]] # RETIRED
      OBVIOUS
    <3>1. CASE m = n
      <4>1. gate[nextGen] = OPEN /\ gen[n] # nextGen
        BY <1>1, <1>2, <1>5 DEF RegistryInv, FreshGates
      <4>2. G[nextGen] = 0 /\ RETIRED # 0
        BY <1>2, <1>3, <4>1, Bounds DEF OPEN, RETIRED
      <4>3. gen'[n] = nextGen /\ transfer'[n] = 0
        BY <1>1, <1>2 DEF TypeOK
      <4> QED
        BY <3>1, <4>2, <4>3
    <3>2. CASE m # n
      <4>1. gen'[m] = gen[m] /\ transfer'[m] = transfer[m]
        BY <1>1, <1>2, <3>2 DEF TypeOK
      <4>2. /\ gen[m] \in Generations /\ gen[m] # gen[n]
            /\ transfer[m] = gate[gen[m]] /\ gate[gen[m]] # RETIRED
        BY <1>1, <3>2, <4>1 DEF RegistryInv, Holders, GateMatches, TypeOK
      <4> QED
        BY <1>3, <4>1, <4>2
    <3> QED
      BY <3>1, <3>2
  <2> QED
    BY <1>2, <1>3, <2>1, <2>2, <2>3, <2>4, <2>5, Settled
<1>8. Idle'
  BY <1>1, <1>2, <1>5 DEF RegistryInv, Idle, TypeOK
<1>9. IndexAgrees'
  <2>1. bound[d].name \notin Names
    BY <1>2, Bounds DEF Unbound
  <2>2. ASSUME NEW m \in Names, owner[m] # NoSession PROVE gen[m] # 0 /\ owner[m] # d
    <3>1. gen[m] # 0 /\ bound[owner[m]] = [name |-> m, gen |-> gen[m]]
      BY <2>2 DEF RegistryInv, IndexAgrees
    <3>2. bound[owner[m]].name = m
      BY <3>1
    <3> QED
      BY <2>1, <3>1, <3>2
  <2> QED
    BY <1>1, <1>2, <1>5, <2>2 DEF RegistryInv, IndexAgrees, TypeOK
<1>10. TicketIds'
  BY <1>2 DEF RegistryInv, TicketIds
<1>11. FreezeBacked'
  <2> SUFFICES ASSUME NEW m \in Names, transfer'[m] # 0
               PROVE  permit'[m] # NoPermit /\ \E u \in tickets' : Backs(u, m)'
    BY DEF FreezeBacked
  <2>1. m # n /\ transfer'[m] = transfer[m] /\ permit'[m] = permit[m] /\ gen'[m] = gen[m]
    BY <1>1, <1>2 DEF TypeOK
  <2>2. permit[m] # NoPermit
    BY <2>1 DEF RegistryInv, FreezeBacked
  <2>3. PICK u \in tickets : Backs(u, m)
    BY <2>1 DEF RegistryInv, FreezeBacked
  <2>4. u # t
    BY <2>1, <2>3 DEF Backs, n
  <2> QED
    BY <1>2, <2>1, <2>2, <2>3, <2>4 DEF Backs
<1> QED
  BY <1>6, <1>7, <1>8, <1>9, <1>10, <1>11 DEF RegistryInv, GatesSound

LEMMA CloseInv ==
    ASSUME RegistryInv, NEW s \in Sessions, Ending(s)
    PROVE  RegistryInv'
<1> DEFINE n == bound[s].name
           owns == n # NoName /\ (n # NoName => owner[n] = s /\ gen[n] = bound[s].gen)
<1>1. TypeOK /\ Idle /\ TypeOK'
  BY CloseTypes DEF RegistryInv
<1>2. /\ closed' = closed \cup {s} /\ bound' = [bound EXCEPT ![s] = Unbound]
      /\ UNCHANGED <<nextGen, nextTransfer, tickets>>
  BY DEF Ending, EndSession
<1>3. ASSUME NEW m \in Names, owner[m] = s PROVE owns /\ m = n
  <2>1. gen[m] # 0 /\ bound[s] = [name |-> m, gen |-> gen[m]]
    BY <1>1, <1>3, Bounds DEF RegistryInv, IndexAgrees
  <2> QED
    BY <1>3, <2>1, Bounds
<1>4. TicketIds'
  BY <1>2 DEF RegistryInv, TicketIds
<1>5. CASE ~owns
  <2>1. UNCHANGED <<active, leases>> /\ FlushOnly
    BY <1>5 DEF Ending, EndSession
  <2>2. GatesSound' /\ Holders'
    BY <1>1, <1>2, <2>1, SettledQuietly DEF RegistryInv, FreshGates, active
  <2>3. Idle' /\ FreezeBacked'
    BY <1>2, <2>1 DEF RegistryInv, Idle, FreezeBacked, Backs, active
  <2>4. IndexAgrees'
    BY <1>1, <1>2, <1>3, <1>5, <2>1 DEF RegistryInv, IndexAgrees, active, TypeOK
  <2> QED
    BY <1>1, <1>4, <2>2, <2>3, <2>4 DEF RegistryInv, GatesSound
<1>6. CASE owns
  <2>1. n \in Names /\ gen[n] # 0 /\ owner[n] = s
    BY <1>1, <1>6, Bounds DEF Idle, TypeOK
  <2>2. CASE /\ owner' = [owner EXCEPT ![n] = NoSession]
             /\ UNCHANGED <<gen, permit, transfer, leases>> /\ FlushOnly
    <3>1. GatesSound' /\ Holders'
      BY <1>1, <1>2, <2>2, SettledQuietly DEF RegistryInv, FreshGates
    <3>2. Idle' /\ FreezeBacked'
      BY <1>1, <1>2, <2>1, <2>2 DEF RegistryInv, Idle, FreezeBacked, Backs, TypeOK
    <3>3. IndexAgrees'
      BY <1>1, <1>2, <1>3, <2>1, <2>2 DEF RegistryInv, IndexAgrees, TypeOK
    <3> QED
      BY <1>1, <1>4, <3>1, <3>2, <3>3 DEF RegistryInv, GatesSound
  <2>3. CASE /\ permit' = [permit EXCEPT ![n] = NoPermit]
             /\ transfer' = [transfer EXCEPT ![n] = 0]
             /\ Remove({n}, Thawed({n}))
    <3>1. /\ \A m \in Names : gen'[m] = IF m = n THEN 0 ELSE gen[m]
          /\ \A m \in Names : owner'[m] = IF m = n THEN NoSession ELSE owner[m]
          /\ \A m \in Names : permit'[m] = IF m = n THEN NoPermit ELSE permit[m]
          /\ \A m \in Names : transfer'[m] = IF m = n THEN 0 ELSE transfer[m]
      BY <1>1, <2>1, <2>3 DEF Remove, TypeOK
    <3>2. \A g \in Generations : g # gen[n] => Thawed({n})[g] = gate[g]
      BY DEF Thawed
    <3>3. \A g \in Generations : g >= nextGen => g # gen[n]
      <4>1. gen[n] < nextGen /\ gen[n] \in Generations
        BY <1>1, <2>1 DEF RegistryInv, Holders, TypeOK
      <4> QED
        BY <1>1, <4>1, Bounds DEF TypeOK
    <3>4. \A m \in Names \ {n} : gen[m] # 0 =>
              transfer'[m] = Thawed({n})[gen[m]] /\ Thawed({n})[gen[m]] # RETIRED
      <4> SUFFICES ASSUME NEW m \in Names \ {n}, gen[m] # 0
                   PROVE  transfer'[m] = Thawed({n})[gen[m]] /\ Thawed({n})[gen[m]] # RETIRED
        OBVIOUS
      <4>1. gen[m] \in Generations /\ gen[m] # gen[n]
        BY <1>1, <2>1 DEF RegistryInv, Holders, TypeOK
      <4> QED
        BY <3>1, <3>2, <4>1 DEF RegistryInv, GateMatches
    <3>5. GatesSound' /\ Holders'
      <4>1. {n} \in SUBSET {m \in Names : gen[m] # 0}
        BY <2>1
      <4>2. Thawed({n}) \in [Generations -> 0..TransferMax]
        BY <1>1, ThawedTypes
      <4>3. Remove({n}, Thawed({n}))
        BY <2>3
      <4>4. \A g \in Generations : g >= nextGen => Thawed({n})[g] = gate[g]
        BY <3>2, <3>3
      <4> QED
        BY <1>1, <1>2, <3>4, <4>1, <4>2, <4>3, <4>4, SettledRemoval
    <3>6. Idle' /\ FreezeBacked'
      BY <1>2, <3>1 DEF RegistryInv, Idle, FreezeBacked, Backs
    <3>7. IndexAgrees'
      BY <1>1, <1>2, <1>3, <3>1 DEF RegistryInv, IndexAgrees, TypeOK
    <3> QED
      BY <1>1, <1>4, <3>5, <3>6, <3>7 DEF RegistryInv, GatesSound
  <2> QED
    BY <1>6, <2>1, <2>2, <2>3 DEF Ending, EndSession
<1> QED
  BY <1>5, <1>6

LEMMA ExpireInv ==
    ASSUME RegistryInv, NEW due \in SUBSET Names, \A n \in due : permit[n] # NoPermit,
           Expire(due)
    PROVE  RegistryInv'
<1> DEFINE R == {n \in due : owner[n] = NoSession}
           G == Thawed(due)
<1>1. TypeOK /\ Idle /\ TypeOK'
  BY ExpireTypes DEF RegistryInv
<1>2. R \in SUBSET {n \in Names : gen[n] # 0} /\ \A n \in due : gen[n] # 0
  BY <1>1 DEF Idle
<1>3. /\ \A m \in Names : gen'[m] = IF m \in R THEN 0 ELSE gen[m]
      /\ \A m \in Names : owner'[m] = IF m \in R THEN NoSession ELSE owner[m]
      /\ \A m \in Names : permit'[m] = IF m \in due THEN NoPermit ELSE permit[m]
      /\ \A m \in Names : transfer'[m] = IF m \in due THEN 0 ELSE transfer[m]
      /\ UNCHANGED <<bound, nextGen, nextTransfer, tickets, closed>>
      /\ Remove(R, G)
  BY <1>2 DEF Expire, Remove, Frozen, world, RegistryInv, GateMatches
<1>4. G \in [Generations -> 0..TransferMax]
  BY <1>1, ThawedTypes
<1>5. \A g \in Generations : (\A n \in due : gen[n] # g) => G[g] = gate[g]
  BY DEF Thawed
<1>6. \A n \in due : G[gen[n]] = OPEN
  <2> SUFFICES ASSUME NEW n \in due PROVE G[gen[n]] = OPEN
    OBVIOUS
  <2>1. /\ gen[n] \in Generations /\ transfer[n] = gate[gen[n]]
        /\ \A m \in due : gen[m] = gen[n] => m = n
    BY <1>1, <1>2 DEF RegistryInv, Holders, GateMatches, TypeOK
  <2> QED
    BY <2>1 DEF Thawed, Frozen, OPEN
<1> HIDE DEF R, G
<1>7. \A g \in Generations : g >= nextGen => G[g] = gate[g]
  <2>1. \A n \in due : gen[n] < nextGen /\ gen[n] \in Generations
    BY <1>1, <1>2 DEF RegistryInv, Holders, TypeOK
  <2> QED
    BY <1>1, <1>5, <2>1, Bounds DEF TypeOK
<1>8. \A m \in Names \ R : gen[m] # 0 => transfer'[m] = G[gen[m]] /\ G[gen[m]] # RETIRED
  <2> SUFFICES ASSUME NEW m \in Names \ R, gen[m] # 0
               PROVE  transfer'[m] = G[gen[m]] /\ G[gen[m]] # RETIRED
    OBVIOUS
  <2>1. CASE m \in due
    BY <1>3, <1>6, <2>1, Bounds DEF OPEN, RETIRED
  <2>2. CASE m \notin due
    <3>1. gen[m] \in Generations /\ \A n \in due : gen[n] # gen[m]
      BY <1>1, <2>2 DEF RegistryInv, Holders, TypeOK
    <3> QED
      BY <1>3, <1>5, <2>2, <3>1 DEF RegistryInv, GateMatches
  <2> QED
    BY <2>1, <2>2
<1>9. GatesSound' /\ Holders'
  BY <1>1, <1>2, <1>3, <1>4, <1>7, <1>8, SettledRemoval
<1>10. Idle'
  BY <1>1, <1>3 DEF Idle, R
<1>11. IndexAgrees'
  BY <1>3 DEF RegistryInv, IndexAgrees
<1>12. TicketIds'
  BY <1>3 DEF RegistryInv, TicketIds
<1>13. FreezeBacked'
  <2> SUFFICES ASSUME NEW m \in Names, transfer'[m] # 0
               PROVE  permit'[m] # NoPermit /\ \E u \in tickets' : Backs(u, m)'
    BY DEF FreezeBacked
  <2>1. /\ m \notin R /\ transfer'[m] = transfer[m] /\ permit'[m] = permit[m] /\ gen'[m] = gen[m]
    BY <1>3 DEF R
  <2> QED
    BY <1>3, <2>1 DEF RegistryInv, FreezeBacked, Backs
<1> QED
  BY <1>1, <1>9, <1>10, <1>11, <1>12, <1>13 DEF RegistryInv, GatesSound

LEMMA DrainInv ==
    ASSUME RegistryInv, DrainSessions
    PROVE  RegistryInv'
<1> DEFINE R == {n \in Names : gen[n] # 0}
<1>1. TypeOK /\ TypeOK'
  BY DrainTypes DEF RegistryInv
<1>2. /\ \A m \in Names : gen'[m] = 0 /\ owner'[m] = NoSession /\ transfer'[m] = 0 /\ permit'[m] = NoPermit
      /\ UNCHANGED <<nextGen, nextTransfer, tickets>> /\ Remove(R, gate)
  BY DEF DrainSessions, Remove, RegistryInv, Idle
<1>3. GatesSound' /\ Holders'
  <2>1. R \in SUBSET {n \in Names : gen[n] # 0} /\ gate \in [Generations -> 0..TransferMax]
    BY <1>1 DEF TypeOK
  <2>2. \A n \in Names \ R : gen[n] # 0 => transfer'[n] = gate[gen[n]] /\ gate[gen[n]] # RETIRED
    OBVIOUS
  <2> HIDE DEF R
  <2> QED
    BY <1>1, <1>2, <2>1, <2>2, SettledRemoval
<1>4. Idle' /\ IndexAgrees' /\ TicketIds' /\ FreezeBacked'
  BY <1>2 DEF RegistryInv, Idle, IndexAgrees, TicketIds, FreezeBacked
<1> QED
  BY <1>1, <1>3, <1>4 DEF RegistryInv, GatesSound

LEMMA OutsideInv ==
    ASSUME RegistryInv,
           \/ \E n \in Names, from \in Origins : ReceiveDatagram(n, from)
           \/ \E d \in inflight : DispatchDatagram(d)
           \/ Tick
           \/ Noted
    PROVE  RegistryInv'
<1>1. TypeOK'
  BY OutsideTypes DEF RegistryInv
<1>2. UNCHANGED <<active, bound, deferred, gate, leases, nextGen, nextTransfer, tickets>>
  BY DEF ReceiveDatagram, DispatchDatagram, Tick, Noted, DeferClose, RegisterWrite, gates
<1>3. FreshGates' /\ Holders' /\ Draining' /\ GateMatches'
  BY <1>2 DEF RegistryInv, FreshGates, Holders, Draining, GateMatches, active
<1> QED
  BY <1>1, <1>2, <1>3, TablesUnchanged DEF RegistryInv

(* An actor turn that touches no name: a refused claim, a shutdown notice, *)
(* any other command, the end of a write that no close waits for.          *)
QuietTurn == \/ \E s \in Sessions, n \in Names : RefuseClaim(s, n)
             \/ \E w \in writes : FinishWrite(w) /\ ~w.closing
             \/ OtherCommand \/ Quiesce

LEMMA QuietFacts ==
    ASSUME RegistryInv, QuietTurn
    PROVE  /\ FlushOnly /\ quiescing' \in BOOLEAN /\ writes' \in SUBSET Writing
           /\ UNCHANGED <<active, bound, epochOf, nextGen, nextTransfer, tickets, closed, now,
                          inflight, leases>>
           /\ epoch' \in Nat /\ epoch' >= epoch
<1>1. quiescing \in BOOLEAN /\ writes \in SUBSET Writing /\ epoch \in Nat
  BY DEF RegistryInv, TypeOK
<1>2. CASE (\E s \in Sessions, n \in Names : RefuseClaim(s, n)) \/ OtherCommand \/ Quiesce
  <2>1. /\ FlushOnly /\ quiescing' \in BOOLEAN /\ epoch' \in {epoch, epoch + 1}
        /\ UNCHANGED <<active, bound, epochOf, nextGen, nextTransfer, tickets, writes, closed,
                       now, inflight, leases>>
    BY <1>1, <1>2 DEF RefuseClaim, OtherCommand, Quiesce, world, udp
  <2> QED
    BY <1>1, <2>1
<1>3. ASSUME NEW w \in writes, FinishWrite(w), ~w.closing
      PROVE  /\ FlushOnly /\ writes' = writes \ {w}
             /\ UNCHANGED <<active, bound, leases, epochOf, nextGen, nextTransfer, tickets,
                            closed, quiescing, now, udp>>
  BY <1>3 DEF FinishWrite
<1>4. CASE \E w \in writes : FinishWrite(w) /\ ~w.closing
  BY <1>1, <1>3, <1>4 DEF udp
<1> QED
  BY <1>2, <1>4 DEF QuietTurn

LEMMA QuietTurnInv ==
    ASSUME RegistryInv, QuietTurn
    PROVE  RegistryInv'
<1>1. /\ FlushOnly /\ quiescing' \in BOOLEAN /\ writes' \in SUBSET Writing
      /\ UNCHANGED <<active, bound, epochOf, nextGen, nextTransfer, tickets, closed, now,
                     inflight, leases>>
      /\ epoch' \in Nat
  BY QuietFacts
<1>2. TypeOK'
  BY <1>1, QuietTypes DEF RegistryInv
<1> QED
  BY <1>1, <1>2, QuietInv DEF RegistryInv, FreshGates

LEMMA TicketInv ==
    ASSUME RegistryInv, NEW t \in tickets, TicketNext(t)
    PROVE  RegistryInv'
<1>1. TypeOK'
  BY TicketTypes DEF RegistryInv
<1>2. CASE AbortMigration(t)
  BY <1>1, <1>2, ReopenInv DEF AbortMigration, world
<1>3. CASE PrepareFails(t)
  BY <1>1, <1>3, ReopenInv DEF PrepareFails, world
<1>4. CASE CommitMigration(t)
  BY <1>1, <1>4, CommitInv
<1> QED
  BY <1>2, <1>3, <1>4 DEF TicketNext

(* A turn that expires permits: the maintenance tick and the shutdown.     *)
ExpiryTurn == \E due \in SUBSET Names : (\A n \in due : permit[n] # NoPermit) /\ Expire(due)

LEMMA DuePermits ==
    ASSUME ExpireMigrations \/ DrainOutboundProducers
    PROVE  ExpiryTurn
BY DEF ExpireMigrations, DrainOutboundProducers, DueBy, ExpiryTurn

LEMMA ExpiryTurnInv ==
    ASSUME RegistryInv, ExpiryTurn
    PROVE  RegistryInv'
BY ExpireInv DEF ExpiryTurn

LEMMA InitInv ==
    ASSUME Init
    PROVE  RegistryInv
<1>1. TypeOK
  <2>1. /\ 1 \in 1..GenMax /\ 1 \in 1..TransferMax /\ 0 \in 0..TransferMax
        /\ 0 \in 0..MaxLeases /\ 0 \in 0..MaxNow /\ 0 \in Nat
    BY Bounds
  <2>2. Unbound \in [name : Names \cup {NoName}, gen : Generations \cup {0}]
    BY DEF Unbound
  <2> QED
    BY <2>1, <2>2 DEF Init, TypeOK, OPEN
<1>2. Idle /\ IndexAgrees /\ Holders /\ Draining /\ GateMatches /\ TicketIds /\ FreezeBacked
  BY DEF Init, Idle, IndexAgrees, Holders, Draining, GateMatches, TicketIds, FreezeBacked
<1>3. FreshGates
  BY DEF Init, FreshGates
<1> QED
  BY <1>1, <1>2, <1>3 DEF RegistryInv

LEMMA StutterInv ==
    ASSUME RegistryInv, UNCHANGED vars
    PROVE  RegistryInv'
<1>1. TypeOK'
  BY DEF RegistryInv, TypeOK, vars
<1>2. FreshGates' /\ Holders' /\ Draining' /\ GateMatches'
  BY DEF RegistryInv, FreshGates, Holders, Draining, GateMatches, vars
<1>3. UNCHANGED <<active, bound, tickets, nextTransfer>>
  BY DEF vars, active
<1> QED
  BY <1>1, <1>2, <1>3, TablesUnchanged DEF RegistryInv

-----------------------------------------------------------------------------
(* What one step does to the owners of the names.                          *)
OwnerKept ==
    \A n \in Names : owner[n] # NoSession /\ owner'[n] # owner[n] =>
        \/ owner[n] \in closed'
        \/ /\ owner'[n] # NoSession
           /\ permit[n] # NoPermit
           /\ permit[n].source = owner[n]

LEMMA CommitKeepsOwner ==
    ASSUME RegistryInv, NEW t \in tickets, CommitMigration(t)
    PROVE  OwnerKept
<1>1. TypeOK /\ t.name \in Names /\ t.dest \in Sessions /\ NoSession \notin Sessions
  BY Bounds DEF RegistryInv, TypeOK
<1>2. /\ owner' = [owner EXCEPT ![t.name] = t.dest] /\ permit[t.name] # NoPermit
      /\ owner[t.name] \in {NoSession, permit[t.name].source}
  BY DEF CommitMigration, Committable, Valid
<1> QED
  BY <1>1, <1>2 DEF OwnerKept, TypeOK

LEMMA CloseKeepsOwner ==
    ASSUME RegistryInv, NEW s \in Sessions, Ending(s)
    PROVE  OwnerKept
<1> DEFINE n == bound[s].name
           owns == n # NoName /\ (n # NoName => owner[n] = s /\ gen[n] = bound[s].gen)
<1>1. s \in closed'
  BY DEF Ending, EndSession
<1>2. CASE ~owns
  BY <1>2 DEF Ending, EndSession, OwnerKept, active
<1>3. CASE owns
  <2>1. n \in Names /\ owner[n] = s
    BY <1>3, Bounds DEF RegistryInv, TypeOK
  <2>2. \A m \in Names : m # n => owner'[m] = owner[m]
    BY <1>3, <2>1 DEF Ending, EndSession, Remove, RegistryInv, TypeOK
  <2> QED
    BY <1>1, <2>1, <2>2 DEF OwnerKept
<1> QED
  BY <1>2, <1>3

LEMMA RemovalKeepsOwner ==
    ASSUME RegistryInv, ExpiryTurn \/ DrainSessions
    PROVE  OwnerKept
<1>1. ASSUME NEW due \in SUBSET Names, Expire(due) PROVE OwnerKept
  BY <1>1 DEF Expire, Remove, OwnerKept
<1>2. ASSUME DrainSessions PROVE OwnerKept
  BY <1>2 DEF DrainSessions, RegistryInv, TypeOK, OwnerKept
<1> QED
  BY <1>1, <1>2 DEF ExpiryTurn

-----------------------------------------------------------------------------
(* Who holds a name, seen from outside: its active generation, or the one  *)
(* that still drains.                                                      *)
HeldIn(G, D, n) == IF G[n] # 0 THEN G[n]
                   ELSE IF \E d \in D : d.name = n
                        THEN (CHOOSE d \in D : d.name = n).gen
                        ELSE 0

LEMMA HeldCases ==
    ASSUME NEW G, NEW D, NEW n, \A d, e \in D : d.name = e.name => d = e
    PROVE  /\ G[n] # 0 => HeldIn(G, D, n) = G[n]
           /\ \A d \in D : G[n] = 0 /\ d.name = n => HeldIn(G, D, n) = d.gen
           /\ G[n] = 0 /\ (\A d \in D : d.name # n) => HeldIn(G, D, n) = 0
<1>1. ASSUME NEW d \in D, G[n] = 0, d.name = n PROVE HeldIn(G, D, n) = d.gen
  <2> DEFINE c == CHOOSE e \in D : e.name = n
  <2>1. c \in D /\ c.name = n
    BY <1>1
  <2>2. c = d
    BY <1>1, <2>1
  <2>3. HeldIn(G, D, n) = c.gen
    BY <1>1 DEF HeldIn
  <2> QED
    BY <2>2, <2>3
<1> QED
  BY <1>1 DEF HeldIn

(* No two names are held by one generation.                                *)
LEMMA HeldApart ==
    ASSUME NEW G, NEW D,
           \A m, n \in Names : G[n] # 0 /\ G[m] = G[n] => m = n,
           \A d \in D : d.name \in Names /\ \A n \in Names : G[n] # d.gen,
           \A d, e \in D : d.name = e.name \/ d.gen = e.gen => d = e,
           NEW m \in Names, NEW n \in Names,
           HeldIn(G, D, m) = HeldIn(G, D, n), HeldIn(G, D, n) # 0
    PROVE  m = n
<1>1. \A l \in Names : \/ G[l] # 0 /\ HeldIn(G, D, l) = G[l]
                       \/ \E d \in D : d.name = l /\ HeldIn(G, D, l) = d.gen
                       \/ HeldIn(G, D, l) = 0
  <2> SUFFICES ASSUME NEW l \in Names
               PROVE  \/ G[l] # 0 /\ HeldIn(G, D, l) = G[l]
                      \/ \E d \in D : d.name = l /\ HeldIn(G, D, l) = d.gen
                      \/ HeldIn(G, D, l) = 0
    OBVIOUS
  <2>1. \A d, e \in D : d.name = e.name => d = e
    OBVIOUS
  <2> QED
    BY <2>1, HeldCases
<1> QED
  BY <1>1

(* The registry's state seen as IdentityOwnership.                         *)
held == [n \in Names |-> HeldIn(gen, deferred, n)]
running == [n \in Names |-> IF held[n] = 0 THEN 0 ELSE leases[held[n]]]

(* One step of IdentityOwnership in these terms.                           *)
KeepName(n) == /\ held'[n] = held[n]
               /\ running'[n] \in Nat
               /\ held[n] = 0 => running'[n] = 0
HandName(n) == /\ running[n] = 0 /\ running'[n] = 0
               /\ held'[n] = 0 \/ held'[n] \in nextGen..(nextGen' - 1)

LEMMA OwnershipStep ==
    ASSUME RegistryInv, RegistryInv', nextGen' >= nextGen,
           \A n \in Names : KeepName(n) \/ HandName(n)
    PROVE  Ownership!Next
<1>1. \A n \in Names : HeldBy(n) = held[n] /\ HeldBy(n)' = held'[n]
  BY DEF HeldBy, HeldIn, held
<1>2. [n \in Names |-> HeldBy(n)] = held /\ [n \in Names |-> HeldBy(n)]' = held'
  BY DEF HeldBy, HeldIn, held
<1>3. /\ [n \in Names |-> IF HeldBy(n) = 0 THEN 0 ELSE leases[HeldBy(n)]] = running
      /\ [n \in Names |-> IF HeldBy(n) = 0 THEN 0 ELSE leases[HeldBy(n)]]' = running'
  BY <1>1 DEF running
<1>4. \A m, n \in Names : held'[m] = held'[n] /\ held'[n] # 0 => m = n
  <2>1. \A m, n \in Names : gen'[n] # 0 /\ gen'[m] = gen'[n] => m = n
    BY DEF RegistryInv, Holders
  <2>2. \A d \in deferred' : d.name \in Names /\ \A n \in Names : gen'[n] # d.gen
    BY DEF RegistryInv, Draining, TypeOK
  <2>3. \A d, e \in deferred' : d.name = e.name \/ d.gen = e.gen => d = e
    BY DEF RegistryInv, Draining
  <2> QED
    BY <2>1, <2>2, <2>3, HeldApart DEF held
<1>5. nextGen' \in Nat
  BY Bounds DEF RegistryInv, TypeOK
<1>6. \A n \in Names : \/ /\ held'[n] = held[n]
                          /\ running'[n] \in Nat
                          /\ held[n] = 0 => running'[n] = 0
                       \/ /\ running[n] = 0 /\ running'[n] = 0
                          /\ held'[n] = 0 \/ held'[n] \in nextGen..(nextGen' - 1)
  BY DEF KeepName, HandName
<1> HIDE DEF held, running
<1> QED
  BY <1>2, <1>3, <1>4, <1>5, <1>6 DEF Ownership!Next, Ownership!Keep, Ownership!HandOver

(* The generation that holds a name has a lease count.                     *)
LEMMA HeldTypes ==
    ASSUME NEW G \in [Names -> Generations \cup {0}], NEW D \in SUBSET Released,
           \A d, e \in D : d.name = e.name => d = e, NEW n \in Names
    PROVE  HeldIn(G, D, n) \in Generations \cup {0}
BY HeldCases DEF Released

(* No name changes hands while the tables and the releases stand still.    *)
LEMMA HeldUnmoved ==
    ASSUME RegistryInv, RegistryInv', UNCHANGED <<gen, deferred, nextGen>>
    PROVE  Ownership!Next
<1>1. held' = held
  BY DEF held
<1>2. \A n \in Names : held[n] \in Generations \cup {0}
  <2>1. \A d, e \in deferred : d.name = e.name => d = e
    BY DEF RegistryInv, Draining
  <2>2. gen \in [Names -> Generations \cup {0}] /\ deferred \in SUBSET Released
    BY DEF RegistryInv, TypeOK, Released
  <2> QED
    BY <2>1, <2>2, HeldTypes DEF held
<1>3. \A g \in Generations : leases'[g] \in Nat
  BY Bounds DEF RegistryInv, TypeOK
<1>4. \A n \in Names : KeepName(n)
  BY <1>1, <1>2, <1>3 DEF KeepName, running
<1>5. nextGen' >= nextGen
  BY Bounds DEF RegistryInv, TypeOK
<1> QED
  BY <1>4, <1>5, OwnershipStep

(* A turn of the actor: the releases D that it leaves to be collected are  *)
(* the old ones and the names that it drops; a name that it grants goes to *)
(* a fresh generation, and a holder that it replaces has no operation.     *)
LEMMA HeldTurn ==
    ASSUME RegistryInv, RegistryInv',
           NEW D, deferred' = {r \in D : leases'[r.gen] # 0},
           deferred \subseteq D,
           \A r \in D : /\ r.gen \in Generations /\ leases'[r.gen] = leases[r.gen]
                        /\ r \notin deferred => gen[r.name] # 0 /\ r.gen = gen[r.name],
           \A n \in Names : gen[n] # 0 /\ gen'[n] = 0 => [name |-> n, gen |-> gen[n]] \in D,
           \A n \in Names : gen'[n] # gen[n] /\ gen'[n] # 0 =>
               /\ gen'[n] = nextGen /\ nextGen' = nextGen + 1
               /\ leases'[gen'[n]] = 0
               /\ gen[n] # 0 => leases[gen[n]] = 0,
           nextGen' >= nextGen
    PROVE  Ownership!Next
<1>1. /\ TypeOK /\ TypeOK'
      /\ \A d, e \in deferred : d.name = e.name => d = e
      /\ \A d, e \in deferred' : d.name = e.name => d = e
      /\ \A d \in deferred : gen[d.name] = 0
      /\ \A d \in deferred' : gen'[d.name] = 0
  BY DEF RegistryInv, Draining
<1>2. \A g \in Generations : leases'[g] \in Nat /\ g # 0
  BY <1>1, Bounds DEF TypeOK
<1>3. ASSUME NEW n \in Names
      PROVE  /\ gen[n] # 0 => held[n] = gen[n]
             /\ \A d \in deferred : gen[n] = 0 /\ d.name = n => held[n] = d.gen
             /\ gen[n] = 0 /\ (\A d \in deferred : d.name # n) => held[n] = 0
  BY <1>1, HeldCases DEF held
<1>4. ASSUME NEW n \in Names
      PROVE  /\ gen'[n] # 0 => held'[n] = gen'[n]
             /\ \A d \in deferred' : gen'[n] = 0 /\ d.name = n => held'[n] = d.gen
             /\ gen'[n] = 0 /\ (\A d \in deferred' : d.name # n) => held'[n] = 0
  BY <1>1, HeldCases DEF held
<1>5. /\ \A n \in Names : running[n] = IF held[n] = 0 THEN 0 ELSE leases[held[n]]
      /\ \A n \in Names : running'[n] = IF held'[n] = 0 THEN 0 ELSE leases'[held'[n]]
  BY DEF running
<1> HIDE DEF held, running
<1> SUFFICES ASSUME NEW n \in Names PROVE KeepName(n) \/ HandName(n)
  BY OwnershipStep
<1>6. CASE gen'[n] # 0 /\ gen'[n] = gen[n]
  <2>1. held'[n] = gen[n] /\ held[n] = gen[n] /\ gen[n] \in Generations
    BY <1>1, <1>3, <1>4, <1>6 DEF TypeOK
  <2> QED
    BY <1>2, <1>5, <2>1 DEF KeepName
<1>7. CASE gen'[n] = 0 /\ gen[n] = 0
  <2>1. CASE \E r \in deferred : r.name = n
    <3>1. PICK r \in deferred : r.name = n
      BY <2>1
    <3>2. held[n] = r.gen /\ r.gen \in Generations /\ leases'[r.gen] = leases[r.gen]
      BY <1>3, <1>7, <3>1
    <3>3. CASE leases'[r.gen] # 0
      <4>1. held'[n] = r.gen
        BY <1>4, <1>7, <3>1, <3>3
      <4> QED
        BY <1>2, <1>5, <3>2, <4>1 DEF KeepName
    <3>4. CASE leases'[r.gen] = 0
      <4>1. \A d \in deferred' : d.name # n
        BY <1>1, <1>7, <3>1, <3>4
      <4>2. held'[n] = 0
        BY <1>4, <1>7, <4>1
      <4> QED
        BY <1>2, <1>5, <3>2, <3>4, <4>2 DEF HandName
    <3> QED
      BY <3>3, <3>4
  <2>2. CASE \A r \in deferred : r.name # n
    <3>1. \A d \in deferred' : d.name # n
      BY <1>7, <2>2
    <3>2. held[n] = 0 /\ held'[n] = 0
      BY <1>3, <1>4, <1>7, <2>2, <3>1
    <3> QED
      BY <1>5, <3>2 DEF KeepName
  <2> QED
    BY <2>1, <2>2
<1>8. CASE gen'[n] = 0 /\ gen[n] # 0
  <2>1. held[n] = gen[n] /\ gen[n] \in Generations
    BY <1>1, <1>3, <1>8 DEF TypeOK
  <2>2. PICK r \in D : r = [name |-> n, gen |-> gen[n]]
    BY <1>8
  <2>3. r.name = n /\ r.gen = gen[n] /\ leases'[gen[n]] = leases[gen[n]]
    BY <2>2
  <2>4. CASE leases'[gen[n]] # 0
    <3>1. held'[n] = gen[n]
      BY <1>4, <1>8, <2>3, <2>4
    <3> QED
      BY <1>2, <1>5, <2>1, <3>1 DEF KeepName
  <2>5. CASE leases'[gen[n]] = 0
    <3>1. \A d \in deferred' : d.name # n
      BY <1>1, <1>8, <2>5
    <3>2. held'[n] = 0
      BY <1>4, <1>8, <3>1
    <3> QED
      BY <1>2, <1>5, <2>1, <2>3, <2>5, <3>2 DEF HandName
  <2> QED
    BY <2>4, <2>5
<1>9. CASE gen'[n] # 0 /\ gen'[n] # gen[n]
  <2>1. /\ held'[n] = nextGen /\ nextGen' = nextGen + 1 /\ nextGen \in Nat /\ nextGen # 0
        /\ leases'[nextGen] = 0
    BY <1>1, <1>4, <1>9, Bounds DEF TypeOK
  <2>2. running'[n] = 0 /\ held'[n] \in nextGen..(nextGen' - 1)
    BY <1>5, <2>1
  <2>3. running[n] = 0
    <3>1. CASE gen[n] # 0
      <4>1. leases[gen[n]] = 0 /\ held[n] = gen[n]
        BY <1>3, <1>9, <3>1
      <4> QED
        BY <1>5, <4>1
    <3>2. CASE gen[n] = 0 /\ \E r \in deferred : r.name = n
      <4>1. PICK r \in deferred : r.name = n
        BY <3>2
      <4>2. held[n] = r.gen /\ r \in D
        BY <1>3, <3>2, <4>1
      <4>3. leases'[r.gen] = 0 /\ leases[r.gen] = 0
        BY <1>1, <1>9, <4>1, <4>2
      <4> QED
        BY <1>5, <4>2, <4>3
    <3>3. CASE gen[n] = 0 /\ \A r \in deferred : r.name # n
      BY <1>3, <1>5, <3>3
    <3> QED
      BY <3>1, <3>2, <3>3
  <2> QED
    BY <2>2, <2>3 DEF HandName
<1> QED
  BY <1>6, <1>7, <1>8, <1>9

LEMMA HeldCollect ==
    ASSUME RegistryInv, RegistryInv', NEW G, Flush(deferred, G), UNCHANGED gen,
           nextGen' >= nextGen, \A r \in deferred : leases'[r.gen] = leases[r.gen]
    PROVE  Ownership!Next
<1>1. deferred' = {r \in deferred : leases'[r.gen] # 0}
  BY DEF Flush
<1>2. \A r \in deferred : r.gen \in Generations
  BY DEF RegistryInv, TypeOK
<1> QED
  BY <1>1, <1>2, HeldTurn

LEMMA HeldRemove ==
    ASSUME RegistryInv, RegistryInv', NEW R \in SUBSET {n \in Names : gen[n] # 0}, NEW G,
           Remove(R, G), UNCHANGED nextGen
    PROVE  Ownership!Next
<1> DEFINE D == deferred \cup {[name |-> n, gen |-> gen[n]] : n \in R}
<1>1. deferred' = {r \in D : leases'[r.gen] # 0} /\ leases' = leases
  BY DEF Remove, Flush
<1>2. /\ \A n \in Names : gen'[n] = IF n \in R THEN 0 ELSE gen[n]
      /\ TypeOK
  BY DEF Remove, RegistryInv
<1>3. \A r \in D : /\ r.gen \in Generations
                   /\ r \notin deferred => gen[r.name] # 0 /\ r.gen = gen[r.name]
  BY <1>2 DEF TypeOK
<1>4. \A n \in Names : gen[n] # 0 /\ gen'[n] = 0 => [name |-> n, gen |-> gen[n]] \in D
  BY <1>2
<1>5. \A n \in Names : ~(gen'[n] # gen[n] /\ gen'[n] # 0)
  BY <1>2
<1>6. deferred \subseteq D /\ nextGen' >= nextGen
  BY <1>2, Bounds DEF TypeOK
<1> HIDE DEF D
<1> QED
  BY <1>1, <1>3, <1>4, <1>5, <1>6, HeldTurn

(* A turn that grants n to the next generation.                            *)
LEMMA HeldGrant ==
    ASSUME RegistryInv, RegistryInv', NEW n \in Names, NEW G, Flush(deferred, G),
           gen' = [gen EXCEPT ![n] = nextGen], nextGen' = nextGen + 1, nextGen \in Generations,
           leases' = leases, gen[n] # 0 => leases[gen[n]] = 0
    PROVE  Ownership!Next
<1>1. deferred' = {r \in deferred : leases'[r.gen] # 0}
  BY DEF Flush
<1>2. /\ \A r \in deferred : r.gen \in Generations
      /\ \A m \in Names : gen'[m] = IF m = n THEN nextGen ELSE gen[m]
  BY DEF RegistryInv, TypeOK
<1>3. leases'[nextGen] = 0 /\ nextGen # 0 /\ nextGen' >= nextGen
  BY Bounds DEF RegistryInv, FreshGates
<1>4. \A m \in Names : ~(gen[m] # 0 /\ gen'[m] = 0)
  BY <1>2, <1>3
<1>5. \A m \in Names : gen'[m] # gen[m] /\ gen'[m] # 0 =>
          /\ gen'[m] = nextGen /\ nextGen' = nextGen + 1
          /\ leases'[gen'[m]] = 0
          /\ gen[m] # 0 => leases[gen[m]] = 0
  BY <1>2, <1>3
<1> QED
  BY <1>1, <1>2, <1>3, <1>4, <1>5, HeldTurn

LEMMA SessionHolds ==
    ASSUME RegistryInv, RegistryInv', NEW s \in Sessions, NEW n \in Names,
           \/ Claim(s, n) \/ AdmitOperation(s, n)
           \/ \E token \in Tokens : BeginMigration(s, n, token) \/ PreflightMigration(s, n, token)
    PROVE  Ownership!Next
<1>1. nextGen >= nextGen /\ TypeOK
  BY Bounds DEF RegistryInv, TypeOK
<1>2. CASE Claim(s, n)
  <2>1. nextGen \in Generations
    BY <1>1, <1>2, Bounds DEF Claim, TypeOK
  <2> QED
    BY <1>2, <2>1, HeldGrant DEF Claim, FlushOnly
<1>3. CASE AdmitOperation(s, n)
  <2>1. /\ gen[n] # 0 /\ leases' = [leases EXCEPT ![gen[n]] = @ + 1]
        /\ Flush(deferred, gate) /\ UNCHANGED <<gen, nextGen>>
    BY <1>3 DEF AdmitOperation, Authorized, FlushOnly, active
  <2>2. \A r \in deferred : leases'[r.gen] = leases[r.gen]
    BY <1>1, <2>1 DEF RegistryInv, Draining, TypeOK
  <2> QED
    BY <1>1, <2>1, <2>2, HeldCollect
<1>4. CASE \E token \in Tokens : BeginMigration(s, n, token)
  BY <1>1, <1>4, HeldCollect DEF BeginMigration, FlushOnly
<1>5. CASE \E token \in Tokens : PreflightMigration(s, n, token)
  BY <1>1, <1>5, HeldCollect DEF PreflightMigration
<1> QED
  BY <1>2, <1>3, <1>4, <1>5

LEMMA TicketHolds ==
    ASSUME RegistryInv, RegistryInv', NEW t \in tickets, TicketNext(t)
    PROVE  Ownership!Next
<1>1. TypeOK /\ nextGen \in Nat
  BY Bounds DEF RegistryInv, TypeOK
<1>2. CASE Reopen(t) /\ UNCHANGED gen /\ nextGen' \in {nextGen, nextGen + 1}
  <2>1. leases' = leases /\ \E G : Flush(deferred, G)
    BY <1>2 DEF Reopen, FlushOnly
  <2> QED
    BY <1>1, <1>2, <2>1, HeldCollect
<1>3. CASE CommitMigration(t)
  <2>1. /\ gen' = [gen EXCEPT ![t.name] = nextGen] /\ nextGen' = nextGen + 1 /\ leases' = leases
        /\ nextGen < GenMax /\ gen[t.name] = t.permit.gen /\ leases[t.permit.gen] = 0
        /\ Flush(deferred, [gate EXCEPT ![t.permit.gen] = RETIRED])
    BY <1>3 DEF CommitMigration, Committable, Current
  <2>2. nextGen \in Generations /\ t.name \in Names
    BY <1>1, <2>1, Bounds DEF TypeOK
  <2> QED
    BY <2>1, <2>2, HeldGrant
<1> QED
  BY <1>2, <1>3 DEF TicketNext, AbortMigration, PrepareFails

LEMMA CloseHolds ==
    ASSUME RegistryInv, RegistryInv', NEW s \in Sessions, Ending(s)
    PROVE  Ownership!Next
<1> DEFINE n == bound[s].name
           owns == n # NoName /\ (n # NoName => owner[n] = s /\ gen[n] = bound[s].gen)
<1>1. nextGen' = nextGen /\ nextGen' >= nextGen
  BY Bounds DEF Ending, EndSession, RegistryInv, TypeOK
<1>2. CASE FlushOnly /\ UNCHANGED <<gen, leases>>
  BY <1>1, <1>2, HeldCollect DEF FlushOnly
<1>3. CASE owns /\ Remove({n}, Thawed({n}))
  <2>1. n \in Names /\ gen[n] # 0
    BY <1>3, Bounds DEF RegistryInv, Idle, TypeOK
  <2>2. {n} \in SUBSET {m \in Names : gen[m] # 0}
    BY <2>1
  <2> QED
    BY <1>1, <1>3, <2>2, HeldRemove
<1> QED
  BY <1>2, <1>3 DEF Ending, EndSession, active

LEMMA RemovalHolds ==
    ASSUME RegistryInv, RegistryInv', ExpiryTurn \/ DrainSessions
    PROVE  Ownership!Next
<1>1. ASSUME NEW due \in SUBSET Names, \A n \in due : permit[n] # NoPermit, Expire(due)
      PROVE  Ownership!Next
  <2> DEFINE R == {n \in due : owner[n] = NoSession}
  <2>1. R \in SUBSET {n \in Names : gen[n] # 0}
    BY <1>1 DEF RegistryInv, Idle
  <2>2. Remove(R, Thawed(due)) /\ UNCHANGED nextGen
    BY <1>1 DEF Expire
  <2> HIDE DEF R
  <2> QED
    BY <2>1, <2>2, HeldRemove
<1>2. ASSUME DrainSessions PROVE Ownership!Next
  BY <1>2, HeldRemove DEF DrainSessions
<1> QED
  BY <1>1, <1>2 DEF ExpiryTurn

-----------------------------------------------------------------------------
(* Every step keeps the invariant, keeps the owners and is a step of       *)
(* IdentityOwnership.                                                      *)
Good == RegistryInv' /\ OwnerKept /\ Ownership!Next

LEMMA GoodStep ==
    ASSUME RegistryInv, Next
    PROVE  Good
<1>1. ASSUME NEW s \in Sessions, NEW n \in Names,
             \/ Claim(s, n) \/ AdmitOperation(s, n)
             \/ \E token \in Tokens : BeginMigration(s, n, token) \/ PreflightMigration(s, n, token)
      PROVE  Good
  <2>1. RegistryInv'
    BY <1>1, ClaimInv, LeaseInv, BeginInv, PreflightInv
  <2>2. OwnerKept
    <3>1. CASE Claim(s, n)
      BY <3>1 DEF Claim, RegistryInv, Idle, TypeOK, OwnerKept
    <3>2. CASE UNCHANGED owner
      BY <3>2 DEF OwnerKept
    <3> QED
      BY <1>1, <3>1, <3>2 DEF AdmitOperation, BeginMigration, PreflightMigration, active
  <2> QED
    BY <1>1, <2>1, <2>2, SessionHolds DEF Good
<1>2. ASSUME QuietTurn PROVE Good
  <2>1. RegistryInv'
    BY <1>2, QuietTurnInv
  <2>2. FlushOnly /\ UNCHANGED <<gen, owner, leases, nextGen>>
    BY <1>2, QuietFacts DEF active
  <2>3. nextGen' >= nextGen
    BY <2>2, Bounds DEF RegistryInv, TypeOK
  <2>4. Ownership!Next
    BY <2>1, <2>2, <2>3, HeldCollect DEF FlushOnly
  <2> QED
    BY <2>1, <2>2, <2>4 DEF Good, OwnerKept
<1>3. ASSUME NEW s \in Sessions, Ending(s) PROVE Good
  BY <1>3, CloseInv, CloseKeepsOwner, CloseHolds DEF Good
<1>4. ASSUME NEW t \in tickets, TicketNext(t) PROVE Good
  <2>1. OwnerKept
    <3>1. CASE CommitMigration(t)
      BY <3>1, CommitKeepsOwner
    <3>2. CASE UNCHANGED owner
      BY <3>2 DEF OwnerKept
    <3> QED
      BY <1>4, <3>1, <3>2 DEF TicketNext, AbortMigration, PrepareFails
  <2>2. RegistryInv'
    BY <1>4, TicketInv
  <2> QED
    BY <1>4, <2>1, <2>2, TicketHolds DEF Good
<1>5. ASSUME NEW g \in Generations, RetainLease(g) \/ DropLease(g) PROVE Good
  <2>1. RegistryInv'
    BY <1>5, LeaseInv
  <2>2. UNCHANGED <<gen, owner, deferred, nextGen>>
    BY <1>5 DEF RetainLease, DropLease, active
  <2> QED
    BY <2>1, <2>2, HeldUnmoved DEF Good, OwnerKept
<1>6. ASSUME ExpiryTurn \/ DrainSessions PROVE Good
  <2>1. RegistryInv'
    BY <1>6, ExpiryTurnInv, DrainInv
  <2> QED
    BY <1>6, <2>1, RemovalKeepsOwner, RemovalHolds DEF Good
<1>7. ASSUME \/ \E n \in Names, from \in Origins : ReceiveDatagram(n, from)
             \/ \E d \in inflight : DispatchDatagram(d)
             \/ Tick
             \/ Noted
      PROVE  Good
  <2>1. RegistryInv'
    BY <1>7, OutsideInv
  <2>2. UNCHANGED <<gen, owner, deferred, nextGen>>
    BY <1>7 DEF ReceiveDatagram, DispatchDatagram, Tick, Noted, DeferClose, RegisterWrite, active
  <2> QED
    BY <2>1, <2>2, HeldUnmoved DEF Good, OwnerKept
<1>8. ASSUME NEW w \in writes, FinishWrite(w) PROVE Good
  <2>1. CASE w.closing
    BY <1>3, <1>8, <2>1, Endings DEF RegistryInv
  <2>2. CASE ~w.closing
    BY <1>2, <1>8, <2>2 DEF QuietTurn
  <2> QED
    BY <2>1, <2>2
<1>9. ASSUME NEW s \in Sessions, CloseSession(s) \/ DeferClose(s) PROVE Good
  BY <1>3, <1>7, <1>9, Endings DEF RegistryInv, Noted
<1>10. ASSUME NEW s \in Sessions, NEW n \in Names, RefuseClaim(s, n) \/ RegisterWrite(s, n)
       PROVE  Good
  BY <1>2, <1>7, <1>10 DEF QuietTurn, Noted
<1> HIDE DEF Good
<1> QED
  BY <1>1, <1>2, <1>4, <1>5, <1>6, <1>7, <1>8, <1>9, <1>10, DuePermits DEF Next, Step, QuietTurn

LEMMA InitOwnership ==
    ASSUME Init
    PROVE  Ownership!Init
<1>1. \A n \in Names : HeldBy(n) = 0
  BY DEF Init, HeldBy
<1> QED
  BY <1>1 DEF Ownership!Init, Init

(* The inductive invariant holds in every behaviour of the registry.       *)
THEOREM RegistryInvariant == Spec => []RegistryInv
<1>1. RegistryInv /\ [Next]_vars => RegistryInv'
  BY GoodStep, StutterInv DEF Good
<1> QED
  BY <1>1, InitInv, PTL DEF Spec

(* The tables of the registry keep their types.                            *)
THEOREM RegistryTypeCorrect == Spec => []TypeOK
<1>1. RegistryInv => TypeOK
  BY DEF RegistryInv
<1> QED
  BY <1>1, RegistryInvariant, PTL

LEMMA FreezeHasOneTicket ==
    ASSUME RegistryInv
    PROVE  FreezeAgrees
<1> SUFFICES ASSUME NEW n \in Names, gen[n] # 0, transfer[n] # 0
             PROVE  Cardinality({t \in tickets : Current(t) /\ t.name = n}) = 1
  BY DEF RegistryInv, GateMatches, FreezeBacked, FreezeAgrees
<1>1. PICK u \in tickets : Backs(u, n)
  BY DEF RegistryInv, FreezeBacked
<1>2. \A t \in tickets : Current(t) /\ t.name = n => t = u
  BY <1>1 DEF RegistryInv, TicketIds, Backs, Current
<1>3. {t \in tickets : Current(t) /\ t.name = n} = {u}
  BY <1>1, <1>2, BackedIsCurrent
<1> QED
  BY <1>3, FS_Singleton

(* A write on the way is for the name that its session is bound to, unless *)
(* the session has left already.                                           *)
WriteOwners == \A w \in writes : w.owner \in closed \/ bound[w.owner].name = w.name

ClosingInv == ClosesWait /\ WriteOwners

LEMMA BindingClosing ==
    ASSUME RegistryInv, ClosingInv, NEW s \in Sessions, s \notin closed, bound[s] = Unbound,
           NEW x, bound' = [bound EXCEPT ![s] = x], UNCHANGED <<writes, closed>>
    PROVE  ClosingInv'
<1>1. \A w \in writes : w.name \in Names /\ w.owner \in Sessions
  BY DEF RegistryInv, TypeOK, Writing
<1>2. \A w \in writes : w.owner # s
  BY <1>1, Bounds DEF ClosingInv, WriteOwners, Unbound
<1>3. \A r \in Sessions : r # s => bound'[r] = bound[r]
  BY DEF RegistryInv, TypeOK
<1>4. closed \subseteq Sessions
  BY DEF RegistryInv, TypeOK
<1> QED
  BY <1>1, <1>2, <1>3, <1>4 DEF ClosingInv, ClosesWait, WriteOwners

LEMMA EndingClosing ==
    ASSUME RegistryInv, ClosingInv, NEW s \in Sessions, Ending(s),
           \A w \in writes \ writes' : w.owner = s
    PROVE  ClosingInv'
<1>1. /\ closed' = closed \cup {s} /\ bound' = [bound EXCEPT ![s] = Unbound]
      /\ writes' \subseteq writes
  BY DEF Ending, EndSession
<1>2. bound'[s] = Unbound /\ \A r \in Sessions : r # s => bound'[r] = bound[r]
  BY <1>1 DEF RegistryInv, TypeOK
<1>3. closed \subseteq Sessions /\ \A w \in writes : w.owner \in Sessions
  BY DEF RegistryInv, TypeOK, Writing
<1>4. ClosesWait'
  <2> SUFFICES ASSUME NEW r \in closed', bound'[r] # Unbound
               PROVE  \E w \in writes' : w.owner = r /\ w.name = bound'[r].name /\ w.closing
    BY DEF ClosesWait
  <2>1. r # s /\ r \in closed /\ bound'[r] = bound[r]
    BY <1>1, <1>2, <1>3
  <2> QED
    BY <2>1 DEF ClosingInv, ClosesWait
<1>5. WriteOwners'
  BY <1>1, <1>2, <1>3 DEF ClosingInv, WriteOwners
<1> QED
  BY <1>4, <1>5 DEF ClosingInv

LEMMA DeferClosing ==
    ASSUME RegistryInv, ClosingInv, NEW s \in Sessions, DeferClose(s)
    PROVE  ClosingInv'
<1>1. /\ s \notin closed /\ closed' = closed \cup {s} /\ bound' = bound
      /\ writes' = {IF w.owner = s THEN [w EXCEPT !.closing = TRUE] ELSE w : w \in writes}
  BY DEF DeferClose
<1>2. \A w \in writes : w \in Writing
  BY DEF RegistryInv, TypeOK
<1>3. ClosesWait'
  <2> SUFFICES ASSUME NEW r \in closed', bound[r] # Unbound
               PROVE  \E w \in writes' : w.owner = r /\ w.name = bound[r].name /\ w.closing
    BY <1>1 DEF ClosesWait
  <2>1. CASE r = s
    <3>1. PICK w \in writes : w.owner = s
      BY DEF DeferClose
    <3>2. w.name = bound[s].name
      BY <1>1, <3>1 DEF ClosingInv, WriteOwners
    <3> DEFINE v == [w EXCEPT !.closing = TRUE]
    <3>3. v.owner = w.owner /\ v.name = w.name /\ v.closing
      BY <1>2 DEF Writing
    <3>4. v \in writes'
      BY <1>1, <3>1
    <3> HIDE DEF v
    <3> QED
      BY <2>1, <3>1, <3>2, <3>3, <3>4
  <2>2. CASE r # s
    <3>1. PICK w \in writes : w.owner = r /\ w.name = bound[r].name /\ w.closing
      BY <1>1, <2>2 DEF ClosingInv, ClosesWait
    <3>2. w \in writes'
      BY <1>1, <2>2, <3>1
    <3> QED
      BY <3>1, <3>2
  <2> QED
    BY <2>1, <2>2
<1>4. WriteOwners'
  <2> SUFFICES ASSUME NEW v \in writes' PROVE v.owner \in closed' \/ bound[v.owner].name = v.name
    BY <1>1 DEF WriteOwners
  <2>1. PICK w \in writes : v = IF w.owner = s THEN [w EXCEPT !.closing = TRUE] ELSE w
    BY <1>1
  <2>2. v.owner = w.owner /\ v.name = w.name
    BY <1>2, <2>1 DEF Writing
  <2> QED
    BY <1>1, <2>2 DEF ClosingInv, WriteOwners
<1> QED
  BY <1>3, <1>4 DEF ClosingInv

LEMMA ClosingStep ==
    ASSUME RegistryInv, ClosingInv, [Next]_vars
    PROVE  ClosingInv'
<1>1. CASE UNCHANGED <<writes, closed, bound>>
  BY <1>1 DEF ClosingInv, ClosesWait, WriteOwners
<1>2. ASSUME NEW s \in Sessions, NEW n \in Names, Claim(s, n) PROVE ClosingInv'
  BY <1>2, BindingClosing DEF Claim, world
<1>3. ASSUME NEW t \in tickets, CommitMigration(t) PROVE ClosingInv'
  <2>1. t.dest \in Sessions
    BY DEF RegistryInv, TypeOK
  <2>2. /\ t.dest \notin closed /\ bound[t.dest] = Unbound /\ UNCHANGED <<writes, closed>>
        /\ bound' = [bound EXCEPT ![t.dest] = [name |-> t.name, gen |-> nextGen]]
    BY <1>3 DEF CommitMigration, Committable, Valid, world
  <2> QED
    BY <2>1, <2>2, BindingClosing
<1>4. ASSUME NEW s \in Sessions, CloseSession(s) PROVE ClosingInv'
  <2>1. writes' = writes /\ Ending(s)
    BY <1>4, Endings DEF RegistryInv, CloseSession
  <2> QED
    BY <2>1, EndingClosing
<1>5. ASSUME NEW w \in writes, FinishWrite(w) PROVE ClosingInv'
  <2>1. writes' = writes \ {w}
    BY <1>5 DEF FinishWrite
  <2>2. CASE w.closing
    BY <1>5, <2>1, <2>2, Endings, EndingClosing DEF RegistryInv
  <2>3. CASE ~w.closing
    BY <1>5, <2>1, <2>3 DEF FinishWrite, ClosingInv, ClosesWait, WriteOwners
  <2> QED
    BY <2>2, <2>3
<1>6. ASSUME NEW s \in Sessions, DeferClose(s) PROVE ClosingInv'
  BY <1>6, DeferClosing
<1>7. ASSUME NEW s \in Sessions, NEW n \in Names, RegisterWrite(s, n) PROVE ClosingInv'
  BY <1>7 DEF RegisterWrite, ClosingInv, ClosesWait, WriteOwners
<1>8. CASE DrainSessions
  BY <1>8 DEF DrainSessions, ClosingInv, ClosesWait, WriteOwners, RegistryInv, TypeOK, Writing
<1>9. CASE \/ \E s \in Sessions, n \in Names :
                 \/ RefuseClaim(s, n) \/ AdmitOperation(s, n)
                 \/ \E token \in Tokens : \/ BeginMigration(s, n, token)
                                          \/ PreflightMigration(s, n, token)
           \/ \E t \in tickets : AbortMigration(t) \/ PrepareFails(t)
           \/ \E g \in Generations : RetainLease(g) \/ DropLease(g)
           \/ ExpireMigrations \/ OtherCommand \/ Quiesce \/ DrainOutboundProducers
           \/ \E n \in Names, from \in Origins : ReceiveDatagram(n, from)
           \/ \E d \in inflight : DispatchDatagram(d)
           \/ Tick
           \/ UNCHANGED vars
  <2>1. UNCHANGED <<writes, closed, bound>>
    BY <1>9 DEF RefuseClaim, AdmitOperation, BeginMigration, PreflightMigration, AbortMigration,
                PrepareFails, RetainLease, DropLease, ExpireMigrations, OtherCommand, Quiesce,
                DrainOutboundProducers, Expire, ReceiveDatagram, DispatchDatagram, Tick, world, vars
  <2> QED
    BY <1>1, <2>1
<1> QED
  BY <1>2, <1>3, <1>4, <1>5, <1>6, <1>7, <1>8, <1>9 DEF Next, Step, TicketNext

(* Names, sockets, gates, permits, tickets and equipment writes agree on   *)
(* who owns a name, on whether it is frozen and on who will give it up,    *)
(* whatever order moves, closes, writes, expiries and the drops of         *)
(* operations come in.                                                     *)
THEOREM RegistryAlwaysAgrees == Spec => []RegistryAgrees
<1>1. Init => ClosingInv
  BY DEF Init, ClosingInv, ClosesWait, WriteOwners
<1>2. RegistryInv /\ ClosingInv /\ [Next]_vars => ClosingInv'
  BY ClosingStep
<1>3. RegistryInv /\ ClosingInv => RegistryAgrees
  BY FreezeHasOneTicket DEF RegistryInv, ClosingInv, RegistryAgrees
<1> QED
  BY <1>1, <1>2, <1>3, RegistryInvariant, PTL DEF Spec

(* An owner loses its name only by closing, or to a client that presents   *)
(* the permit which that owner asked for.                                  *)
THEOREM OwnerAlwaysKeepsName == Spec => OwnerKeepsName
<1>1. RegistryInv /\ [Next]_vars => [OwnerKept]_vars
  BY GoodStep DEF Good
<1>2. Spec => [][OwnerKept]_vars
  BY <1>1, RegistryInvariant, PTL DEF Spec
<1> QED
  BY <1>2, PTL DEF OwnerKeepsName, OwnerKept

(* The registry implements IdentityOwnership: one generation holds a name  *)
(* at a time, generations only grow, and a name changes hands only when no *)
(* operation of its holder is running.                                     *)
THEOREM RegistryKeepsOwnership == Spec => KeepsOwnership
<1>1. RegistryInv /\ [Next]_vars => [Ownership!Next]_Ownership!vars
  <2>1. UNCHANGED vars => UNCHANGED Ownership!vars
    BY DEF vars, Ownership!vars, HeldBy
  <2> QED
    BY <2>1, GoodStep DEF Good
<1> QED
  BY <1>1, InitOwnership, RegistryInvariant, PTL DEF Spec, KeepsOwnership, Ownership!Spec

-----------------------------------------------------------------------------
(* UdpEndpoints: its proofs rest on the invariant of the registry.         *)

(* What the sidecar may know of a user, and an endpoint.                   *)
Mirrored == [gen : Nat, ip : {IpOf[s] : s \in Sessions}, boundary : Nat]
Route == [gen : Nat, from : Origins, at : Nat, sentTo : Nat]

(* The mirror knows a user exactly while a generation holds the name: the  *)
(* active one, or the one that still drains.                               *)
MirrorsHolders == \A n \in Names : IF held[n] = 0 THEN mirror[n] = Absent
                                   ELSE mirror[n] # Absent /\ mirror[n].gen = held[n]

(* Of an active user it knows the owner's address and the last reconnect.  *)
MirrorsOwners == \A n \in Names : gen[n] # 0 =>
                     /\ mirror[n].boundary = reported[n]
                     /\ owner[n] # NoSession => mirror[n].ip = IpOf[owner[n]]

(* A datagram that is younger than its user's generation was sent to it.   *)
Stamped == \A d \in inflight :
               /\ d.at <= epoch
               /\ gen[d.name] # 0 /\ d.at > epochOf[gen[d.name]] => d.sentTo = gen[d.name]

(* An endpoint of the present generation came from its owner's address, in *)
(* a datagram sent to this generation after the last reconnect.            *)
Earned(t, n) == LET r == route[t][n] IN
    /\ r.from.on = t /\ r.from.ip = mirror[n].ip
    /\ r.sentTo = gen[n] /\ r.at > reported[n]
RoutesEarned == \A t \in Transports, n \in Names : route[t][n] # Absent =>
    /\ route[t][n].gen < nextGen
    /\ gen[n] # 0 => /\ route[t][n].gen <= gen[n]
                     /\ route[t][n].gen = gen[n] => Earned(t, n)

TablesTyped == /\ mirror \in [Names -> {Absent} \cup Mirrored]
               /\ route \in [Transports -> [Names -> {Absent} \cup Route]]
               /\ reported \in [Names -> Nat]

SidecarInv == /\ RegistryInv /\ TablesTyped /\ ~refused
              /\ MirrorsHolders /\ MirrorsOwners /\ Stamped /\ RoutesEarned

-----------------------------------------------------------------------------
(* What a step of the registry may do, as far as the sidecar can tell.     *)
Active == {n \in Names : gen[n] # 0}
Waiting == {d \in deferred : leases[d.gen] # 0}
Lost == {[name |-> n, gen |-> gen[n]] : n \in {m \in Names : gen[m] # 0 /\ gen'[m] = 0}}

(* A claim finds a place among the active names and those that drain.      *)
Roomy == /\ Cardinality(Active) + Cardinality(Waiting) < Capacity
         /\ deferred' = Waiting

(* A grant of n opens its window after everything received so far.         *)
Granted(n) == /\ gen'[n] = nextGen /\ nextGen' = nextGen + 1
              /\ epoch' = epoch + 1 /\ epochOf'[nextGen] = epoch + 1
              /\ inflight' = inflight
              /\ owner'[n] \in Sessions
              /\ gen[n] = 0 => Roomy

Moves == /\ deferred' \subseteq deferred \cup Lost
         /\ nextGen' >= nextGen
         /\ \A n \in Names : gen'[n] \in {0, gen[n]} \/ Granted(n)
         /\ \A n \in Names : gen'[n] = gen[n] /\ gen[n] # 0 => owner'[n] \in {owner[n], NoSession}
         /\ \A g \in Generations : g < nextGen => epochOf'[g] = epochOf[g]
         /\ epoch' >= epoch
         /\ \A d \in inflight' \ inflight : d.sentTo = gen'[d.name] /\ d.at <= epoch'

(* A turn that grants nothing and receives nothing.                        *)
LEMMA PlainMoves ==
    ASSUME RegistryInv, UNCHANGED <<epochOf, inflight>>, epoch' >= epoch, nextGen' >= nextGen,
           deferred' \subseteq deferred \cup Lost,
           \A n \in Names : gen'[n] \in {0, gen[n]},
           \A n \in Names : gen'[n] = gen[n] /\ gen[n] # 0 => owner'[n] \in {owner[n], NoSession}
    PROVE  Moves
BY DEF Moves

LEMMA EpochGrows == ASSUME RegistryInv PROVE epoch >= epoch /\ nextGen >= nextGen
BY Bounds DEF RegistryInv, TypeOK

LEMMA ClaimMoves ==
    ASSUME RegistryInv, NEW s \in Sessions, NEW n \in Names, Claim(s, n)
    PROVE  Moves
<1>1. TypeOK /\ nextGen \in Generations /\ nextGen \in Nat /\ epoch \in Nat
  BY Bounds DEF RegistryInv, TypeOK, Claim
<1>2. /\ gen[n] = 0 /\ gen' = [gen EXCEPT ![n] = nextGen] /\ owner' = [owner EXCEPT ![n] = s]
      /\ epochOf' = [epochOf EXCEPT ![nextGen] = epoch + 1] /\ epoch' = epoch + 1
      /\ nextGen' = nextGen + 1 /\ leases' = leases /\ inflight' = inflight
      /\ Cardinality(Active) + Cardinality(Waiting) < Capacity
  BY DEF Claim, Active, Waiting
<1>3. deferred' = Waiting
  BY <1>2 DEF Claim, FlushOnly, Flush, Waiting
<1>4. /\ gen'[n] = nextGen /\ owner'[n] = s /\ epochOf'[nextGen] = epoch + 1
      /\ \A m \in Names : m # n => gen'[m] = gen[m] /\ owner'[m] = owner[m]
      /\ \A g \in Generations : g < nextGen => epochOf'[g] = epochOf[g]
  <2>1. /\ gen'[n] = nextGen /\ owner'[n] = s /\ epochOf'[nextGen] = epoch + 1
        /\ \A m \in Names : m # n => gen'[m] = gen[m] /\ owner'[m] = owner[m]
    BY <1>1, <1>2 DEF TypeOK
  <2>2. \A g \in Generations : g < nextGen => g # nextGen
    BY <1>1, Bounds
  <2> QED
    BY <1>1, <1>2, <2>1, <2>2 DEF TypeOK
<1>5. Granted(n)
  BY <1>2, <1>3, <1>4 DEF Granted, Roomy
<1>6. nextGen' >= nextGen /\ epoch' >= epoch
  BY <1>1, <1>2
<1>7. deferred' \subseteq deferred \cup Lost
  BY <1>3 DEF Waiting
<1>8. \A m \in Names : gen'[m] \in {0, gen[m]} \/ Granted(m)
  BY <1>4, <1>5
<1>9. \A m \in Names : gen'[m] = gen[m] /\ gen[m] # 0 => owner'[m] \in {owner[m], NoSession}
  BY <1>2, <1>4
<1> QED
  BY <1>2, <1>4, <1>6, <1>7, <1>8, <1>9 DEF Moves

LEMMA SessionMoves ==
    ASSUME RegistryInv, NEW s \in Sessions, NEW n \in Names,
           \/ Claim(s, n) \/ AdmitOperation(s, n)
           \/ \E token \in Tokens : BeginMigration(s, n, token) \/ PreflightMigration(s, n, token)
    PROVE  Moves
<1>1. CASE Claim(s, n)
  BY <1>1, ClaimMoves
<1>2. CASE \/ AdmitOperation(s, n)
           \/ \E token \in Tokens : BeginMigration(s, n, token) \/ PreflightMigration(s, n, token)
  <2>1. /\ UNCHANGED <<gen, owner, epochOf, inflight, epoch, nextGen>>
        /\ deferred' \subseteq deferred
    BY <1>2 DEF AdmitOperation, BeginMigration, PreflightMigration, FlushOnly, Flush, active, udp
  <2> QED
    BY <2>1, EpochGrows, PlainMoves
<1> QED
  BY <1>1, <1>2

LEMMA TicketMoves ==
    ASSUME RegistryInv, NEW t \in tickets, TicketNext(t)
    PROVE  Moves
<1>1. TypeOK /\ nextGen \in Nat /\ epoch \in Nat /\ t.name \in Names /\ t.dest \in Sessions
  BY Bounds DEF RegistryInv, TypeOK
<1>2. CASE AbortMigration(t) \/ PrepareFails(t)
  <2>1. /\ UNCHANGED <<gen, owner, epochOf, inflight, epoch>>
        /\ nextGen' \in {nextGen, nextGen + 1} /\ Reopen(t)
    BY <1>2 DEF AbortMigration, PrepareFails, udp
  <2>2. deferred' \subseteq deferred
    BY <2>1 DEF Reopen, FlushOnly, Flush
  <2>3. nextGen' >= nextGen /\ epoch' >= epoch
    BY <1>1, <2>1
  <2> QED
    BY <2>1, <2>2, <2>3, PlainMoves
<1>3. CASE CommitMigration(t)
  <2> DEFINE n == t.name
  <2>1. /\ gen[n] = t.permit.gen /\ gen' = [gen EXCEPT ![n] = nextGen]
        /\ owner' = [owner EXCEPT ![n] = t.dest]
        /\ epochOf' = [epochOf EXCEPT ![nextGen] = epoch + 1] /\ epoch' = epoch + 1
        /\ nextGen' = nextGen + 1 /\ inflight' = inflight /\ nextGen < GenMax
        /\ deferred' \subseteq deferred
    BY <1>3 DEF CommitMigration, Committable, Current, Flush
  <2>2. gen[n] # 0 /\ nextGen \in Generations
    BY <1>1, <2>1, Bounds DEF TypeOK, Permit
  <2>3. \A g \in Generations : g < nextGen => g # nextGen
    BY <1>1, Bounds
  <2> HIDE DEF n
  <2>4. /\ gen'[n] = nextGen /\ owner'[n] = t.dest /\ epochOf'[nextGen] = epoch + 1
        /\ \A m \in Names : m # n => gen'[m] = gen[m] /\ owner'[m] = owner[m]
        /\ \A g \in Generations : g < nextGen => epochOf'[g] = epochOf[g]
    BY <1>1, <2>1, <2>2, <2>3 DEF TypeOK, n
  <2>5. Granted(n)
    BY <1>1, <2>1, <2>2, <2>4 DEF Granted
  <2>6. nextGen' >= nextGen /\ epoch' >= epoch
    BY <1>1, <2>1
  <2>7. \A m \in Names : gen'[m] \in {0, gen[m]} \/ Granted(m)
    BY <2>4, <2>5
  <2>8. gen'[n] # gen[n]
    BY <1>1, <2>2, <2>4 DEF RegistryInv, Holders, n
  <2>9. \A m \in Names : gen'[m] = gen[m] /\ gen[m] # 0 => owner'[m] \in {owner[m], NoSession}
    BY <2>4, <2>8
  <2> QED
    BY <2>1, <2>4, <2>6, <2>7, <2>9 DEF Moves
<1> QED
  BY <1>2, <1>3 DEF TicketNext

(* A removal of names, in a turn that does nothing else to owners.         *)
LEMMA RemoveMoves ==
    ASSUME RegistryInv, NEW R \in SUBSET {n \in Names : gen[n] # 0}, NEW G, Remove(R, G),
           UNCHANGED <<epochOf, inflight, epoch, nextGen>>
    PROVE  Moves
<1>1. \A n \in Names : /\ gen'[n] = IF n \in R THEN 0 ELSE gen[n]
                       /\ owner'[n] = IF n \in R THEN NoSession ELSE owner[n]
  BY DEF Remove
<1>2. deferred' \subseteq deferred \cup {[name |-> n, gen |-> gen[n]] : n \in R}
  BY DEF Remove, Flush
<1>3. R \subseteq {m \in Names : gen[m] # 0 /\ gen'[m] = 0}
  BY <1>1
<1>4. deferred' \subseteq deferred \cup Lost
  BY <1>2, <1>3 DEF Lost
<1> QED
  BY <1>1, <1>4, EpochGrows, PlainMoves

LEMMA CloseMoves ==
    ASSUME RegistryInv, NEW s \in Sessions, Ending(s)
    PROVE  Moves
<1> DEFINE n == bound[s].name
           owns == n # NoName /\ (n # NoName => owner[n] = s /\ gen[n] = bound[s].gen)
<1>1. UNCHANGED <<epochOf, nextGen, epoch, inflight>>
  BY DEF Ending, EndSession, udp
<1>2. CASE ~owns
  <2>1. UNCHANGED <<gen, owner>> /\ deferred' \subseteq deferred
    BY <1>2 DEF Ending, EndSession, active, FlushOnly, Flush
  <2> QED
    BY <1>1, <2>1, EpochGrows, PlainMoves
<1>3. CASE owns
  <2>1. n \in Names /\ gen[n] # 0 /\ TypeOK
    BY <1>3, Bounds DEF RegistryInv, Idle, TypeOK
  <2>2. CASE owner' = [owner EXCEPT ![n] = NoSession] /\ UNCHANGED gen /\ FlushOnly
    <3>1. deferred' \subseteq deferred /\ \A m \in Names : owner'[m] \in {owner[m], NoSession}
      BY <2>1, <2>2 DEF FlushOnly, Flush, TypeOK
    <3> QED
      BY <1>1, <2>2, <3>1, EpochGrows, PlainMoves
  <2>3. CASE Remove({n}, Thawed({n}))
    <3>1. {n} \in SUBSET {m \in Names : gen[m] # 0}
      BY <2>1
    <3> QED
      BY <1>1, <2>3, <3>1, RemoveMoves
  <2> QED
    BY <1>3, <2>2, <2>3 DEF Ending, EndSession
<1> QED
  BY <1>2, <1>3

LEMMA RemovalMoves ==
    ASSUME RegistryInv, ExpiryTurn \/ DrainSessions
    PROVE  Moves
<1>1. ASSUME NEW due \in SUBSET Names, \A n \in due : permit[n] # NoPermit, Expire(due)
      PROVE  Moves
  <2> DEFINE R == {n \in due : owner[n] = NoSession}
  <2>1. R \in SUBSET {n \in Names : gen[n] # 0}
    BY <1>1 DEF RegistryInv, Idle
  <2>2. Remove(R, Thawed(due)) /\ UNCHANGED <<epochOf, inflight, epoch, nextGen>>
    BY <1>1 DEF Expire, udp
  <2> HIDE DEF R
  <2> QED
    BY <2>1, <2>2, RemoveMoves
<1>2. ASSUME DrainSessions PROVE Moves
  BY <1>2, RemoveMoves DEF DrainSessions, udp
<1> QED
  BY <1>1, <1>2 DEF ExpiryTurn

LEMMA OtherMoves ==
    ASSUME RegistryInv,
           \/ QuietTurn
           \/ \E g \in Generations : RetainLease(g) \/ DropLease(g)
           \/ Tick
           \/ Noted
    PROVE  Moves
<1>1. CASE QuietTurn
  <2>1. /\ UNCHANGED <<gen, owner, epochOf, inflight, nextGen>> /\ deferred' \subseteq deferred
        /\ epoch' >= epoch
    BY <1>1, QuietFacts DEF FlushOnly, Flush, active
  <2> QED
    BY <2>1, EpochGrows, PlainMoves
<1>2. CASE \/ \E g \in Generations : RetainLease(g) \/ DropLease(g)
           \/ Tick
           \/ Noted
  <2>1. UNCHANGED <<gen, owner, epochOf, inflight, nextGen, epoch, deferred>>
    BY <1>2 DEF RetainLease, DropLease, Tick, Noted, DeferClose, RegisterWrite, active, gates, udp
  <2> QED
    BY <2>1, EpochGrows, PlainMoves
<1> QED
  BY <1>1, <1>2

LEMMA ReceiveMoves ==
    ASSUME RegistryInv, NEW n \in Names, NEW from \in Origins, ReceiveDatagram(n, from)
    PROVE  Moves
<1>1. /\ UNCHANGED <<gen, owner, epochOf, nextGen, deferred>> /\ epoch' = epoch + 1
      /\ inflight' = inflight \cup {[name |-> n, from |-> from, at |-> epoch + 1, sentTo |-> gen[n]]}
  BY DEF ReceiveDatagram, active, gates
<1>2. epoch \in Nat /\ nextGen \in Nat
  BY Bounds DEF RegistryInv, TypeOK
<1> QED
  BY <1>1, <1>2 DEF Moves

LEMMA StepMoves ==
    ASSUME RegistryInv, Step
    PROVE  Moves
<1>1. ASSUME NEW s \in Sessions, CloseSession(s) \/ DeferClose(s) PROVE Moves
  BY <1>1, CloseMoves, OtherMoves, Endings DEF RegistryInv, Noted
<1>2. ASSUME NEW w \in writes, FinishWrite(w) PROVE Moves
  BY <1>2, CloseMoves, OtherMoves, Endings DEF RegistryInv, QuietTurn
<1>3. ASSUME NEW s \in Sessions, NEW n \in Names, RefuseClaim(s, n) \/ RegisterWrite(s, n)
      PROVE  Moves
  BY <1>3, OtherMoves DEF QuietTurn, Noted
<1> QED
  BY <1>1, <1>2, <1>3, SessionMoves, TicketMoves, RemovalMoves, OtherMoves, ReceiveMoves, DuePermits
     DEF Step, QuietTurn

-----------------------------------------------------------------------------
(* The events that a step publishes.                                       *)
LEMMA HeldNow ==
    ASSUME RegistryInv, NEW n \in Names
    PROVE  /\ gen[n] # 0 => held[n] = gen[n]
           /\ \A d \in deferred : d.name = n => gen[n] = 0 /\ held[n] = d.gen
           /\ gen[n] = 0 /\ (\A d \in deferred : d.name # n) => held[n] = 0
           /\ held[n] \in Nat /\ held[n] < nextGen
<1>1. /\ \A d, e \in deferred : d.name = e.name => d = e
      /\ \A d \in deferred : gen[d.name] = 0 /\ d.gen < nextGen /\ d.gen \in Nat
      /\ gen[n] # 0 => gen[n] < nextGen
      /\ gen[n] \in Nat /\ 0 < nextGen
  <2>1. \A d \in deferred : d.gen \in Generations
    BY DEF RegistryInv, TypeOK
  <2>2. gen[n] \in Generations \cup {0} /\ nextGen \in 1..GenMax
    BY DEF RegistryInv, TypeOK
  <2>3. /\ \A d, e \in deferred : d.name = e.name => d = e
        /\ \A d \in deferred : gen[d.name] = 0 /\ d.gen < nextGen
        /\ gen[n] # 0 => gen[n] < nextGen
    BY DEF RegistryInv, Draining, Holders
  <2> QED
    BY <2>1, <2>2, <2>3, GenerationsAreNumbers
<1>2. /\ gen[n] # 0 => held[n] = gen[n]
      /\ \A d \in deferred : gen[n] = 0 /\ d.name = n => held[n] = d.gen
      /\ gen[n] = 0 /\ (\A d \in deferred : d.name # n) => held[n] = 0
  BY <1>1, HeldCases DEF held
<1> QED
  BY <1>1, <1>2

(* The same of the next state.                                             *)
LEMMA HeldNext ==
    ASSUME RegistryInv', NEW n \in Names
    PROVE  /\ gen'[n] # 0 => held'[n] = gen'[n]
           /\ \A d \in deferred' : d.name = n => gen'[n] = 0 /\ held'[n] = d.gen
           /\ gen'[n] = 0 /\ (\A d \in deferred' : d.name # n) => held'[n] = 0
<1>1. /\ \A d, e \in deferred' : d.name = e.name => d = e
      /\ \A d \in deferred' : gen'[d.name] = 0
  BY DEF RegistryInv, Draining
<1> QED
  BY <1>1, HeldCases DEF held

(* A name that is not granted keeps its holder or is released by it.       *)
LEMMA HolderReleased ==
    ASSUME RegistryInv, RegistryInv', deferred' \subseteq deferred \cup Lost,
           NEW n \in Names, gen'[n] \in {0, gen[n]}
    PROVE  /\ held'[n] = 0 /\ held[n] # 0 => \E r \in Releases : r.name = n /\ r.gen = held[n]
           /\ held'[n] # 0 => /\ held'[n] = held[n]
                              /\ \A r \in Releases : r.name = n => r.gen # held[n]
<1>1. Releases = (deferred \cup Lost) \ deferred'
  BY DEF Releases, Lost
<1>2. \A r \in Lost : gen[r.name] # 0 /\ r.gen = gen[r.name] /\ gen'[r.name] = 0
                      /\ r = [name |-> r.name, gen |-> gen[r.name]]
  BY DEF Lost
<1>3. CASE gen'[n] # 0
  <2>1. gen'[n] = gen[n] /\ held'[n] = gen[n] /\ held[n] = gen[n]
    BY <1>3, HeldNow, HeldNext
  <2>2. \A r \in Releases : r.name # n
    BY <1>1, <1>2, <1>3, <2>1, HeldNow
  <2> QED
    BY <1>3, <2>1, <2>2
<1>4. CASE gen'[n] = 0 /\ gen[n] # 0
  <2>1. held[n] = gen[n] /\ [name |-> n, gen |-> gen[n]] \in Lost
    BY <1>4, HeldNow DEF Lost
  <2>2. CASE \E d \in deferred' : d.name = n
    <3>1. PICK d \in deferred' : d.name = n
      BY <2>2
    <3>2. d = [name |-> n, gen |-> gen[n]] /\ held'[n] = gen[n]
      BY <1>2, <1>4, <3>1, HeldNow, HeldNext
    <3>3. \A r \in Releases : r.name # n
      BY <1>1, <1>2, <1>4, <3>1, <3>2, HeldNow
    <3> QED
      BY <1>4, <2>1, <3>2, <3>3
  <2>3. CASE \A d \in deferred' : d.name # n
    <3>1. [name |-> n, gen |-> gen[n]] \in Releases
      BY <1>1, <2>1, <2>3
    <3>2. held'[n] = 0
      BY <1>4, <2>3, HeldNext
    <3> QED
      BY <2>1, <3>1, <3>2
  <2> QED
    BY <2>2, <2>3
<1>5. CASE gen'[n] = 0 /\ gen[n] = 0
  <2>1. \A r \in Lost : r.name # n
    BY <1>2, <1>5
  <2>2. CASE \E d \in deferred : d.name = n
    <3>1. PICK d \in deferred : d.name = n /\ held[n] = d.gen
      BY <2>2, HeldNow
    <3>2. \A e \in deferred : e.name = n => e = d
      BY <3>1 DEF RegistryInv, Draining
    <3>3. CASE d \in deferred'
      BY <1>1, <2>1, <3>1, <3>2, <3>3, HeldNext
    <3>4. CASE d \notin deferred'
      <4>1. \A e \in deferred' : e.name # n
        BY <2>1, <3>2, <3>4
      <4>2. held'[n] = 0 /\ d \in Releases
        BY <1>1, <1>5, <3>4, <4>1, HeldNext
      <4> QED
        BY <3>1, <4>2
    <3> QED
      BY <3>3, <3>4
  <2>3. CASE \A d \in deferred : d.name # n
    <3>1. \A e \in deferred' : e.name # n
      BY <2>1, <2>3
    <3> QED
      BY <1>5, <2>3, <3>1, HeldNow, HeldNext
  <2> QED
    BY <2>2, <2>3
<1> QED
  BY <1>3, <1>4, <1>5

(* A mirror that knows the holders, after the releases of a step.          *)
Knows(m) == \A n \in Names : IF held[n] = 0 THEN m[n] = Absent
                             ELSE m[n] # Absent /\ m[n].gen = held[n]

LEMMA MirrorSettled ==
    ASSUME RegistryInv, RegistryInv', deferred' \subseteq deferred \cup Lost,
           NEW m, Knows(m), NEW n \in Names, gen'[n] \in {0, gen[n]}
    PROVE  /\ MirrorLeft(m)[n] = IF held'[n] = 0 THEN Absent ELSE m[n]
           /\ held'[n] # 0 => held'[n] = held[n]
<1>1. MirrorLeft(m)[n] = IF n \in Unmirrored(m) THEN Absent ELSE m[n]
  BY DEF MirrorLeft
<1>2. n \in Unmirrored(m) <=> held[n] # 0 /\ \E r \in Releases : r.name = n /\ r.gen = held[n]
  BY DEF Unmirrored, Knows
<1>3. held[n] = 0 => m[n] = Absent
  BY DEF Knows
<1> QED
  BY <1>1, <1>2, <1>3, HolderReleased

(* Active names and waiting releases are finitely many: each of them has a *)
(* generation of its own.                                                  *)
LEMMA FinitelyHeld ==
    ASSUME RegistryInv
    PROVE  IsFiniteSet(Active) /\ IsFiniteSet(Waiting)
<1>1. IsFiniteSet(Generations)
  <2>1. 1 \in Int /\ GenMax - 1 \in Int
    BY Bounds
  <2> QED
    BY <2>1, FS_Interval DEF Generations
<1>2. IsFiniteSet(Active)
  <2> DEFINE f == [n \in Active |-> gen[n]]
  <2>1. \A n \in Active : gen[n] \in Generations
    BY DEF Active, RegistryInv, TypeOK
  <2>2. \A m, n \in Active : gen[m] = gen[n] => m = n
    BY DEF Active, RegistryInv, Holders
  <2>3. f \in Injection(Active, Generations)
    BY <2>1, <2>2 DEF Injection, IsInjective
  <2> QED
    BY <1>1, <2>3, FS_Injection
<1>3. IsFiniteSet(Waiting)
  <2> DEFINE f == [d \in Waiting |-> d.gen]
  <2>1. \A d \in Waiting : d.gen \in Generations
    BY DEF Waiting, RegistryInv, TypeOK
  <2>2. \A d, e \in Waiting : d.gen = e.gen => d = e
    BY DEF Waiting, RegistryInv, Draining
  <2>3. f \in Injection(Waiting, Generations)
    BY <2>1, <2>2 DEF Injection, IsInjective
  <2> QED
    BY <1>1, <2>3, FS_Injection
<1> QED
  BY <1>2, <1>3

(* When the registry has room for a claim, so has the mirror.              *)
LEMMA MirrorHasRoom ==
    ASSUME RegistryInv, MirrorsHolders, Roomy
    PROVE  ~(Cardinality({m \in Names : MirrorLeft(mirror)[m] # Absent}) >= Capacity)
<1> DEFINE W == {d.name : d \in Waiting}
           L == {m \in Names : MirrorLeft(mirror)[m] # Absent}
<1>1. /\ IsFiniteSet(W) /\ Cardinality(W) <= Cardinality(Waiting)
      /\ IsFiniteSet(Active) /\ IsFiniteSet(Waiting)
  <2> DEFINE f == [d \in Waiting |-> d.name]
  <2>1. f \in Surjection(Waiting, W)
    BY DEF Surjection
  <2> QED
    BY <2>1, FinitelyHeld, FS_Surjection
<1>2. L \subseteq Active \cup W
  <2> SUFFICES ASSUME NEW m \in Names, MirrorLeft(mirror)[m] # Absent, gen[m] = 0
               PROVE  \E d \in Waiting : d.name = m
    BY DEF Active
  <2>1. mirror[m] # Absent /\ m \notin Unmirrored(mirror)
    BY DEF MirrorLeft
  <2>2. held[m] # 0 /\ mirror[m].gen = held[m]
    BY <2>1 DEF MirrorsHolders
  <2>3. PICK d \in deferred : d.name = m /\ held[m] = d.gen
    BY <2>2, HeldNow
  <2>4. d \in deferred'
    BY <2>1, <2>2, <2>3 DEF Unmirrored, Releases
  <2> QED
    BY <2>3, <2>4 DEF Roomy
<1> HIDE DEF W, L
<1>3. /\ Cardinality(W) \in Nat /\ Cardinality(Active) \in Nat /\ Cardinality(Waiting) \in Nat
      /\ IsFiniteSet(Active \cap W) /\ Cardinality(Active \cap W) \in Nat
  BY <1>1, FS_CardinalityType, FS_Intersection, FS_Subset
<1>4. /\ IsFiniteSet(Active \cup W)
      /\ Cardinality(Active \cup W) = Cardinality(Active) + Cardinality(W) - Cardinality(Active \cap W)
  BY <1>1, FS_Union
<1>5. IsFiniteSet(L) /\ Cardinality(L) <= Cardinality(Active \cup W) /\ Cardinality(L) \in Nat
  BY <1>2, <1>4, FS_Subset, FS_CardinalityType
<1>6. Cardinality(Active) + Cardinality(Waiting) < Capacity /\ Capacity \in Nat
  BY RegistryAssumption DEF Roomy, RegistryAssumption
<1>7. ~(Cardinality(L) >= Capacity)
  BY <1>1, <1>3, <1>4, <1>5, <1>6
<1> QED
  BY <1>7 DEF L

LEMMA ArrivalFacts ==
    ASSUME RegistryInv, RegistryInv', Moves, MirrorsHolders, NEW n \in Arrivals
    PROVE  /\ n \in Names /\ Granted(n) /\ held'[n] = nextGen /\ gen'[n] = nextGen
           /\ MirrorLeft(mirror)[n] # Absent => MirrorLeft(mirror)[n].gen < nextGen
<1>1. n \in Names /\ Granted(n) /\ gen'[n] = nextGen /\ gen'[n] # 0
  BY DEF Arrivals, Moves, Granted
<1>2. held'[n] = nextGen
  BY <1>1, HeldNext
<1>3. MirrorLeft(mirror)[n] # Absent => MirrorLeft(mirror)[n] = mirror[n]
  BY <1>1 DEF MirrorLeft
<1>4. mirror[n] # Absent => mirror[n].gen < nextGen
  BY <1>1, HeldNow DEF MirrorsHolders
<1> QED
  BY <1>1, <1>2, <1>3, <1>4

(* The sidecar refuses no arrival.                                         *)
LEMMA NothingRefused ==
    ASSUME RegistryInv, RegistryInv', Moves, MirrorsHolders, Publish
    PROVE  ~refused'
<1> SUFFICES ASSUME NEW n \in Arrivals, AdvanceRefused(MirrorLeft(mirror), n) PROVE FALSE
  BY DEF Publish
<1>1. /\ n \in Names /\ Granted(n) /\ gen'[n] = nextGen /\ nextGen \in Nat
      /\ MirrorLeft(mirror)[n] # Absent => MirrorLeft(mirror)[n].gen < nextGen
  BY ArrivalFacts, Bounds DEF RegistryInv, TypeOK
<1>2. MirrorLeft(mirror)[n] = Absent
  BY <1>1 DEF AdvanceRefused
<1>3. gen[n] = 0
  <2> SUFFICES ASSUME gen[n] # 0 PROVE FALSE
    OBVIOUS
  <2>1. held[n] = gen[n] /\ mirror[n] # Absent /\ mirror[n].gen = gen[n]
    BY <1>1, HeldNow DEF MirrorsHolders
  <2>2. n \in Unmirrored(mirror)
    BY <1>1, <1>2, <2>1 DEF MirrorLeft
  <2>3. PICK r \in Releases : r.name = n /\ r.gen = gen[n]
    BY <2>1, <2>2 DEF Unmirrored
  <2>4. r \notin deferred
    BY <1>1, <2>3 DEF RegistryInv, Draining
  <2>5. gen'[n] = 0
    BY <2>3, <2>4 DEF Releases
  <2> QED
    BY <1>1, <2>5, Bounds DEF RegistryInv, TypeOK
<1> QED
  BY <1>1, <1>2, <1>3, MirrorHasRoom DEF AdvanceRefused, Granted

LEMMA AbsentApart == /\ \A m \in Mirrored : m # Absent
                     /\ \A r \in Route : r # Absent
                     /\ \A o \in Origins : o.on \in Transports
BY EndpointAssumption DEF EndpointAssumption, Mirrored, Route

(* What the mirror knows after a step.                                     *)
LEMMA MirrorNext ==
    ASSUME SidecarInv, RegistryInv', Moves, Publish, NEW n \in Names
    PROVE  /\ n \in Arrivals =>
                /\ mirror'[n] = [gen |-> gen'[n], ip |-> IpOf[owner'[n]], boundary |-> 0]
                /\ gen'[n] = nextGen /\ held'[n] = nextGen /\ reported'[n] = 0
                /\ mirror'[n] \in Mirrored
           /\ n \notin Arrivals =>
                /\ mirror'[n] = IF held'[n] = 0 THEN Absent ELSE mirror[n]
                /\ held'[n] # 0 => held'[n] = held[n]
                /\ gen'[n] \in {0, gen[n]} /\ reported'[n] = reported[n]
<1>1. RegistryInv /\ MirrorsHolders /\ Knows(mirror) /\ nextGen \in Nat
  BY Bounds DEF SidecarInv, MirrorsHolders, Knows, RegistryInv, TypeOK
<1>2. /\ mirror'[n] = IF n \in Arrivals THEN Advanced(MirrorLeft(mirror)[n], n)
                                       ELSE MirrorLeft(mirror)[n]
      /\ reported'[n] = IF n \in Arrivals THEN 0 ELSE reported[n]
  BY DEF Publish
<1>3. ASSUME n \in Arrivals
      PROVE  /\ mirror'[n] = [gen |-> gen'[n], ip |-> IpOf[owner'[n]], boundary |-> 0]
             /\ gen'[n] = nextGen /\ held'[n] = nextGen
             /\ mirror'[n] \in Mirrored
  <2>1. /\ Granted(n) /\ held'[n] = nextGen /\ gen'[n] = nextGen
        /\ MirrorLeft(mirror)[n] # Absent => MirrorLeft(mirror)[n].gen < nextGen
    BY <1>1, <1>3, ArrivalFacts
  <2>2. MirrorLeft(mirror)[n] # Absent => MirrorLeft(mirror)[n].gen \in Nat
    <3>1. mirror[n] # Absent => mirror[n].gen \in Nat
      BY DEF SidecarInv, TablesTyped, Mirrored
    <3> QED
      BY <3>1 DEF MirrorLeft
  <2>3. mirror'[n] = [gen |-> gen'[n], ip |-> IpOf[owner'[n]], boundary |-> 0]
    BY <1>1, <1>2, <1>3, <2>1, <2>2 DEF Advanced
  <2>4. owner'[n] \in Sessions
    BY <2>1 DEF Granted
  <2> QED
    BY <1>1, <2>1, <2>3, <2>4 DEF Mirrored
<1>4. ASSUME n \notin Arrivals
      PROVE  /\ mirror'[n] = IF held'[n] = 0 THEN Absent ELSE mirror[n]
             /\ held'[n] # 0 => held'[n] = held[n]
             /\ gen'[n] \in {0, gen[n]}
  <2>1. gen'[n] \in {0, gen[n]}
    BY <1>4 DEF Arrivals
  <2>2. deferred' \subseteq deferred \cup Lost
    BY DEF Moves
  <2> QED
    BY <1>1, <1>2, <1>4, <2>1, <2>2, MirrorSettled
<1> QED
  BY <1>2, <1>3, <1>4

(* An arrival in terms of the mirror's fields.                             *)
LEMMA ArrivalNext ==
    ASSUME SidecarInv, RegistryInv', Moves, Publish, NEW n \in Arrivals
    PROVE  /\ n \in Names /\ mirror'[n] \in Mirrored /\ mirror'[n] # Absent
           /\ mirror'[n].gen = nextGen /\ mirror'[n].ip = IpOf[owner'[n]]
           /\ mirror'[n].boundary = 0 /\ reported'[n] = 0
           /\ gen'[n] = nextGen /\ held'[n] = nextGen /\ nextGen # 0
<1>1. n \in Names
  BY DEF Arrivals
<1>2. /\ mirror'[n] = [gen |-> gen'[n], ip |-> IpOf[owner'[n]], boundary |-> 0]
      /\ gen'[n] = nextGen /\ held'[n] = nextGen /\ reported'[n] = 0
      /\ mirror'[n] \in Mirrored
  BY <1>1, MirrorNext
<1>3. nextGen # 0
  BY Bounds DEF SidecarInv, RegistryInv, TypeOK
<1>4. mirror'[n] # Absent
  BY <1>2, AbsentApart
<1>5. /\ mirror'[n].gen = nextGen /\ mirror'[n].ip = IpOf[owner'[n]]
      /\ mirror'[n].boundary = 0
  BY <1>2
<1> QED
  BY <1>1, <1>2, <1>3, <1>4, <1>5

LEMMA UnroutedShrinks ==
    ASSUME NEW r \in [Transports -> [Names -> {Absent} \cup Route]], NEW n \in Names, NEW g,
           NEW t \in Transports, NEW m \in Names
    PROVE  /\ Unrouted(r, n, g) \in [Transports -> [Names -> {Absent} \cup Route]]
           /\ Unrouted(r, n, g)[t][m] \in {Absent, r[t][m]}
           /\ m = n /\ Unrouted(r, n, g)[t][m] # Absent => r[t][m].gen # g
BY DEF Unrouted

LEMMA RoutesShrink ==
    ASSUME NEW r \in [Transports -> [Names -> {Absent} \cup Route]]
    PROVE  /\ RoutesLeft(r) \in [Transports -> [Names -> {Absent} \cup Route]]
           /\ \A t \in Transports, n \in Names : RoutesLeft(r)[t][n] \in {Absent, r[t][n]}
<1>1. \A t \in Transports, n \in Names :
          RoutesLeft(r)[t][n] = IF n \in Unmirrored(mirror)
                                THEN Unrouted(r, n, mirror[n].gen)[t][n] ELSE r[t][n]
  BY DEF RoutesLeft
<1>2. \A t \in Transports, n \in Names : RoutesLeft(r)[t][n] \in {Absent, r[t][n]}
  BY <1>1, UnroutedShrinks
<1>3. RoutesLeft(r) = [t \in Transports |-> [n \in Names |-> RoutesLeft(r)[t][n]]]
  BY DEF RoutesLeft
<1>4. \A t \in Transports, n \in Names : RoutesLeft(r)[t][n] \in {Absent} \cup Route
  BY <1>2
<1> QED
  BY <1>2, <1>3, <1>4

LEMMA StampedNext ==
    ASSUME RegistryInv, RegistryInv', Moves, Stamped
    PROVE  Stamped'
<1> SUFFICES ASSUME NEW d \in inflight'
             PROVE  /\ d.at <= epoch'
                    /\ gen'[d.name] # 0 /\ d.at > epochOf'[gen'[d.name]] => d.sentTo = gen'[d.name]
  BY DEF Stamped
<1>1. epoch \in Nat /\ epoch' \in Nat /\ epoch' >= epoch /\ d.at \in Nat /\ d.name \in Names
  BY DEF RegistryInv, TypeOK, Moves
<1>2. CASE d \notin inflight
  BY <1>2 DEF Moves
<1>3. CASE d \in inflight
  <2>1. d.at <= epoch /\ d.at <= epoch'
    BY <1>1, <1>3 DEF Stamped
  <2>2. CASE Granted(d.name)
    <3>1. epochOf'[gen'[d.name]] = epoch + 1
      BY <2>2 DEF Granted
    <3> QED
      BY <1>1, <2>1, <3>1
  <2>3. CASE gen'[d.name] \in {0, gen[d.name]}
    <3>1. CASE gen'[d.name] # 0
      <4>1. gen[d.name] \in Generations /\ gen[d.name] < nextGen
        BY <1>1, <2>3, <3>1 DEF RegistryInv, TypeOK, Holders
      <4>2. epochOf'[gen'[d.name]] = epochOf[gen[d.name]] /\ gen'[d.name] = gen[d.name]
        BY <2>3, <3>1, <4>1 DEF Moves
      <4> QED
        BY <1>3, <2>1, <3>1, <4>2 DEF Stamped
    <3>2. CASE gen'[d.name] = 0
      BY <2>1, <3>2
    <3> QED
      BY <3>1, <3>2
  <2> QED
    BY <1>1, <2>2, <2>3 DEF Moves
<1> QED
  BY <1>2, <1>3

LEMMA RegistryStepInv ==
    ASSUME SidecarInv, RegistryStep
    PROVE  SidecarInv'
<1>1. RegistryInv /\ RegistryInv' /\ Moves /\ Publish
  BY GoodStep, StepMoves DEF SidecarInv, RegistryStep, Next, Good
<1>2. ~refused' /\ Stamped'
  BY <1>1, NothingRefused, StampedNext DEF SidecarInv
<1>3. TablesTyped'
  <2>1. ASSUME NEW n \in Names
        PROVE  mirror'[n] \in {Absent} \cup Mirrored /\ reported'[n] \in Nat
    <3>1. mirror[n] \in {Absent} \cup Mirrored /\ reported[n] \in Nat
      BY DEF SidecarInv, TablesTyped
    <3>2. CASE n \in Arrivals
      BY <1>1, <3>2, ArrivalNext
    <3>3. CASE n \notin Arrivals
      BY <1>1, <3>1, <3>3, MirrorNext
    <3> QED
      BY <3>2, <3>3
  <2>2. /\ mirror' = [n \in Names |-> mirror'[n]] /\ reported' = [n \in Names |-> reported'[n]]
    BY <1>1 DEF Publish
  <2>3. route' \in [Transports -> [Names -> {Absent} \cup Route]]
    BY <1>1, RoutesShrink DEF Publish, SidecarInv, TablesTyped
  <2> QED
    BY <2>1, <2>2, <2>3 DEF TablesTyped
<1>4. MirrorsHolders'
  <2> SUFFICES ASSUME NEW n \in Names
               PROVE  IF held'[n] = 0 THEN mirror'[n] = Absent
                      ELSE mirror'[n] # Absent /\ mirror'[n].gen = held'[n]
    BY DEF MirrorsHolders
  <2>1. CASE n \in Arrivals
    BY <1>1, <2>1, ArrivalNext
  <2>2. CASE n \notin Arrivals
    BY <1>1, <2>2, MirrorNext DEF SidecarInv, MirrorsHolders
  <2> QED
    BY <2>1, <2>2
<1>5. MirrorsOwners'
  <2> SUFFICES ASSUME NEW n \in Names, gen'[n] # 0
               PROVE  /\ mirror'[n].boundary = reported'[n]
                      /\ owner'[n] # NoSession => mirror'[n].ip = IpOf[owner'[n]]
    BY DEF MirrorsOwners
  <2>1. CASE n \in Arrivals
    BY <1>1, <2>1, ArrivalNext
  <2>2. CASE n \notin Arrivals
    <3>1. gen'[n] = gen[n] /\ held'[n] = gen[n] /\ mirror'[n] = mirror[n] /\ reported'[n] = reported[n]
      BY <1>1, <2>2, MirrorNext, HeldNext
    <3>2. owner'[n] \in {owner[n], NoSession}
      BY <1>1, <3>1 DEF Moves
    <3> QED
      BY <3>1, <3>2 DEF SidecarInv, MirrorsOwners
  <2> QED
    BY <2>1, <2>2
<1>6. RoutesEarned'
  <2> SUFFICES ASSUME NEW t \in Transports, NEW n \in Names, route'[t][n] # Absent
               PROVE  /\ route'[t][n].gen < nextGen'
                      /\ gen'[n] # 0 => /\ route'[t][n].gen <= gen'[n]
                                        /\ route'[t][n].gen = gen'[n] => Earned(t, n)'
    BY DEF RoutesEarned
  <2>1. route'[t][n] = route[t][n]
    BY <1>1, RoutesShrink DEF Publish, SidecarInv, TablesTyped
  <2>2. /\ route[t][n].gen \in Nat /\ nextGen \in Nat /\ nextGen' \in Nat /\ nextGen' >= nextGen
        /\ route[t][n].gen < nextGen
    BY <1>1, <2>1, Bounds DEF RegistryInv, TypeOK, Moves, SidecarInv, TablesTyped, Route, RoutesEarned
  <2>3. CASE n \in Arrivals
    <3>1. gen'[n] = nextGen
      BY <1>1, <2>3, ArrivalNext
    <3> QED
      BY <2>1, <2>2, <3>1
  <2>4. CASE n \notin Arrivals /\ gen'[n] # 0
    <3>1. gen'[n] = gen[n] /\ held'[n] = gen[n] /\ mirror'[n] = mirror[n] /\ reported'[n] = reported[n]
      BY <1>1, <2>4, MirrorNext, HeldNext
    <3> QED
      BY <2>1, <2>2, <2>4, <3>1 DEF SidecarInv, RoutesEarned, Earned
  <2>5. CASE gen'[n] = 0
    BY <2>1, <2>2, <2>5
  <2> QED
    BY <2>3, <2>4, <2>5
<1> QED
  BY <1>1, <1>2, <1>3, <1>4, <1>5, <1>6 DEF SidecarInv

-----------------------------------------------------------------------------
(* Datagrams.                                                              *)
LEMMA DropInv ==
    ASSUME SidecarInv, NEW d \in inflight, DropDatagram(d)
    PROVE  SidecarInv'
<1>1. /\ UNCHANGED <<gen, owner, deferred, nextGen, epochOf, epoch, mirror, route, refused, reported>>
      /\ inflight' \subseteq inflight
  BY DEF DropDatagram, DispatchDatagram, active, gates, sidecar
<1>2. RegistryInv'
  BY OutsideInv DEF DropDatagram, SidecarInv
<1>3. held' = held
  BY <1>1 DEF held
<1>4. Stamped' /\ RoutesEarned'
  BY <1>1 DEF SidecarInv, Stamped, RoutesEarned, Earned
<1>5. TablesTyped' /\ MirrorsHolders' /\ MirrorsOwners' /\ ~refused'
  BY <1>1, <1>3 DEF SidecarInv, TablesTyped, MirrorsHolders, MirrorsOwners
<1> QED
  BY <1>2, <1>4, <1>5 DEF SidecarInv

(* An admitted datagram is never refused.                                  *)
LEMMA BindAccepted ==
    ASSUME SidecarInv, NEW d \in inflight, UdpAdmitted(d)
    PROVE  ~BindRefused(d)
<1>1. d.name \in Names /\ gen[d.name] # 0 /\ d.from.on \in Transports /\ gen[d.name] \in Nat
  <2>1. d.name \in Names /\ d.from \in Origins /\ gen[d.name] \in Generations \cup {0}
    BY DEF SidecarInv, RegistryInv, TypeOK
  <2> QED
    BY <2>1, AbsentApart, GenerationsAreNumbers DEF UdpAdmitted
<1>2. mirror[d.name] # Absent /\ mirror[d.name].gen = gen[d.name]
  BY <1>1, HeldNow DEF SidecarInv, MirrorsHolders
<1>3. route[d.from.on][d.name] # Absent =>
          /\ route[d.from.on][d.name].gen <= gen[d.name]
          /\ route[d.from.on][d.name].gen \in Nat
  BY <1>1 DEF SidecarInv, RoutesEarned, TablesTyped, Route
<1> QED
  BY <1>1, <1>2, <1>3 DEF BindRefused

LEMMA BindInv ==
    ASSUME SidecarInv, NEW d \in inflight, BindDatagram(d)
    PROVE  SidecarInv'
<1> DEFINE e == [gen |-> gen[d.name], from |-> d.from, at |-> d.at, sentTo |-> d.sentTo]
<1>1. /\ UNCHANGED <<gen, owner, deferred, nextGen, epochOf, epoch, mirror, reported>>
      /\ inflight' \subseteq inflight
      /\ route' = IF Binds(d) THEN [route EXCEPT ![d.from.on][d.name] = e] ELSE route
      /\ ~refused'
  BY BindAccepted DEF BindDatagram, DispatchDatagram, active, gates
<1>2. RegistryInv'
  BY OutsideInv DEF BindDatagram, SidecarInv
<1>3. held' = held
  BY <1>1 DEF held
<1>4. Stamped' /\ MirrorsHolders' /\ MirrorsOwners'
  BY <1>1, <1>3 DEF SidecarInv, Stamped, MirrorsHolders, MirrorsOwners
<1>5. /\ d.name \in Names /\ d.from \in Origins /\ d.from.on \in Transports /\ d.at \in Nat
      /\ gen[d.name] \in Nat /\ d.sentTo \in Nat /\ gen[d.name] # 0
  <2>1. /\ d.name \in Names /\ d.from \in Origins /\ gen[d.name] \in Generations \cup {0}
        /\ d.at \in Nat /\ d.sentTo \in Generations \cup {0}
    BY DEF SidecarInv, RegistryInv, TypeOK
  <2> QED
    BY <2>1, AbsentApart, GenerationsAreNumbers DEF BindDatagram, UdpAdmitted
<1>6. /\ e \in Route /\ e.gen = gen[d.name] /\ e.from = d.from /\ e.at = d.at /\ e.sentTo = d.sentTo
  BY <1>5 DEF Route
<1> HIDE DEF e
<1>7. /\ route' \in [Transports -> [Names -> {Absent} \cup Route]]
      /\ \A t \in Transports, n \in Names :
            route'[t][n] = IF Binds(d) /\ t = d.from.on /\ n = d.name THEN e ELSE route[t][n]
  BY <1>1, <1>5, <1>6 DEF SidecarInv, TablesTyped
<1>8. TablesTyped'
  BY <1>1, <1>7 DEF SidecarInv, TablesTyped
<1>9. RoutesEarned'
  <2> SUFFICES ASSUME NEW t \in Transports, NEW n \in Names, route'[t][n] # Absent
               PROVE  /\ route'[t][n].gen < nextGen'
                      /\ gen'[n] # 0 => /\ route'[t][n].gen <= gen'[n]
                                        /\ route'[t][n].gen = gen'[n] => Earned(t, n)'
    BY DEF RoutesEarned
  <2>1. CASE route'[t][n] = route[t][n]
    BY <1>1, <2>1 DEF SidecarInv, RoutesEarned, Earned
  <2>2. CASE Binds(d) /\ t = d.from.on /\ n = d.name /\ route'[t][n] = e
    <3>1. d.at > epochOf[gen[n]]
      BY <2>2 DEF BindDatagram, UdpAdmitted
    <3>2. d.sentTo = gen[n]
      BY <1>5, <2>2, <3>1 DEF SidecarInv, Stamped
    <3>3. d.from.ip = mirror[n].ip /\ d.at > reported[n]
      BY <1>5, <2>2 DEF Binds, SidecarInv, MirrorsOwners
    <3>4. gen[n] < nextGen
      BY <1>5, <2>2 DEF SidecarInv, RegistryInv, Holders
    <3>5. Earned(t, n)'
      BY <1>1, <1>6, <2>2, <3>2, <3>3 DEF Earned
    <3> QED
      BY <1>1, <1>5, <1>6, <2>2, <3>4, <3>5
  <2> QED
    BY <1>7, <2>1, <2>2
<1> QED
  BY <1>1, <1>2, <1>4, <1>8, <1>9 DEF SidecarInv

-----------------------------------------------------------------------------
(* A reconnect.                                                            *)
LEMMA RebindInv ==
    ASSUME SidecarInv, NEW s \in Sessions, NEW n \in Names, Rebind(s, n)
    PROVE  SidecarInv'
<1> DEFINE k == [mirror EXCEPT ![n].boundary = epoch + 1]
           q == Unrouted(route, n, gen[n])
<1>1. /\ gen[n] # 0 /\ owner[n] = s /\ epoch' = epoch + 1
      /\ reported' = [reported EXCEPT ![n] = epoch + 1]
      /\ UNCHANGED <<active, bound, leases, epochOf, nextGen, nextTransfer, tickets, world,
                     now, inflight>>
  BY DEF Rebind, Authorized
<1>2. mirror[n] # Absent /\ mirror[n].gen = gen[n] /\ mirror[n].ip = IpOf[s] /\ held[n] = gen[n]
  BY <1>1, HeldNow, Bounds DEF SidecarInv, MirrorsHolders, MirrorsOwners
<1>3. ~refused' /\ FlushOnly /\ mirror' = MirrorLeft(k) /\ route' = RoutesLeft(q)
  BY <1>2 DEF Rebind
<1>4. RegistryInv /\ epoch \in Nat /\ epoch' \in Nat
  BY <1>1 DEF SidecarInv, RegistryInv, TypeOK
<1>5. RegistryInv'
  <2>1. UNCHANGED <<active, bound, epochOf, nextGen, nextTransfer, tickets, closed, now, inflight>>
    BY <1>1 DEF world
  <2>2. quiescing' \in BOOLEAN /\ writes' \in SUBSET Writing
    BY <1>1, <1>4 DEF world, RegistryInv, TypeOK
  <2>3. TypeOK'
    BY <1>1, <1>3, <1>4, <2>1, <2>2, QuietTypes DEF RegistryInv
  <2> QED
    BY <1>1, <1>3, <1>4, <2>1, <2>3, QuietInv DEF RegistryInv, FreshGates
<1>6. /\ k \in [Names -> {Absent} \cup Mirrored]
      /\ k[n].gen = mirror[n].gen /\ k[n].ip = mirror[n].ip /\ k[n].boundary = epoch + 1
      /\ k[n] # Absent /\ \A m \in Names \ {n} : k[m] = mirror[m]
  <2>1. mirror[n] \in Mirrored /\ mirror \in [Names -> {Absent} \cup Mirrored]
    BY <1>2 DEF SidecarInv, TablesTyped
  <2>2. k[n] = [mirror[n] EXCEPT !.boundary = epoch + 1] /\ \A m \in Names \ {n} : k[m] = mirror[m]
    BY <2>1
  <2>3. /\ k[n] \in Mirrored /\ k[n].gen = mirror[n].gen /\ k[n].ip = mirror[n].ip
        /\ k[n].boundary = epoch + 1
    BY <1>4, <2>1, <2>2 DEF Mirrored
  <2>4. k \in [Names -> {Absent} \cup Mirrored]
    <3>1. k = [m \in Names |-> k[m]]
      BY <2>1
    <3>2. \A m \in Names : k[m] \in {Absent} \cup Mirrored
      BY <2>1, <2>2, <2>3
    <3> QED
      BY <3>1, <3>2
  <2> QED
    BY <2>2, <2>3, <2>4, AbsentApart
<1> HIDE DEF k
<1>7. /\ q \in [Transports -> [Names -> {Absent} \cup Route]]
      /\ \A t \in Transports, m \in Names : q[t][m] \in {Absent, route[t][m]}
      /\ \A t \in Transports : q[t][n] # Absent => route[t][n].gen # gen[n]
  <2>1. route \in [Transports -> [Names -> {Absent} \cup Route]]
    BY DEF SidecarInv, TablesTyped
  <2>2. q \in [Transports -> [Names -> {Absent} \cup Route]]
    BY <2>1 DEF Unrouted
  <2> QED
    BY <2>1, <2>2, UnroutedShrinks
<1> HIDE DEF q
<1>8. /\ deferred' \subseteq deferred \cup Lost /\ UNCHANGED <<gen, owner>>
  BY <1>1, <1>3 DEF FlushOnly, Flush, active
<1>9. Knows(k)
  BY <1>2, <1>6 DEF Knows, SidecarInv, MirrorsHolders
<1>10. \A m \in Names : /\ mirror'[m] = IF held'[m] = 0 THEN Absent ELSE k[m]
                        /\ held'[m] # 0 => held'[m] = held[m]
  BY <1>3, <1>4, <1>5, <1>8, <1>9, MirrorSettled
<1>11. \A m \in Names : gen'[m] # 0 => mirror'[m] = k[m]
  BY <1>5, <1>10, HeldNext
<1>12. \A m \in Names : reported'[m] = IF m = n THEN epoch + 1 ELSE reported[m]
  BY <1>1 DEF SidecarInv, TablesTyped
<1>13. TablesTyped'
  <2>1. reported' \in [Names -> Nat]
    BY <1>1, <1>4 DEF SidecarInv, TablesTyped
  <2>2. mirror' \in [Names -> {Absent} \cup Mirrored]
    <3>1. mirror' = [m \in Names |-> mirror'[m]]
      BY <1>3 DEF MirrorLeft
    <3>2. \A m \in Names : mirror'[m] \in {Absent} \cup Mirrored
      BY <1>6, <1>10
    <3> QED
      BY <3>1, <3>2
  <2>3. route' \in [Transports -> [Names -> {Absent} \cup Route]]
    BY <1>3, <1>7, RoutesShrink
  <2> QED
    BY <2>1, <2>2, <2>3 DEF TablesTyped
<1>14. MirrorsHolders'
  BY <1>9, <1>10 DEF MirrorsHolders, Knows
<1>15. MirrorsOwners'
  BY <1>6, <1>8, <1>11, <1>12 DEF SidecarInv, MirrorsOwners
<1>16. Stamped'
  <2>1. \A d \in inflight : d.at \in Nat
    BY <1>4 DEF RegistryInv, TypeOK
  <2> QED
    BY <1>1, <1>4, <1>8, <2>1 DEF SidecarInv, Stamped
<1>17. RoutesEarned'
  <2> SUFFICES ASSUME NEW t \in Transports, NEW m \in Names, route'[t][m] # Absent
               PROVE  /\ route'[t][m].gen < nextGen'
                      /\ gen'[m] # 0 => /\ route'[t][m].gen <= gen'[m]
                                        /\ route'[t][m].gen = gen'[m] => Earned(t, m)'
    BY DEF RoutesEarned
  <2>1. route'[t][m] = q[t][m] /\ q[t][m] = route[t][m]
    BY <1>3, <1>7, RoutesShrink
  <2>2. /\ route[t][m].gen < nextGen
        /\ gen[m] # 0 => /\ route[t][m].gen <= gen[m]
                         /\ route[t][m].gen = gen[m] => Earned(t, m)
    BY <2>1 DEF SidecarInv, RoutesEarned
  <2>3. CASE m = n
    BY <1>1, <1>7, <1>8, <2>1, <2>2, <2>3
  <2>4. CASE m # n
    <3>1. gen[m] # 0 => mirror'[m] = mirror[m] /\ reported'[m] = reported[m]
      BY <1>6, <1>8, <1>11, <1>12, <2>4
    <3> QED
      BY <1>1, <1>8, <2>1, <2>2, <3>1 DEF Earned
  <2> QED
    BY <2>3, <2>4
<1> QED
  BY <1>3, <1>5, <1>13, <1>14, <1>15, <1>16, <1>17 DEF SidecarInv

-----------------------------------------------------------------------------
(* The invariant, and what it says.                                        *)
LEMMA InitSidecar ==
    ASSUME UdpInit
    PROVE  SidecarInv
<1>1. RegistryInv
  BY InitInv DEF UdpInit
<1>2. gen = [n \in Names |-> 0] /\ deferred = {} /\ inflight = {}
  BY DEF UdpInit, Init
<1>3. \A n \in Names : held[n] = 0
  BY <1>1, <1>2, HeldNow
<1>4. /\ mirror = [n \in Names |-> Absent] /\ reported = [n \in Names |-> 0]
      /\ route = [t \in Transports |-> [n \in Names |-> Absent]] /\ ~refused
  BY DEF UdpInit
<1>5. TablesTyped
  BY <1>4 DEF TablesTyped
<1>6. MirrorsHolders /\ MirrorsOwners /\ Stamped /\ RoutesEarned
  BY <1>2, <1>3, <1>4 DEF MirrorsHolders, MirrorsOwners, Stamped, RoutesEarned
<1> QED
  BY <1>1, <1>4, <1>5, <1>6 DEF SidecarInv

LEMMA StutterSidecar ==
    ASSUME SidecarInv, UNCHANGED allVars
    PROVE  SidecarInv'
<1>1. /\ UNCHANGED <<gen, owner, deferred, nextGen, epochOf, epoch, inflight>>
      /\ UNCHANGED <<mirror, route, refused, reported>> /\ UNCHANGED vars
  BY DEF allVars, vars, sidecar
<1>2. RegistryInv' /\ held' = held
  BY <1>1, StutterInv DEF SidecarInv, held
<1>3. Stamped' /\ RoutesEarned'
  BY <1>1 DEF SidecarInv, Stamped, RoutesEarned, Earned
<1>4. TablesTyped' /\ MirrorsHolders' /\ MirrorsOwners' /\ ~refused'
  BY <1>1, <1>2 DEF SidecarInv, TablesTyped, MirrorsHolders, MirrorsOwners
<1> QED
  BY <1>2, <1>3, <1>4 DEF SidecarInv

(* The inductive invariant holds in every behaviour of the sidecar.        *)
THEOREM SidecarInvariant == UdpSpec => []SidecarInv
<1>1. SidecarInv /\ [UdpNext]_allVars => SidecarInv'
  BY RegistryStepInv, DropInv, BindInv, RebindInv, StutterSidecar DEF UdpNext
<1> QED
  BY <1>1, InitSidecar, PTL DEF UdpSpec

(* The sidecar never refuses what the World publishes or dispatches, so no *)
(* turn stops the World: it has a place for every claim that the World     *)
(* admits, and it knows the generation that holds a name, no other.        *)
THEOREM SidecarAlwaysAgrees == UdpSpec => []SidecarAgrees
<1>1. SidecarInv => SidecarAgrees
  <2>1. \A n \in Names : HeldBy(n) = held[n]
    BY DEF HeldBy, HeldIn, held
  <2> QED
    BY <2>1 DEF SidecarInv, SidecarAgrees, MirrorsHolders
<1> QED
  BY <1>1, SidecarInvariant, PTL

(* A relay goes only to an endpoint at the present owner's address, which  *)
(* spoke under the present generation and after the last reconnect.        *)
THEOREM RoutesAlwaysCurrent == UdpSpec => []RoutesAreCurrent
<1>1. SidecarInv => RoutesAreCurrent
  <2> SUFFICES ASSUME SidecarInv, NEW t \in Transports, NEW n \in Names, Target(t, n) # Absent
               PROVE  LET r == Target(t, n) IN
                      /\ r.from.on = t /\ r.from.ip = IpOf[owner[n]]
                      /\ r.sentTo = gen[n] /\ r.at > reported[n]
    BY DEF RoutesAreCurrent
  <2>1. /\ Target(t, n) = route[t][n] /\ route[t][n] # Absent /\ route[t][n].gen = gen[n]
        /\ gen[n] # 0 /\ owner[n] # NoSession
    BY DEF Target
  <2>2. Earned(t, n) /\ mirror[n].ip = IpOf[owner[n]]
    BY <2>1 DEF SidecarInv, RoutesEarned, MirrorsOwners
  <2> QED
    BY <2>1, <2>2 DEF Earned
<1> QED
  BY <1>1, SidecarInvariant, PTL

(* The step that RouteIsStable demands.                                    *)
RouteKept ==
    \A t \in Transports, n \in Names :
        LET r == Target(t, n) r2 == Target(t, n)' IN
        r # Absent /\ r2 # Absent /\ gen'[n] = gen[n] /\ reported'[n] = reported[n]
           => r2.from = r.from

(* A step takes an endpoint away or leaves it, unless a datagram from the  *)
(* same address and port renews it, or there was none of this generation.  *)
LEMMA RoutesChange ==
    ASSUME SidecarInv, UdpNext, NEW t \in Transports, NEW n \in Names
    PROVE  \/ route'[t][n] \in {Absent, route[t][n]}
           \/ route[t][n] # Absent /\ route[t][n].gen = gen[n] => route'[t][n].from = route[t][n].from
<1>1. route \in [Transports -> [Names -> {Absent} \cup Route]]
  BY DEF SidecarInv, TablesTyped
<1>2. CASE RegistryStep
  BY <1>1, <1>2, RoutesShrink DEF RegistryStep, Publish
<1>3. CASE \E d \in inflight : DropDatagram(d)
  BY <1>3 DEF DropDatagram, sidecar
<1>4. ASSUME NEW d \in inflight, BindDatagram(d)
      PROVE  \/ route'[t][n] = route[t][n]
             \/ route[t][n] # Absent /\ route[t][n].gen = gen[n] => route'[t][n].from = route[t][n].from
  <2> DEFINE e == [gen |-> gen[d.name], from |-> d.from, at |-> d.at, sentTo |-> d.sentTo]
  <2>1. /\ route' \in {route, [route EXCEPT ![d.from.on][d.name] = e]}
        /\ route' # route => Binds(d)
    BY <1>4 DEF BindDatagram
  <2>2. e.from = d.from
    OBVIOUS
  <2> HIDE DEF e
  <2>3. CASE route' # route /\ t = d.from.on /\ n = d.name
    <3>1. route'[t][n] = e /\ Binds(d)
      BY <1>1, <2>1, <2>3
    <3>2. route[t][n] # Absent /\ route[t][n].gen = gen[n] => route[t][n].from = d.from
      BY <2>3, <3>1 DEF Binds
    <3> QED
      BY <2>2, <3>1, <3>2
  <2>4. CASE route' # route /\ ~(t = d.from.on /\ n = d.name)
    BY <1>1, <2>1, <2>4
  <2> QED
    BY <2>3, <2>4
<1>5. ASSUME NEW s \in Sessions, NEW u \in Names, Rebind(s, u)
      PROVE  route'[t][n] \in {Absent, route[t][n]}
  <2>1. CASE route' = route
    BY <2>1
  <2>2. CASE route' = RoutesLeft(Unrouted(route, u, gen[u]))
    <3>1. /\ Unrouted(route, u, gen[u]) \in [Transports -> [Names -> {Absent} \cup Route]]
          /\ Unrouted(route, u, gen[u])[t][n] \in {Absent, route[t][n]}
      BY <1>1, UnroutedShrinks
    <3>2. route'[t][n] \in {Absent, Unrouted(route, u, gen[u])[t][n]}
      BY <2>2, <3>1, RoutesShrink
    <3> QED
      BY <3>1, <3>2
  <2> QED
    BY <1>5, <2>1, <2>2 DEF Rebind
<1> QED
  BY <1>2, <1>3, <1>4, <1>5 DEF UdpNext

(* An endpoint in use is not taken over within a generation, unless the    *)
(* owner has reported a reconnect: whoever spoke first keeps the relay.    *)
THEOREM RouteAlwaysStable == UdpSpec => RouteIsStable
<1>1. SidecarInv /\ [UdpNext]_allVars => [RouteKept]_allVars
  <2> SUFFICES ASSUME SidecarInv, UdpNext, NEW t \in Transports, NEW n \in Names,
                      Target(t, n) # Absent, Target(t, n)' # Absent, gen'[n] = gen[n]
               PROVE  Target(t, n)'.from = Target(t, n).from
    BY DEF RouteKept
  <2>1. Target(t, n) = route[t][n] /\ route[t][n] # Absent /\ route[t][n].gen = gen[n]
    BY DEF Target
  <2>2. Target(t, n)' = route'[t][n] /\ route'[t][n] # Absent
    BY DEF Target
  <2> QED
    BY <2>1, <2>2, RoutesChange
<1>2. UdpSpec => [][RouteKept]_allVars
  BY <1>1, SidecarInvariant, PTL DEF UdpSpec
<1> QED
  BY <1>2, PTL DEF RouteIsStable, RouteKept
=============================================================================

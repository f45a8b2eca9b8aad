# A TLA+ verification project for the P4475 server

This directory models the concurrent and stateful core of the P4475 Rust
workspace in TLA+, model-checks it with TLC on small instances and proves, with
TLAPS, the results that matter most for every instance.

## 1. The system

The workspace is a private game server for one old racing client (KR P4475) and
the tools around it. The server is one process: login, channel, messenger and
UDP sockets, each with its own tasks, in front of one *World actor* that owns
all shared state and serves commands one at a time. Work that may block
(profile files) runs elsewhere and comes back to the actor as a completion.

| component | state | operations | what makes it correct |
|---|---|---|---|
| wire operation gate (`operation_gate.rs`) | two admission flags, two counters, a bypass flag, one `Notify` | `try_begin_request/outbound`, guard drop, close, bypass, three waits | counters equal live guards; a drain is final; no wakeup is lost |
| shutdown supervisor (`runtime.rs`) | shutdown phase, task handles | graceful core shutdown, abandonment, forced shutdown | a shutdown ends; every barrier runs behind the drain it needs |
| identity operation gate (`identity.rs`) | per generation: lease count, `OPEN` / transfer id / `RETIRED` | admit, retain, release, freeze, reopen, retire, wait until drained | a generation retires only when no lease is live; the drain waiter is never stranded |
| identity registry (`identity.rs`) | names and user numbers, active generations, session bindings, permits, deferred releases | claim, authorize, admit (TCP and UDP), begin / preflight / prepare / commit / abort migration, disconnect, expire, collect, drain | one owner per nickname; old generations never act again; a freeze is always lifted |
| World: rooms (`world.rs`) | rooms, seats, teams, AI seats, closed slots, master | create, join, leave, kick, slot, team, track, AI and close-slot commands, start | seats are never shared, capacity holds, the master is a member |
| World: race lifecycle (`world.rs`) | loading handshakes, finish claims, settlement | stage entry, ready, start, record finish, settle, abort | a race settles once; a departed rider cannot block the others |
| World: reward persistence (`world.rs`) | pending rewards, attempt leases, retries, dead letters | claim, complete, fail, expire, drain | a reward is applied once or kept as a dead letter |
| race objects (`race_object_registry.rs`) | item objects per race incarnation | spawn, use, hit, expire | an object dies once and never crosses races |
| MyRoom hub (`myroom_hub.rs`) | rooms by owner, memberships, canonical generations, password grants | enter (own, direct, re-enter, random), leave, move, disconnect, password check, protected read, policy write, address | a user is in one room; a role belongs to a generation the registry knows, or to an absent owner; what is protected is earned |
| messenger hub (`messenger_hub.rs`) | messenger sessions and chat rooms | enter, invite, chat, leave, advance, release | a session speaks for the identity the World published |
| UDP endpoints (`udp_state.rs`, `udp_runtime.rs`) | mirrored identities, an endpoint per user and transport, arrival clock | announce, advance, release, bind, authorize rebind, target | relays go only to the present generation's own endpoint; the sidecar never disagrees with the World |
| profile runtime (`profile_io.rs`, `profile_durability.rs`, `*_persistence.rs`) | per-profile queues, revisions | submit, commit, confirm, shut down | accepted writes run once, in order, even when the caller is gone |
| profile store (`p4475-profile`) | a directory of immutable revisions per profile | transaction, load or create, publish by hard link, compact, confirm | what was acknowledged survives crashes and other writers |
| track choice (`random_track.rs`) | none: a static catalogue | resolve | pools are valid |
| sessions (`session.rs`) | per-socket protocol stage | read, dispatch, write | requests are admitted before they run |
| client oracle (`p4475-client-oracle`) | client state machines rebuilt from the binary | events and scenes | server output is accepted by the client |
| packet codecs (`p4475-core`) | none | encode, decode | round trips |
| assets, RHO5, CLI, GUI, connector, native sidecar | files and UI | tools | file and process I/O |

### How the parts interact

A socket task reads a frame, takes a *wire guard* and, once logged in, an
*identity lease* from the World actor, and then sends the actor a command. The
actor alone changes rooms, races, identities and settlements. After each
command, and on a 100 ms heartbeat, it runs `advance_loading`, which moves
handshakes, races and settlements forward. It never blocks: profile reads and
writes go to the profile runtime, rewards to the *reward pump*, a task that asks
the actor for due attempts, runs a worker for each and returns the completions.
Replies are reserved in bounded per-session queues before the state they
announce is changed; a reservation that fails refuses the command or leaves the
fan-out pending.

### What is hard here

* **Interleavings below the actor.** Guards, leases and drain waits run on other
  threads, over a mutex and a `Notify` (wire gate) or over two atomics and a
  `Notify` (identity gate). Check-then-wait is the classic place to lose a
  wakeup; retain against retire the classic use after release.
* **Tickets held outside of the actor.** A migration preflight freezes an
  identity and lives in another task while the permit expires, the socket closes
  or another move commits. Reward attempts live in workers while their leases
  expire and the room is reused.
* **Late messages.** Socket closes, datagrams, completions and ready reports
  arrive after the state they were about.
* **Copies of one fact.** The MyRoom hub, the UDP sidecar and the messenger keep
  their own copy of each identity; the World stops when a copy contradicts the
  registry. Reads and writes of profiles lie between a check and its use.
* **Crashes.** A restart between the durable payment and its completion; a
  machine that stops between the link of a revision and the sync of its
  directory.
* **Shutdown.** Phases that wait for each other in a fixed order, with a forced
  shutdown possible between any two steps.
* **Parallel arrays.** A room keeps seats, slots, teams, ranks, AIs and closed
  slots in separate arrays which every command must keep consistent.

`PROJECT.json` lists each hazard at its line with the properties that would
catch it.

## 2. Plan

The order follows what the rest of the server relies on.

| step | module | composes with | state |
|---|---|---|---|
| 1 | `WireOperationGate`, `WireOperationGateProofs` | shutdown phases of `runtime.rs` | done, proved |
| 2 | `IdentityOperationGate`, `IdentityOperationGateProofs` | is one gate of `IdentityRegistry` | done, proved |
| 3 | `IdentityOwnership` (abstract), `IdentityRegistry`, `RegistryProofs` | World actor, UDP arrival clock | done, refinement proved |
| 4 | `ProtocolRooms`, `ProtocolRoomsProofs` | race phases from 5 and 6 | done, proved |
| 5 | `RaceLoading`, `RaceLoadingProofs` | generations from 3, members from 4 | done, proved |
| 6 | `RewardSettlement`, `RewardSettlementProofs` | pump, profile receipts, shutdown | done, proved |
| 7 | `UdpEndpoints`, proofs in `RegistryProofs` | extends 3 with the sidecar | done, proved |
| 8 | `MyRoomHub`, `MyRoomHubProofs` | generations and releases of 3, reduced to what rooms see | done, proved |
| 9 | `ProfileStore`, `ProfileStoreProofs` | the transactions behind 6 and 8 | done, proved |

An abstract specification is worth stating where other parts rely on a promise
and not on the mechanism: `IdentityOwnership`. The promises of the file protocol
(a change that was acknowledged stays, a revision number keeps its value) are
stated on history variables of `ProfileStore`, because a machine crash may undo
changes that nobody was told of, which an atomic cell could not.

## 3. The modules and the code

The operators keep the names of the functions they model; `PROJECT.json` maps
each to its lines. An operator whose comment starts with *Variant* changes a
neighbour the way a plausible bug would; it is used by no specification and
exists to show that a property notices.

**`WireOperationGate`** (`operation_gate.rs`, shutdown order of `runtime.rs`,
session loop of `session.rs`). `accepting`, `active` and `bypassed` are the
fields behind the mutex, `guard` the holders, `wait` and `woken` the tasks inside
`Notified`, `phase` the supervisor, `operator` a forced shutdown in progress.
Lock-protected changes and `notify_waiters` are separate steps (`TryBegin`,
`DropGuard` / `HolderNotify`, `Close*` / `SupervisorNotify`, `ForceFlag` /
`ForceBypass` / `OperatorNotify`), since the code unlocks between them. A waiter
arms (creates its `Notified`), then checks, then parks; `notify_waiters` wakes
exactly the armed and the parked.

**`IdentityOperationGate`** (`identity.rs`). One generation's gate: the word
`state` (`OPEN`, a transfer id or `RETIRED`), the `count`, and the position of
each lease, of the actor and of each drain waiter. Each atomic load or successful
compare-exchange is a step. Atomic accesses are sequentially consistent in the
model; the code uses acquire/release, and a weaker reordering of the two words is
not explored. A retain borrows a live lease (`&self` in Rust), which `parent`
records.

**`IdentityRegistry`** (`identity.rs`, and the World commands that call it).
Active identities, bindings, permits, deferred releases, one gate word and lease
count per generation (module `IdentityOperationGate` shows that the gate behaves
as one atomic step), tickets outside of the actor, the clock and the UDP arrival
clock with the datagrams in flight, stamped with their arrival and their sender.
Each turn that flushes drained releases in the code ends with `Flush`. A session
ends in `EndSession`, which disconnects its identity. That is its close
(`CloseSession`), unless an equipment write of the session is on the way
(`writes`): then `DeferClose` takes it from the World's table and leaves the
identity bound to it, still owned, until `FinishWrite` ends the write and the
session with it.
`Ownership` maps it to **`IdentityOwnership`**: a name is held by one generation
at a time, generations only grow, and a name changes hands only when no
operation of the old holder is running.

**`ProtocolRooms`** (`world.rs`). A room is the record `ProtocolRoomState`; the
methods are operators from room to room, and the commands replace the room and
the membership index. The race is three phases here: it starts, it is aborted or
it ends with any grid order and any winning team (`settlement_ranking` is
abstracted to all of its results). Commands that only relay (chat, track,
title) change nothing the properties read.

**`RaceLoading`** (`world.rs`). One room from `start_room` to the close of the
finish line. Roster entries are stamps of user and generation. Deadlines are
counted in ticks left, so the clock needs no bound. Every action ends in
`Advance`, because every command ends in `advance_loading`, unless the World is
quiescing.

**`RewardSettlement`** (`world.rs`, `runtime.rs`, `profile_io.rs`,
`progression.rs`). Rooms with their settlement, reward lanes, attempts with
leases, the pump and its workers, receipts in the profiles, the shutdown stages
and `Restart`, which keeps only the profiles and begins a newer run. `credited`
and `balance` record payments; the code has the balance in the profile and no
`credited`, which is a history variable. Whether outbound reservations succeed
is chosen anew in every turn.

**`UdpEndpoints`** (`udp_state.rs`, `udp_runtime.rs`, and the flush of
`world.rs`) extends `IdentityRegistry`: every step of the registry is composed
with `Publish`, which derives the turn's lifecycle events from what the step
changed (`Releases` before `Arrivals`, the order of the event queue) and applies
them to `mirror` and `route`. A datagram that the registry admits is dispatched
and bound (`BindDatagram`) or dropped; `Rebind` is the client's report that it
reconnected. `refused` is the sidecar error that stops the World. `sentTo` in an
endpoint and `reported` are history variables. The messenger receives the same
events in the same flush; its own tables are not modelled.

**`MyRoomHub`** (`myroom_hub.rs`, the MyRoom commands of `world.rs`). The hub is
one record with its three tables; its transitions are operators from hub to hub
(`Enter`, `Leave`, `Disconnect`, `Advance`, `SetPort`), which the actions combine
with the World's checks. The registry is reduced to `life`, `gen` and `moving`.
`op` is an operation that holds an identity lease while a profile is read or
written; it delays moves and releases exactly as a lease does. `Halt` is the end
of the World actor, with its reason; the tables vanish with it. Presentations,
characters and talk are data. Entering a MyRoom also leaves the protocol room,
which is `Leave` of `ProtocolRooms`. Revisions of a policy are taken from a
small set of values nobody refers to; an address is the generation that showed
it. Not modelled: a full outbound queue in the fan-out of a release, which also
ends the actor.

**`ProfileStore`** (`store.rs`, `profile_durability.rs`). One profile directory in
two images, `files` as processes see it and `disk` as of the last directory sync.
A transaction is a program counter per writer: list, read, stage a temporary
file, check the head again, compact, settle the removals, link, sync; or confirm.
Other writers, process death, a machine crash and every failure of a removal or a
sync may come between any two of them. The value of a profile is the set of
changes in it, and a change is idempotent, as the closures of the code are when
an uncertain commit is retried. `promised` and `named` are history: what durable
answers told. Assumptions: a listing is atomic; a link makes a complete file
appear, because content is synced before it gets a name; a file decays only at
rest; and a crash finds at least one revision that a compaction keeps intact on
disk. The last one fails in the code only if all 63 revisions that are kept
have decayed or were published in a row without one successful sync.

## 4. The runs

| run | instance | distinct states | what it shows |
|---|---|---|---|
| `wire_gate` | 3 holders, counter up to 2, 2 sessions | 247,238 | `CountsAreGuards`, also when a counter is exhausted; `GracefulDrainIsFinal`: what the supervisor saw drained stays drained; `NoLostWakeup`; `ShutdownTerminates`: each drain ends, a forced shutdown ends whatever is held, and sessions notice the close |
| `identity_gate` | 3 leases, count up to 2, 2 transfers | 119,285 | `CountIsLeases`, `RetiredIsEmpty`, `CommitCannotPanic`, `DrainIsStable`, `NoStrandedWaiter`, and `WaitEnds`: every drain wait ends |
| `identity_registry` | 2 names, 3 sockets, 3 generations, 2 transfers, equipment writes, a datagram before the first claim | 806,394 | `RegistryAgrees`: tables, gates, permits and tickets agree, and a session that is gone is bound to a name only while the write that will close it is on the way; `OwnerKeepsName`; `KeepsOwnership`: it implements `IdentityOwnership` |
| `udp_endpoints` | 1 name, 3 sockets on 2 addresses, 2 ports, 1 transfer, delayed datagrams, an equipment write | 378,644 | `SidecarAgrees`: the sidecar mirrors the registry and never refuses it; `RoutesAreCurrent`: relays go only where the present owner sent from, in its generation and since its last reconnect; `RouteIsStable`: an endpoint in use is not taken over; `MigrationsEnd`: freezes lift, ownerless identities end, waiting closes come, drained releases are collected |
| `rooms` | 3 users, 1 room of 4 seats and a booth, teams, AIs, closed slots | 285,644 | `DirectoryAgrees`: index, rooms and id allocator agree and no room is left behind empty; `SeatsConsistent`: parallel arrays and teams agree; `MasterLives`; `RanksArePermutation`; `RosterOnlyShrinks` |
| `race_loading` | 2 racers, observer, AI, a migration each | 45,856 | `WaitsForThePresent`, `NoAbandonedRace`, `StartsTogether`, and `RaceMovesOn`: an armed handshake ends and an opened settlement closes with every result sent |
| `reward_settlement` | 3 racers over 2 attempt ids | 36,072 | `InFlightHasWorker`, also when the ids run out before or within a batch; `SettledIsPaid`: a room is released only when all are paid; `SettlementResolves` |
| `reward_races` | 1 user, 2 rooms, 2 races, 1 restart | 1,901,120 | `PaidOnce`, `NeverStale`, `LanesAgree`, and `RetryableHasAttempt`: dead letters keep their attempt |
| `reward_shutdown` | 1 racer | violation | the first finding below |
| `myroom` | 3 users, rooms of 1 visitor, 3 generations, 2 policies, addresses apart from grants | 403,670 | `HubAgrees`: the hub's three tables tell one story; `RolesAreLive`: no role outlives its generation in the registry; `ProtectedReadIsEarned`, also when the password changes between check, plan and answer; `PortIsCurrent`: no generation inherits an address |
| `myroom_login` | the same | violation | the second finding below |
| `profile_store` | 2 writers, 3 changes, retention 3, 2 attempts, 2 faults | 2,538,721 | `PromisesSurvive`: what was acknowledged survives other writers and crashes; `ReceiptsAreExact`: a revision number keeps its value; `VisibleGrows`: no step of the store takes a change back |

**Bounds.** The saturating counters, the last transfer id and the last attempt
id are reached, so both sides of each limit are seen; two transfers (in
`identity_registry`) make a stale
and a current one, three sockets an old, a current and a next owner, two races
an earlier and a later one, and a clock of a few ticks lies on both sides of each
deadline. Four seats are the smallest room with two teams of two, and closed
slots and a booth fill it. One MyRoom visitor fills a room; of the three users one
owns, moves and changes her policy, one visits and reads, and one is only ever an
offline owner, so every combination of present, absent and offline is met.
The constraint `ClaimsOnly` of `identity_registry` lets no datagram be stamped after
a claim, because there no property looks at one: `udp_endpoints` has them.
The constraint `AddressesApart` of `myroom` keeps the two kinds of address apart
and both apart from password grants, which no property relates; the theorems of
`MyRoomHubProofs` know no such bound.
Retention three is the smallest with a revision to protect behind a torn tail,
and two faults make a tail longer than what a compaction keeps; three changes and
their repetition after a fault let a revision name become free under a writer
that still wants it. Symmetry is used for names and sockets in
`identity_registry`, for users in `rooms` and for changes and writers in
`profile_store`, which check safety only and whose properties treat them alike.
Deadlock checking is on for `profile_store`; elsewhere it is off because each of
these systems may rightly stop: a shut down server, a retired generation, a
World that ended, a used-up bound.

**Fairness.** Weak fairness, for steps a scheduler or a timer takes: tasks that
can run are polled, the clock, heartbeat, poll and expiry timers fire, the pump
joins its workers. Beyond that: guards and leases are dropped (frame handling
and writes are under the session timeouts); whoever holds a migration ticket
submits or drops it (its `Drop` reports the abort); a profile job ends, and one
that is never submitted is reported as aborted (its completion permit is reserved
before it is registered), so an equipment write ends either way; and a
heartbeat finds queue space eventually, since a client that does not drain its
queue loses its session. No fairness is assumed for clients, commands, force,
quiesce, the producer barriers behind the request drain, or restarts.

## 5. The findings

`reward_shutdown` refutes `QuiescedSettlementDrains`. A settlement that is
persisting when the World quiesces is paid and becomes `Ready`; only
`advance_loading`, which returns at once while quiescing (`world.rs:5864`), or
`drain_outbound_producers_once` releases its lane, and the latter runs only after
`stop_reward_runtime`, which waits for the pump, which waits until no lane is
left (`runtime.rs:1577`). The graceful shutdown then waits for its own next
phase until it is forced. The test
`quiesce_atomically_blocks_new_starts_but_existing_settlement_drains` stops at
`Ready` and so does not see it.

`myroom_login` refutes `LoginAdvancesOfflineOwner`. A visitor may enter the room of
a user who is not logged in; the hub then tracks that user under generation zero,
and the comment on `offline_myroom_binding` (`identity.rs:1573`) says that a
"normal login can later advance it". A login does not touch the hub: only
`PqGetRider`, a later request of the client, advances the owner. Whatever
names the live generation to the hub before that meets `StaleGeneration`: the
owner's disconnect, a request of its own, somebody's random or direct entry, a
datagram from its port. The error is a `MyRoomLifecycleError` and ends the World
actor for everybody.

Three further observations are consequences of the code that no document
contradicts: a room in `Loading` whose clients never arm the handshake has no
deadline; a fan-out in a MyRoom that meets a draining member ends the World
actor (`Halt("audience")`), as do more offline owners than the identity capacity
allows; and the candidates for attempts are cut only when exactly one id is
left, so that with two left and three candidates the pump ends in the middle of
a batch.

## 6. The proofs

**`WireOperationGateProofs`**, for every finite set of holders, every set of
sessions and every counter width. `IndInv` joins `TypeOK`, `CountsAreGuards`,
`GracefulDrainIsFinal` and `NoLostWakeup` with `ShutdownOrder`: a phase behind
the closing of an admission keeps that admission closed, and the supervisor waits
in no phase but a drain. Without the first, a drain is not final (a guard could
be admitted behind it); without the second, a waiting supervisor could change the
condition it waits for. Counting rests on two lemmas: one holder that changes
its guard changes one count by one (`LiveChange`), and a live guard is counted,
so a drop cannot underflow (`GuardIsCounted`).

**`IdentityOperationGateProofs`**, for every finite set of operations, every
counter width and every number of transfers. `IndInv` adds `GateSchedule` and
`Announced` to the six checked invariants. The heart is the borrow in
`GateSchedule`: a retain in progress has a live parent, so a count of zero means
that no retain is on its way (`DrainedIsEmpty`), and reading count and state in
two loads is safe. `Announced` says that a waiter past its second look at the
state word is told of a change; retirement notifies nobody, and needs not,
because it requires a count of zero, which such a waiter reads next.

**`RegistryProofs`**, for any names, sockets and tokens and every limit.
`RegistryInv` is what the tables must say for the next step to be safe: gates of
generations that nobody has got yet are untouched (`FreshGates`); an active
generation is smaller than the counter and belongs to one name (`Holders`); a
draining release has a name without active generation and is the only one of it
(`Draining`); the word of an active gate is its transfer mark (`GateMatches`); a
freeze has a permit and a ticket behind it (`FreezeBacked`); no two tickets share
an id (`TicketIds`); sockets and names point at each other (`IndexAgrees`).
`RegistryAlwaysAgrees` needs one more invariant on top of it, `ClosingInv`: a write
is for the name that its session is bound to, unless that session has left
(`WriteOwners`), so the write that a deferred close finds is the one that releases
this very name (`ClosesWait`). The
same lemmas give `OwnerKeepsName` and the refinement of `IdentityOwnership`: the
holder of a name is its active generation or the one that still drains, and
`HeldTurn` shows once, for every turn, that the flush at its end hands a name on
only when no operation of its holder is running.

Its second half is about `UdpEndpoints`, the registry with the sidecar. Each step
of the registry is first reduced to what the sidecar can tell of it (`Moves`); then `SidecarInv`
follows: the mirror knows a user exactly while a generation holds the name, with
the owner's address and the last reconnect; a stamp that is newer than a
generation was given to a datagram sent to it (`Stamped`); an endpoint of the
present generation was earned (`RoutesEarned`). That the mirror never runs out of
places is a counting argument: after the flush that a claim does first, the names
that hold a place are the active ones and the waiting releases, which the World
has just counted below the same capacity (`MirrorHasRoom`). The proof of `Rebind`
found a gap in an earlier form of the model: the turn that authorizes a rebind
also publishes the releases it collects, which with one user cannot be seen; TLC
then showed the difference with two.

**`RaceLoadingProofs`**, for any roster and delays. The four properties need
`Complete`: an awaiting handshake expects everybody who is present, which holds
because a stamp that stops being active never becomes active again, generations
only grow. Each part of `advance_loading` has a lemma over a room record, so that
the handlers that end in it share one argument.

**`RewardSettlementProofs`**, for any rooms, racers, workers, attempt ids and
restarts. `NeverStale` needs to know how far a worker may lag behind the race of
its user, `PaidOnce` that no race was credited beyond the latest receipt,
`SettledIsPaid` that every durable entry was credited; all rest on `LanesAgree`,
which serialises the races of a user. `FirstBelongs` shows that the
lexicographic choice of the next reward is one of the candidates, by the
well-foundedness of the numbers.

**`ProtocolRoomsProofs`**, for any users, room ids, booths and even number of
slots. A room's methods are operators from room to room, so almost everything is
said of one room: `RoomInv` joins the seats (`OneOccupant`, `Slotted`, `Teamed`),
`Apart` (nobody sits twice), `Led` and `Ranked`, and every method has a lemma that
it keeps them. All changes of the arrays are an occupation of a free seat and slot
(`OccupyKeepsSeats`), the vacation of a seat with its slot (`VacateKeepsSeats`), or
one after the other (a team change). Compaction needs counting: below rank j of a
gapless order there are exactly j racers (`BelowCount`), so those behind the racer
who left move up by one (`CompactRanked`); a settled order is a permutation because
an injection between finite sets of one size is onto (`OrderIsOnto`). What a
command does to the directory is shown once, for a room that is replaced
(`Settles`) and one that is deleted (`Deletes`). An observer needs a `Led` room to
enter: in a lobby without users it would be one of nobody's, and `RoomsInv` says
that there is none.

**`ProfileStoreProofs`**, for any writers, changes, attempts and faults, and every
retention of at least three (the code has 64). `StoreInv` has two halves. Of the
directory: both images show one history in which later revisions carry what
earlier ones carried (`Chain`); no more files are torn than have decayed
(`TornFew`); the newest revision and the newest readable one on disk are still in
`files`, or were removed behind enough newer ones (`Backed`); what was told is on
disk (`Told`). Of a transaction: its head is not ahead of the directory, and when
it is the head, the value it holds is the current one (`Reads`); a live temporary
file past the second check is for the next revision, or that one exists (`Wins`);
what it is about to remove is spare (`Removes`). `Fence` joins two transactions:
no compaction frees the name a live temporary file is for, which holds because
the listing that chose what to remove has swept the files of those it could
strand. `RemovalSpares` is the counting behind compaction: a revision with enough
newer ones keeps enough of them, whichever of the others go. `TopIsThere` is where
the crash assumption enters: if the newest readable revision on disk had been
removed, its RETENTION - 1 successors would all be unsynced or torn, more than the
assumption admits. With a retention of two `ReceiptsAreExact` fails: a torn head in
front of a protected source is compacted away and its number is used again.

**`MyRoomHubProofs`**, for every finite set of users, any number of seats, any
capacity and any policies. `MyRoomInv` speaks of the hub's tables alone (`HubInv`),
of hub and registry (`RolesAreLive`, and that nobody but an offline user has
generation zero), and of policies: every password proof that a grant or a read
plan carries is the password of the policy whose revision it names (`GrantsProve`,
`PlansProve`). The last is what `ProtectedReadIsEarned` rests on, which by itself
only looks at one answer; it stays true across a policy write, and across a room
that closes and is opened again, because a new room and a new policy get a
revision that no grant and no plan refers to (`FreshFits`, a counting argument:
two users' worth of grants and plans cannot hold all revisions).
`HubInv` splits into `Sound`, which holds in the middle of a transition, and
`Pruned`, which its last act restores. Every operation is one of three kinds, each
with its lemmas: it removes roles (`Detach`, `Leave`, `Disconnect`: `Shrunk`, no room
and no role appears), it changes what roles carry (`Advance`, `SetPort`, the policy:
`Alike`, nobody moves), or it adds one (`Enter`: `Admitted`). Entering is the only one
that may exceed the capacity; `EnterFits` counts the identities it adds against
the one it prunes, and needs `LastOneCloses`: the room whose absent owner is
pruned has really closed. A release disconnects a set of users one after the
other, in an order that the model leaves open: `DisconnectAllKeeps` argues by a
smallest counterexample over the subsets of that set, and `FoldIs` that the
recursive function behind the fold exists, since induction schemes are out of
reach. The end of the World actor returns to tables that satisfy the invariant
(`BlankIsSafe`), so every error path is covered by one lemma.

The proofs rest only on the named assumptions of the modules (finite sets, widths
of at least one, reserved values apart from real ones, a retention of at least
three), which TLC evaluates in the
runs. The inductive invariants were also checked with TLC, on the instances of
the runs, before they were proved.

**Only model-checked:** every liveness property (`ShutdownTerminates`, `WaitEnds`,
`MigrationsEnd`, `RaceMovesOn`, `SettlementResolves`: fairness and `ENABLED` are
out of the prover's reach); the type invariants of `RewardSettlement` (its retry delays are
powers of two, which the solver does not know) and `UdpEndpoints` (the proofs use
a version of it without upper bounds). The type invariants that are not properties
of a run are stated beside the modules and were checked with TLC on the same
instances; the runs spend their properties on what can go wrong.

## 7. What is not modelled

* The messenger hub: an actor of its own behind the same flush of identities as
  the UDP sidecar, with its sessions and chat rooms. A failure there stops the
  World too; its tables would be a module of their own.
* Race objects, boosters and item rolls: tables of one race, changed by one actor
  in one turn and dropped with the race; pure transitions with unit tests.
* The profile runtime. The models take from it that a job runs once and ends in
  one of its classified results, also when its caller is gone.
* The store's legacy `Launcher.json`, its unconditional `save`, the store id and
  the lease file of the race runs (`RewardSettlement` takes from the latter that a
  restart begins a newer run), the temporary files of dead processes and the entry
  limit of a directory.
* An equipment write that is registered after the end of its session: it can close
  nothing. Invariant errors that end the World (`UnknownTicket`,
  `CompletionSubjectMismatch` and their like) end the model's story too.
* `MyRoomHub` reads the owner's profile in the turn of `EnterDirect`, where the code
  has loaded it just before. The error of a completed report whose generation the
  hub has under another number is left out: in no state of the `myroom` instance
  does such a report meet it, because a pending report keeps its user's generation.
* Packet codecs, catalogues and the client oracle: data and test tooling without
  protocol state of the server.
* Assets, RHO5, CLI, GUI, connector and the native sidecar: file, process and UI
  work outside of the server's state.
* The older `rooms` table of the World (`create_room`, `join_room`,
  `leave_room`) is served beside `protocol_rooms`, but no session sends its
  commands, only tests do; its ids only make the allocator skip.

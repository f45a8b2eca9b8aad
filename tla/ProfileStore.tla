----------------------------- MODULE ProfileStore -----------------------------
(***************************************************************************)
(* One rider's directory in the profile store (p4475-profile/src/store.rs).*)
(* A profile is a sequence of immutable files Launcher.v<revision>.json;   *)
(* its value is the newest one that parses.  A transaction reads that      *)
(* value, lets its closure decide, and publishes the next revision with a  *)
(* hard link from a synced temporary file: create-if-absent is the whole   *)
(* compare-and-swap.  Store instances (the server's and the ones the GUI   *)
(* opens on the same root) share only the directory; the profile lock of   *)
(* one instance lets it run one transaction at a time, so an instance is   *)
(* one writer here.  Old revisions are removed before a publication, which *)
(* frees their names: the temporary files of writers that were overtaken   *)
(* are removed by every listing so that nobody can take a freed name.      *)
(*                                                                         *)
(* The value of a profile is the set of the changes it carries.  A change  *)
(* is idempotent: a closure that finds it applied answers Unchanged, which *)
(* is how an uncertain commit is retried.                                  *)
(*                                                                         *)
(* The directory has two images: files, what processes see, and disk, what *)
(* the last directory sync made durable.  A machine crash keeps an         *)
(* arbitrary choice of the entries on which they differ.  File contents    *)
(* are synced before their name exists, so a name never shows a torn file; *)
(* a file may still decay on the medium (Decay), which readers survive by  *)
(* falling back to an older revision.                                      *)
(***************************************************************************)
EXTENDS Integers, FiniteSets, FiniteSetsExt, Functions

CONSTANTS
    Writers,   \* store instances open on the same root
    Changes,   \* the changes transactions apply
    Load,      \* the task of load_or_create: no change, create when absent
    RETENTION, \* PROFILE_REVISION_RETENTION
    ATTEMPTS,  \* MAX_TRANSACTION_CAS_ATTEMPTS, MAX_CREATE_CAS_ATTEMPTS
    Faults     \* bound: how many files decay and how often the machine crashes

ASSUME StoreConstants ==
    /\ Load \notin Changes
    /\ RETENTION \in Nat /\ RETENTION >= 3 \* 64; with less the head may be compacted away
    /\ ATTEMPTS \in Nat \ {0}
    /\ Faults \in Nat

VARIABLES
    files,   \* revision -> content, the directory as processes see it
    disk,    \* the directory as of the last directory sync
    txn,     \* writer -> the transaction it is in
    promised, \* history: every change some durable answer returned
    named,   \* history: the newest durable receipt, its revision and value
    decayed, \* history: how many files have decayed
    crashed  \* history: how many times the machine has crashed

vars == <<files, disk, txn, promised, named, decayed, crashed>>

Values == SUBSET Changes

\* The content of a file that does not parse: no set of changes.
Torn == {Load}
Tasks == Changes \cup {Load}

(***************************************************************************)
(* head is the newest revision a writer has listed (0: none), source the   *)
(* revision its value was read from, temp whether its temporary file for   *)
(* revision head + 1 exists, exact the revision confirm_exact insists on   *)
(* (0: a plain transaction).                                               *)
(***************************************************************************)
Idle == [pc |-> "idle", task |-> Load, tries |-> 0, listed |-> {}, head |-> 0,
         source |-> 0, value |-> {}, temp |-> FALSE, old |-> {}, exact |-> 0]

Head(revisions) == IF revisions = {} THEN 0 ELSE Max(revisions)
Valid(dir) == {r \in DOMAIN dir : dir[r] # Torn}

\* What a reader of the directory makes of it.
Visible(dir) == IF Valid(dir) = {} THEN {} ELSE dir[Max(Valid(dir))]

Receipt(revision, value) == [revision |-> revision, value |-> value]

Init ==
    /\ files = <<>>
    /\ disk = <<>>
    /\ txn = [w \in Writers |-> Idle]
    /\ promised = {}
    /\ named = Receipt(0, {})
    /\ decayed = 0
    /\ crashed = 0

TypeOK ==
    /\ DOMAIN files \subseteq Nat \ {0} /\ Range(files) \subseteq Values \cup {Torn}
    /\ DOMAIN disk \subseteq Nat \ {0} /\ Range(disk) \subseteq Values \cup {Torn}
    /\ txn \in [Writers -> [pc : {"idle", "list", "read", "stage", "check", "compact",
                                  "settle", "link", "sync", "confirm"},
                            task : Tasks, tries : 0 .. ATTEMPTS, listed : SUBSET Nat,
                            head : Nat, source : Nat, value : Values,
                            temp : BOOLEAN, old : SUBSET Nat, exact : Nat]]
    /\ promised \in Values /\ named \in [revision : Nat, value : Values]
    /\ decayed \in Nat /\ crashed \in Nat /\ decayed + crashed <= Faults

-----------------------------------------------------------------------------
(***************************************************************************)
(* Leaving an attempt.  Every way out removes the temporary file, if a     *)
(* listing of another writer has not done so before.                       *)
(***************************************************************************)
Leave(w) == txn' = [txn EXCEPT ![w] = Idle]

\* Lost the race for the revision: start over, until the attempts are used up.
Again(t, w) ==
    IF t[w].tries + 1 = ATTEMPTS THEN Idle
    ELSE [Idle EXCEPT !.pc = "list", !.task = t[w].task, !.tries = t[w].tries + 1]

\* A durable answer reaches the caller.
Tell(revision, value) ==
    /\ promised' = promised \cup value
    /\ named' = IF revision >= named.revision THEN Receipt(revision, value) ELSE named

-----------------------------------------------------------------------------
(***************************************************************************)
(* The steps of a transaction: between any two of them other writers run,  *)
(* the process may die or the machine may crash.                           *)
(***************************************************************************)

Begin(w, task) ==
    /\ txn[w].pc = "idle"
    /\ txn' = [txn EXCEPT ![w].pc = "list", ![w].task = task]
    /\ UNCHANGED <<files, disk, promised, named, decayed, crashed>>

\* Variant: the listing leaves other writers' temporary files alone.
Unswept == txn

\* cleanup_published_temporary_files: a temporary file whose destination
\* exists is removed, whoever wrote it.
Swept ==
    [v \in Writers |->
        [txn[v] EXCEPT !.temp = @ /\ txn[v].head + 1 \notin DOMAIN files]]

\* A removal is made durable by a directory sync, whose failure fails the
\* transaction with the removals done.
List(w) ==
    /\ txn[w].pc = "list"
    /\ \/ /\ txn' = [Swept EXCEPT ![w].pc = "read", ![w].listed = DOMAIN files,
                                  ![w].head = Head(DOMAIN files)]
          /\ disk' = IF Swept # txn THEN files ELSE disk
       \/ /\ Swept # txn
          /\ txn' = [Swept EXCEPT ![w] = Idle]
          /\ UNCHANGED disk
    /\ UNCHANGED <<files, promised, named, decayed, crashed>>

(***************************************************************************)
(* load_or_default_from_disk after its listing: the newest listed file     *)
(* that parses.  A listed file that another writer has compacted away      *)
(* meanwhile fails the transaction, and so does a directory of torn files  *)
(* only.  The closure then decides: a change that is there already and the *)
(* confirmation of an exact revision only sync; so does a load that found  *)
(* a revision.                                                             *)
(***************************************************************************)
Read(w) ==
    LET t == txn[w]
        source == Head({r \in t.listed : r \notin DOMAIN files \/ files[r] # Torn})
        found == source \in DOMAIN files
        value == IF found THEN files[source] ELSE {}
        settled == IF t.task = Load THEN found ELSE t.task \in value
    IN /\ t.pc = "read"
       /\ \/ /\ found \/ t.listed = {}
             /\ txn' = [txn EXCEPT ![w] =
                   IF t.exact # 0 \/ settled
                   THEN [Idle EXCEPT !.pc = "confirm", !.task = t.task, !.source = source,
                                     !.value = value, !.exact = t.exact]
                   ELSE [t EXCEPT !.pc = "stage", !.listed = {}, !.source = source,
                                  !.value = value]]
          \/ /\ ~found /\ t.listed # {}
             /\ Leave(w)
       /\ UNCHANGED <<files, disk, promised, named, decayed, crashed>>

\* write_unique_temporary: the new content, synced, under a private name.
Stage(w) ==
    /\ txn[w].pc = "stage"
    /\ txn' = [txn EXCEPT ![w].pc = "check", ![w].temp = TRUE,
                          ![w].value = @ \cup ({txn[w].task} \ {Load})]
    /\ UNCHANGED <<files, disk, promised, named, decayed, crashed>>

(***************************************************************************)
(* precompact_profile_revisions: of the listed revisions the newest        *)
(* RETENTION - 1 stay, and the source the value was read from: when a torn *)
(* tail has pushed it beyond those, it takes one of their places.          *)
(***************************************************************************)
Newer(r, revisions) == Cardinality({q \in revisions : q > r})

\* Variant: the revision the value was read from is not protected.
ExcessUnprotected(revisions, source) ==
    {r \in revisions : Newer(r, revisions) >= RETENTION - 1}

Excess(revisions, source) ==
    LET slots == RETENTION - 1
        newest == IF source \in revisions /\ Newer(source, revisions) >= slots /\ slots > 0
                  THEN slots - 1 ELSE slots
    IN {r \in revisions : Newer(r, revisions) >= newest /\ r # source}

\* The head is compared once more, under a second listing.
Check(w) ==
    LET head == Head(DOMAIN files)
        old == Excess(DOMAIN files, txn[w].source)
    IN /\ txn[w].pc = "check"
       /\ \/ /\ txn' = [Swept EXCEPT ![w] =
                   IF head # @.head THEN Again(txn, w)
                   ELSE [@ EXCEPT !.pc = IF old = {} THEN "link" ELSE "compact",
                                  !.old = old]]
             /\ disk' = IF Swept # txn THEN files ELSE disk
          \/ /\ Swept # txn
             /\ txn' = [Swept EXCEPT ![w] = Idle]
             /\ UNCHANGED disk
       /\ UNCHANGED <<files, promised, named, decayed, crashed>>

\* A removal may fail, with the ones before it done.
Compact(w) ==
    /\ txn[w].pc = "compact"
    /\ \E gone \in SUBSET txn[w].old :
          /\ files' = Restrict(files, DOMAIN files \ gone)
          /\ txn' = [txn EXCEPT ![w] = IF gone = @.old
                                       THEN [@ EXCEPT !.pc = "settle", !.old = {}]
                                       ELSE Idle]
    /\ UNCHANGED <<disk, promised, named, decayed, crashed>>

\* The removals are durable before the next revision is published.
Settle(w) ==
    /\ txn[w].pc = "settle"
    /\ \/ /\ disk' = files
          /\ txn' = [txn EXCEPT ![w].pc = "link"]
       \/ /\ Leave(w)
          /\ UNCHANGED disk
    /\ UNCHANGED <<files, promised, named, decayed, crashed>>

\* Variant: the link replaces a revision that is there.
LinkReplaces(w) ==
    LET t == txn[w]
    IN /\ t.pc = "link" /\ t.temp
       /\ files' = [r \in DOMAIN files \cup {t.head + 1} |->
                       IF r = t.head + 1 THEN t.value ELSE files[r]]
       /\ txn' = [txn EXCEPT ![w].pc = "sync", ![w].temp = FALSE]
       /\ UNCHANGED <<disk, promised, named, decayed, crashed>>

(***************************************************************************)
(* publish_new_file: the hard link.  An existing destination is a lost     *)
(* race; a missing temporary file whose destination is gone again is an    *)
(* error.                                                                  *)
(***************************************************************************)
Link(w) ==
    LET t == txn[w]
        revision == t.head + 1
    IN /\ t.pc = "link"
       /\ \/ /\ t.temp /\ revision \notin DOMAIN files
             /\ files' = [r \in DOMAIN files \cup {revision} |->
                             IF r = revision THEN t.value ELSE files[r]]
             /\ txn' = [txn EXCEPT ![w] = [Idle EXCEPT !.pc = "sync", !.task = t.task,
                                              !.head = t.head, !.value = t.value]]
          \/ /\ revision \in DOMAIN files
             /\ txn' = [txn EXCEPT ![w] = Again(txn, w)]
             /\ UNCHANGED files
          \/ /\ ~t.temp /\ revision \notin DOMAIN files
             /\ Leave(w)
             /\ UNCHANGED files
       /\ UNCHANGED <<disk, promised, named, decayed, crashed>>

\* The caller of an uncertain commit reports it, or asks for the confirmation
\* of exactly that revision (profile_durability.rs).
Uncertain(w, revision) ==
    \/ Leave(w)
    \/ /\ txn[w].task # Load
       /\ txn[w].exact = 0
       /\ txn' = [txn EXCEPT ![w] = [Idle EXCEPT !.pc = "list", !.task = txn[w].task,
                                                 !.exact = revision]]

\* sync_published_directory after the link: a durable receipt, or a commit
\* whose durability is uncertain.
Sync(w) ==
    LET revision == txn[w].head + 1
    IN /\ txn[w].pc = "sync"
       /\ \/ /\ disk' = files
             /\ Tell(revision, txn[w].value)
             /\ Leave(w)
          \/ /\ Uncertain(w, revision)
             /\ UNCHANGED <<disk, promised, named>>
       /\ UNCHANGED <<files, decayed, crashed>>

(***************************************************************************)
(* confirm_snapshot_durability: a value that was read is returned only     *)
(* after a directory sync.  confirm_exact also refuses another revision    *)
(* than the one it asked for.                                              *)
(***************************************************************************)
Confirm(w) ==
    LET t == txn[w]
    IN /\ t.pc = "confirm"
       /\ \/ /\ disk' = files
             /\ IF t.exact \in {0, t.source} THEN Tell(t.source, t.value)
                ELSE UNCHANGED <<promised, named>>
             /\ Leave(w)
          \/ /\ Uncertain(w, t.source)
             /\ UNCHANGED <<disk, promised, named>>
       /\ UNCHANGED <<files, decayed, crashed>>

-----------------------------------------------------------------------------
(***************************************************************************)
(* Faults.                                                                 *)
(***************************************************************************)

\* The process of a store instance ends.  Its temporary file stays behind;
\* nobody publishes it.
Die(w) ==
    /\ txn[w].pc # "idle"
    /\ Leave(w)
    /\ UNCHANGED <<files, disk, promised, named, decayed, crashed>>

(***************************************************************************)
(* The machine stops: of the entries made or removed since the last sync   *)
(* any choice survives.  Assumed: one of the revisions a compaction keeps  *)
(* is intact on disk; that fails only when all 63 of them (RETENTION = 64) *)
(* have decayed or were published in a row without one sync going through. *)
(* Without it the removals could outlive everything they made room for.    *)
(***************************************************************************)
Crash ==
    /\ decayed + crashed < Faults
    /\ Cardinality(DOMAIN files \ DOMAIN disk) + decayed < RETENTION - 1
    /\ \E kept \in SUBSET (DOMAIN files \cup DOMAIN disk) :
          /\ DOMAIN files \cap DOMAIN disk \subseteq kept
          /\ files' = [r \in kept |-> IF r \in DOMAIN files THEN files[r] ELSE disk[r]]
          /\ disk' = files'
    /\ txn' = [w \in Writers |-> Idle]
    /\ crashed' = crashed + 1
    /\ UNCHANGED <<promised, named, decayed>>

\* A file at rest stops to parse.  What only it carried is lost with it.
Decay(r) ==
    /\ decayed + crashed < Faults
    /\ disk = files /\ \A w \in Writers : txn[w].pc = "idle"
    /\ files[r] # Torn
    /\ files' = [files EXCEPT ![r] = Torn]
    /\ disk' = files'
    /\ promised' = promised \cap Visible(files')
    /\ UNCHANGED named
    /\ decayed' = decayed + 1
    /\ UNCHANGED <<txn, crashed>>

Step(w) ==
    \/ List(w) \/ Read(w) \/ Stage(w) \/ Check(w) \/ Compact(w)
    \/ Settle(w) \/ Link(w) \/ Sync(w) \/ Confirm(w)

Next ==
    \/ \E w \in Writers : Step(w) \/ Die(w) \/ \E task \in Tasks : Begin(w, task)
    \/ Crash
    \/ \E r \in DOMAIN files : Decay(r)

Spec == Init /\ [][Next]_vars

-----------------------------------------------------------------------------
(***************************************************************************)
(* Correctness.                                                            *)
(***************************************************************************)

\* What a durable answer promised is in the profile from then on, whatever
\* other writers do and wherever the machine stops: no update is lost to a
\* concurrent transaction or to a freed revision name, and no value that was
\* read disappears in a crash.
PromisesSurvive == promised \subseteq Visible(files)

\* The revision number of a durable receipt denotes its value for ever: it is
\* not used again after a compaction or a crash.  The World orders
\* presentations by these numbers and confirm_exact compares them.
ReceiptsAreExact ==
    /\ named.revision <= Head(DOMAIN files)
    /\ named.revision \in DOMAIN files => files[named.revision] \in {named.value, Torn}

\* No step of the store makes the value readers see go back, not even a
\* compaction next to a torn tail; only a crash or a decaying file does.
VisibleGrows ==
    [][Crash \/ decayed' # decayed \/ Visible(files) \subseteq Visible(files')]_vars
=============================================================================

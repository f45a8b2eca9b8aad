-------------------------- MODULE ProfileStoreProofs --------------------------
(***************************************************************************)
(* Proofs about ProfileStore for any number of writers, changes, attempts  *)
(* and faults, and every retention of at least three revisions.            *)
(***************************************************************************)
EXTENDS ProfileStore, FiniteSetTheorems, WellFoundedInduction, TLAPS

-----------------------------------------------------------------------------
(* Numbers and finite sets of them.                                        *)
LEMMA Retention ==
    /\ RETENTION \in Nat /\ RETENTION >= 3 /\ ATTEMPTS \in Nat \ {0} /\ Faults \in Nat
    /\ Load \notin Changes /\ Torn \notin Values /\ {} \in Values
BY StoreConstants DEF StoreConstants, Torn, Values

LEMMA NewerCounts ==
    ASSUME NEW S, IsFiniteSet(S), NEW r
    PROVE  /\ IsFiniteSet({q \in S : q > r}) /\ Newer(r, S) \in Nat
           /\ Newer(r, S) = Cardinality({q \in S : q > r})
<1>1. {q \in S : q > r} \in SUBSET S
  OBVIOUS
<1>2. IsFiniteSet({q \in S : q > r})
  BY <1>1, FS_Subset
<1> QED
  BY <1>2, FS_CardinalityType DEF Newer

LEMMA NewerGrows ==
    ASSUME NEW S, IsFiniteSet(S), NEW T, IsFiniteSet(T), NEW r, NEW p,
           {q \in S : q > r} \subseteq {q \in T : q > p}
    PROVE  Newer(r, S) <= Newer(p, T)
<1>1. IsFiniteSet({q \in T : q > p})
  BY NewerCounts
<1> QED
  BY <1>1, FS_Subset DEF Newer

(* A finite set of numbers has a largest one: with the fewest above it.    *)
LEMMA MaxBelongs ==
    ASSUME NEW S, S \subseteq Nat, IsFiniteSet(S), S # {}
    PROVE  Max(S) \in S /\ \A y \in S : y <= Max(S)
<1> DEFINE N == {Newer(x, S) : x \in S}
<1>1. N \subseteq Nat /\ N # {}
  BY NewerCounts
<1>2. PICK n \in N : \A k \in N : ~(<<k, n>> \in OpToRel(<, Nat))
  BY <1>1, NatLessThanWellFounded, WFMin
<1>3. PICK x \in S : n = Newer(x, S)
  BY <1>2
<1>4. ASSUME NEW y \in S, y > x PROVE FALSE
  <2> DEFINE X == {q \in S : q > x}
             Y == {q \in S : q > y}
  <2>1. Y \in SUBSET X /\ y \in X /\ y \notin Y
    <3>1. x \in Nat /\ y \in Nat /\ \A q \in S : q \in Nat
      OBVIOUS
    <3>2. ~(y > y) /\ \A q \in S : q > y => q > x
      BY <1>4, <3>1
    <3> QED
      BY <1>4, <3>2
  <2>2. IsFiniteSet(X) /\ IsFiniteSet(Y) /\ Newer(x, S) = Cardinality(X) /\ Newer(y, S) = Cardinality(Y)
    BY NewerCounts
  <2>3. Cardinality(Y) <= Cardinality(X) /\ Cardinality(X) # Cardinality(Y)
    BY <2>1, <2>2, FS_Subset
  <2>4. Newer(x, S) \in Nat /\ Newer(y, S) \in Nat
    BY NewerCounts
  <2> HIDE DEF X, Y
  <2>5. Newer(y, S) < Newer(x, S)
    BY <2>2, <2>3, <2>4
  <2>6. <<Newer(y, S), n>> \notin {ss \in Nat \X Nat : ss[1] < ss[2]}
    BY <1>2, Zenon DEF OpToRel
  <2> QED
    BY <1>3, <2>4, <2>5, <2>6
<1>5. \A y \in S : x >= y
  BY <1>4
<1>6. \E z \in S : \A y \in S : z >= y
  BY <1>5
<1>7. Max(S) \in S /\ \A y \in S : Max(S) >= y
  BY <1>6 DEF Max
<1> QED
  BY <1>7

LEMMA HeadIs ==
    ASSUME NEW S, S \subseteq Nat \ {0}, IsFiniteSet(S)
    PROVE  /\ Head(S) \in Nat /\ Head(S) \in S \cup {0}
           /\ S = {} <=> Head(S) = 0
           /\ \A y \in S : y <= Head(S)
<1>1. S # {} => Max(S) \in S /\ \A y \in S : y <= Max(S)
  BY MaxBelongs
<1> QED
  BY <1>1 DEF Head

LEMMA HeadUnique ==
    ASSUME NEW S, S \subseteq Nat \ {0}, IsFiniteSet(S), NEW h \in S, \A y \in S : y <= h
    PROVE  Head(S) = h
<1>1. Head(S) \in Nat /\ Head(S) \in S \cup {0} /\ h <= Head(S) /\ h \in Nat \ {0}
  BY HeadIs
<1>2. Head(S) \in S
  BY <1>1
<1>3. Head(S) <= h
  BY <1>2
<1> QED
  BY <1>1, <1>3

-----------------------------------------------------------------------------
(* The invariant.                                                          *)

Latest(dir) == Head(Valid(dir))

DirOK(dir) == /\ DOMAIN dir \subseteq Nat \ {0} /\ IsFiniteSet(DOMAIN dir)
              /\ \A r \in DOMAIN dir : dir[r] \in Values \cup {Torn}

(* What a crash may leave of each revision.                                *)
All == DOMAIN files \cup DOMAIN disk
Both(r) == IF r \in DOMAIN files THEN files[r] ELSE disk[r]

(* The two images show one history, of which files has the newer part.     *)
Images == /\ DirOK(files) /\ DirOK(disk)
          /\ \A r \in DOMAIN files \cap DOMAIN disk : files[r] = disk[r]
          /\ Head(DOMAIN disk) <= Head(DOMAIN files)
          /\ Latest(disk) <= Latest(files)

(* Later revisions carry what earlier ones carried.                        *)
Chain == \A r, q \in All : r <= q /\ Both(r) # Torn /\ Both(q) # Torn => Both(r) \subseteq Both(q)

TornFew == /\ decayed \in Nat /\ IsFiniteSet({r \in All : Both(r) = Torn})
           /\ Cardinality({r \in All : Both(r) = Torn}) <= decayed

(* The newest revisions on disk are removed only behind enough newer ones. *)
Backed ==
    /\ \/ Latest(disk) \in DOMAIN files \cup {0}
       \/ Newer(Latest(disk), DOMAIN files) >= RETENTION - 1
    /\ \/ Head(DOMAIN disk) \in DOMAIN files \cup {0}
       \/ Newer(Head(DOMAIN disk), DOMAIN files) >= RETENTION - 2

(* What durable answers told is on disk.                                   *)
Told ==
    /\ promised \subseteq Visible(disk)
    /\ named.revision \in Nat /\ named.revision <= Head(DOMAIN disk)
    /\ named.revision \in All => Both(named.revision) \in {named.value, Torn}

Directory == Images /\ Chain /\ TornFew /\ Backed /\ Told

(* A revision that a compaction may remove.                                *)
Spare(q, dir) == \/ Newer(q, DOMAIN dir) >= RETENTION - 1
                 \/ Newer(q, DOMAIN dir) >= RETENTION - 2 /\ q > Latest(dir)

(* What a transaction knows of the directory.                              *)
Decided == {"stage", "check", "compact", "settle", "link"}
Past == {"compact", "settle", "link"}

(* Its head is not ahead, and what is ahead of it is a newer value.        *)
Behind(t, dir) == t.pc \in Decided \cup {"read"} =>
    /\ t.head <= Head(DOMAIN dir)
    /\ t.head < Head(DOMAIN dir) => t.head < Latest(dir)
Lists(t, dir) == t.pc = "read" =>
    /\ t.listed \subseteq Nat \ {0} /\ IsFiniteSet(t.listed) /\ t.head = Head(t.listed)
    /\ \A r \in DOMAIN dir : r <= t.head => r \in t.listed
Reads(t, dir) == t.pc \in Decided /\ t.head = Head(DOMAIN dir) =>
    t.source = Latest(dir) /\ Visible(dir) \subseteq t.value
(* A temporary file is for the next revision, or that one is there.        *)
Wins(t, dir) == t.pc \in Past /\ t.temp /\ t.head + 1 \notin DOMAIN dir => t.head = Head(DOMAIN dir)
Removes(t, dir) == t.pc = "compact" =>
    \A q \in t.old : q < t.head /\ q # Latest(dir) /\ Spare(q, dir)
Published(t, dir) == t.pc = "sync" =>
    /\ t.head + 1 <= Head(DOMAIN dir)
    /\ t.head + 1 \in DOMAIN dir => dir[t.head + 1] = t.value
    /\ t.value \subseteq Visible(dir)
Confirms(t, dir) == t.pc = "confirm" =>
    /\ t.source <= Head(DOMAIN dir)
    /\ t.source \in DOMAIN dir => dir[t.source] = t.value
    /\ t.value \subseteq Visible(dir)

Known(t, dir) == /\ Behind(t, dir) /\ Lists(t, dir) /\ Reads(t, dir) /\ Wins(t, dir)
                 /\ Removes(t, dir) /\ Published(t, dir) /\ Confirms(t, dir)

(* No compaction frees the name that a live temporary file is for.         *)
Fence(t, u) == t.pc = "compact" /\ u.pc \in Past /\ u.temp => u.head + 1 \notin t.old

Txn == [pc : {"idle", "list", "read", "stage", "check", "compact", "settle", "link", "sync",
              "confirm"},
        task : Tasks, tries : 0 .. (ATTEMPTS - 1), listed : SUBSET Nat, head : Nat,
        source : Nat, value : Values, temp : BOOLEAN, old : SUBSET Nat, exact : Nat]

Transactions(s, dir) == /\ s \in [Writers -> Txn]
                        /\ \A w \in Writers : Known(s[w], dir)
                        /\ \A v, w \in Writers : Fence(s[v], s[w])

History == /\ promised \in Values /\ named \in [revision : Nat, value : Values]
           /\ decayed \in Nat /\ crashed \in Nat /\ decayed + crashed <= Faults

StoreInv == Directory /\ Transactions(txn, files) /\ History

-----------------------------------------------------------------------------
(* Compaction: whatever had enough newer revisions still has.              *)
LEMMA RemovalSpares ==
    ASSUME NEW D, D \subseteq Nat, IsFiniteSet(D), NEW L \in D \cup {0}, NEW gone, L \notin gone,
           \A g \in gone : \/ Newer(g, D) >= RETENTION - 1
                           \/ Newer(g, D) >= RETENTION - 2 /\ g > L,
           NEW E, E = D \ gone, NEW q \in Nat
    PROVE  /\ IsFiniteSet(E)
           /\ Newer(q, D) >= RETENTION - 2 => Newer(q, E) >= RETENTION - 2
           /\ Newer(q, D) >= RETENTION - 1 /\ q < L => Newer(q, E) >= RETENTION - 1
<1> DEFINE G == {g \in D : g \in gone /\ g > q}
<1>1. IsFiniteSet(E) /\ IsFiniteSet(G) /\ RETENTION \in Nat
  <2>1. E \in SUBSET D /\ G \in SUBSET D
    OBVIOUS
  <2> QED
    BY <2>1, FS_Subset, Retention
<1>2. Newer(q, D) \in Nat /\ Newer(q, E) \in Nat
  BY <1>1, NewerCounts
<1>3. CASE G = {}
  <2>1. {x \in D : x > q} \subseteq {x \in E : x > q}
    BY <1>3
  <2>2. Newer(q, D) <= Newer(q, E)
    BY <1>1, <2>1, NewerGrows
  <2> QED
    BY <1>1, <1>2, <2>2
<1>4. CASE G # {}
  <2>1. PICK p \in G : \A g \in G : g <= p
    <3>1. G \subseteq Nat
      OBVIOUS
    <3>2. Max(G) \in G /\ \A g \in G : g <= Max(G)
      BY <1>1, <1>4, <3>1, MaxBelongs
    <3> QED
      BY <3>2
  <2>2. p \in Nat /\ p > q /\ p \in gone /\ Newer(p, D) \in Nat
    BY <2>1, NewerCounts
  <2>3. \A x \in D : x > p => x \in E /\ x > q
    <3> SUFFICES ASSUME NEW x \in D, x > p PROVE x \notin gone /\ x > q
      OBVIOUS
    <3>1. x > q /\ ~(x <= p)
      BY <2>2
    <3> QED
      BY <2>1, <3>1
  <2>4. Newer(p, D) <= Newer(q, E)
    BY <1>1, <2>3, NewerGrows
  <2>5. CASE Newer(p, D) >= RETENTION - 1
    BY <1>1, <1>2, <2>2, <2>4, <2>5
  <2>6. CASE Newer(p, D) >= RETENTION - 2 /\ p > L
    <3>1. ASSUME q < L PROVE Newer(q, E) >= RETENTION - 1
      <4> DEFINE P == {x \in D : x > p}
                 Q == {x \in E : x > q}
      <4>1. L \in Nat /\ L \in D /\ L \in E /\ L > q /\ ~(L > p)
        BY <2>2, <2>6, <3>1
      <4>2. P \cup {L} \in SUBSET Q /\ L \notin P
        BY <2>3, <4>1
      <4>3. IsFiniteSet(P) /\ IsFiniteSet(Q) /\ Newer(p, D) = Cardinality(P) /\ Newer(q, E) = Cardinality(Q)
        BY <1>1, NewerCounts
      <4> HIDE DEF P, Q
      <4>4. Cardinality(P \cup {L}) = Cardinality(P) + 1
        BY <4>2, <4>3, FS_AddElement
      <4>5. Cardinality(P \cup {L}) <= Cardinality(Q)
        BY <4>2, <4>3, FS_Subset
      <4> QED
        BY <1>1, <1>2, <2>2, <2>6, <4>3, <4>4, <4>5
    <3>2. Newer(q, E) >= RETENTION - 2
      BY <1>1, <1>2, <2>2, <2>4, <2>6
    <3> QED
      BY <1>1, <3>1, <3>2
  <2> QED
    BY <2>2, <2>5, <2>6
<1> QED
  BY <1>3, <1>4

LEMMA DirFacts ==
    ASSUME NEW dir, DirOK(dir)
    PROVE  /\ Head(DOMAIN dir) \in Nat /\ Head(DOMAIN dir) \in DOMAIN dir \cup {0}
           /\ \A r \in DOMAIN dir : r \in Nat \ {0} /\ r <= Head(DOMAIN dir)
           /\ Latest(dir) \in Nat /\ Latest(dir) \in Valid(dir) \cup {0}
           /\ \A r \in Valid(dir) : r <= Latest(dir)
           /\ Latest(dir) <= Head(DOMAIN dir)
           /\ Visible(dir) = IF Latest(dir) = 0 THEN {} ELSE dir[Latest(dir)]
           /\ Visible(dir) \in Values
<1>1. DOMAIN dir \subseteq Nat \ {0} /\ IsFiniteSet(DOMAIN dir)
  BY DEF DirOK
<1>2. Valid(dir) \in SUBSET DOMAIN dir
  BY DEF Valid
<1>3. Valid(dir) \subseteq Nat \ {0} /\ IsFiniteSet(Valid(dir))
  BY <1>1, <1>2, FS_Subset
<1>4. /\ Head(DOMAIN dir) \in Nat /\ Head(DOMAIN dir) \in DOMAIN dir \cup {0}
      /\ \A r \in DOMAIN dir : r <= Head(DOMAIN dir)
  BY <1>1, HeadIs
<1>5. /\ Latest(dir) \in Nat /\ Latest(dir) \in Valid(dir) \cup {0}
      /\ Valid(dir) = {} <=> Latest(dir) = 0
      /\ \A r \in Valid(dir) : r <= Latest(dir)
  BY <1>3, HeadIs DEF Latest
<1>6. Latest(dir) <= Head(DOMAIN dir)
  BY <1>2, <1>4, <1>5
<1>7. Valid(dir) # {} => Latest(dir) = Max(Valid(dir))
  BY DEF Latest, Head
<1>8. Visible(dir) = IF Latest(dir) = 0 THEN {} ELSE dir[Latest(dir)]
  BY <1>5, <1>7 DEF Visible
<1>9. Latest(dir) # 0 => dir[Latest(dir)] \in Values
  BY <1>5 DEF Valid, DirOK
<1> QED
  BY <1>1, <1>4, <1>5, <1>6, <1>8, <1>9, Retention

(* What is visible on disk is visible.                                     *)
LEMMA VisibleOnDisk ==
    ASSUME Images, Chain
    PROVE  Visible(disk) \subseteq Visible(files)
<1>1. DirOK(files) /\ DirOK(disk)
  BY DEF Images
<1>2. /\ Visible(disk) = IF Latest(disk) = 0 THEN {} ELSE disk[Latest(disk)]
      /\ Latest(disk) \in Nat /\ Latest(disk) \in Valid(disk) \cup {0}
  BY <1>1, DirFacts
<1>3. /\ Visible(files) = IF Latest(files) = 0 THEN {} ELSE files[Latest(files)]
      /\ Latest(files) \in Nat /\ Latest(files) \in Valid(files) \cup {0}
  BY <1>1, DirFacts
<1>4. CASE Latest(disk) # 0
  <2>1. Latest(disk) \in DOMAIN disk /\ disk[Latest(disk)] # Torn
    BY <1>2, <1>4 DEF Valid
  <2>2. Latest(disk) <= Latest(files) /\ Latest(files) # 0
    BY <1>2, <1>3, <1>4 DEF Images
  <2>3. Latest(files) \in DOMAIN files /\ files[Latest(files)] # Torn
    BY <1>3, <2>2 DEF Valid
  <2>4. /\ Both(Latest(disk)) = disk[Latest(disk)] /\ Both(Latest(files)) = files[Latest(files)]
        /\ Latest(disk) \in All /\ Latest(files) \in All
    BY <2>1, <2>3 DEF Images, Both, All
  <2>5. disk[Latest(disk)] \subseteq files[Latest(files)]
    BY <2>1, <2>2, <2>3, <2>4 DEF Chain
  <2> QED
    BY <1>2, <1>3, <1>4, <2>2, <2>5
<1> QED
  BY <1>2, <1>4

(* The values of a directory, where its newest ones stay.                  *)
LEMMA SameTop ==
    ASSUME NEW D, DirOK(D), NEW E, DirOK(E), DOMAIN E \subseteq DOMAIN D,
           \A r \in DOMAIN E : E[r] = D[r],
           Head(DOMAIN D) \in DOMAIN E \cup {0}, Latest(D) \in DOMAIN E \cup {0}
    PROVE  Head(DOMAIN E) = Head(DOMAIN D) /\ Latest(E) = Latest(D) /\ Visible(E) = Visible(D)
<1>1. /\ Head(DOMAIN D) \in Nat /\ \A r \in DOMAIN D : r \in Nat \ {0} /\ r <= Head(DOMAIN D)
      /\ Latest(D) \in Nat /\ Latest(D) \in Valid(D) \cup {0} /\ \A r \in Valid(D) : r <= Latest(D)
      /\ Visible(D) = IF Latest(D) = 0 THEN {} ELSE D[Latest(D)]
  BY DirFacts
<1>2. /\ Head(DOMAIN E) \in Nat /\ Head(DOMAIN E) \in DOMAIN E \cup {0}
      /\ \A r \in DOMAIN E : r \in Nat \ {0} /\ r <= Head(DOMAIN E)
      /\ Latest(E) \in Nat /\ Latest(E) \in Valid(E) \cup {0} /\ \A r \in Valid(E) : r <= Latest(E)
      /\ Visible(E) = IF Latest(E) = 0 THEN {} ELSE E[Latest(E)]
  BY DirFacts
<1>3. Head(DOMAIN E) = Head(DOMAIN D)
  <2>1. Head(DOMAIN E) <= Head(DOMAIN D)
    BY <1>1, <1>2
  <2>2. Head(DOMAIN D) <= Head(DOMAIN E)
    BY <1>1, <1>2
  <2> QED
    BY <1>1, <1>2, <2>1, <2>2
<1>4. Latest(E) = Latest(D)
  <2>1. Valid(E) \subseteq Valid(D) /\ Latest(D) \in Valid(E) \cup {0}
    BY <1>1 DEF Valid
  <2>2. Latest(E) <= Latest(D) /\ Latest(D) <= Latest(E)
    BY <1>1, <1>2, <2>1
  <2> QED
    BY <1>1, <1>2, <2>2
<1>5. Latest(E) # 0 => E[Latest(E)] = D[Latest(D)]
  BY <1>2, <1>4 DEF Valid
<1> QED
  BY <1>1, <1>2, <1>3, <1>4, <1>5

(* A compaction removes spare revisions.                                   *)
Removed(D, E, gone) ==
    /\ E = Restrict(D, DOMAIN D \ gone)
    /\ Head(DOMAIN D) \notin gone /\ Latest(D) \notin gone
    /\ \A q \in gone : Spare(q, D)

LEMMA RemovedIs ==
    ASSUME NEW D, DirOK(D), NEW E, NEW gone, Removed(D, E, gone)
    PROVE  /\ DirOK(E) /\ DOMAIN E = DOMAIN D \ gone /\ \A r \in DOMAIN E : E[r] = D[r]
           /\ Head(DOMAIN E) = Head(DOMAIN D) /\ Latest(E) = Latest(D) /\ Visible(E) = Visible(D)
           /\ \A q \in Nat : Newer(q, DOMAIN D) >= RETENTION - 2 => Newer(q, DOMAIN E) >= RETENTION - 2
           /\ \A q \in Nat : Newer(q, DOMAIN D) >= RETENTION - 1 /\ q < Latest(D)
                               => Newer(q, DOMAIN E) >= RETENTION - 1
           /\ \A q \in Nat : Spare(q, D) /\ q # Latest(D) => Spare(q, E)
<1>1. DOMAIN E = DOMAIN D \ gone /\ \A r \in DOMAIN E : E[r] = D[r]
  BY DEF Removed, Restrict
<1>2. /\ Head(DOMAIN D) \in Nat /\ Head(DOMAIN D) \in DOMAIN D \cup {0}
      /\ Latest(D) \in Nat /\ Latest(D) \in Valid(D) \cup {0}
  BY DirFacts
<1>3. DOMAIN D \subseteq Nat /\ IsFiniteSet(DOMAIN D) /\ Latest(D) \in DOMAIN D \cup {0}
  BY <1>2 DEF DirOK, Valid
<1>4. DirOK(E)
  <2>1. DOMAIN E \in SUBSET DOMAIN D
    BY <1>1
  <2>2. IsFiniteSet(DOMAIN E)
    BY <1>3, <2>1, FS_Subset
  <2> QED
    BY <1>1, <2>1, <2>2 DEF DirOK
<1>5. Head(DOMAIN D) \in DOMAIN E \cup {0} /\ Latest(D) \in DOMAIN E \cup {0}
  BY <1>1, <1>2, <1>3 DEF Removed
<1>6. Head(DOMAIN E) = Head(DOMAIN D) /\ Latest(E) = Latest(D) /\ Visible(E) = Visible(D)
  BY <1>1, <1>4, <1>5, SameTop
<1>7. ASSUME NEW q \in Nat
      PROVE  /\ Newer(q, DOMAIN D) >= RETENTION - 2 => Newer(q, DOMAIN E) >= RETENTION - 2
             /\ Newer(q, DOMAIN D) >= RETENTION - 1 /\ q < Latest(D)
                  => Newer(q, DOMAIN E) >= RETENTION - 1
  <2>1. /\ Latest(D) \notin gone
        /\ \A g \in gone : \/ Newer(g, DOMAIN D) >= RETENTION - 1
                           \/ Newer(g, DOMAIN D) >= RETENTION - 2 /\ g > Latest(D)
    BY DEF Removed, Spare
  <2> QED
    BY <1>1, <1>3, <2>1, RemovalSpares
<1>8. ASSUME NEW q \in Nat, Spare(q, D), q # Latest(D) PROVE Spare(q, E)
  <2>1. Newer(q, DOMAIN D) \in Nat /\ Newer(q, DOMAIN E) \in Nat /\ RETENTION \in Nat
    BY <1>3, <1>4, NewerCounts, Retention DEF DirOK
  <2>2. Newer(q, DOMAIN D) >= RETENTION - 2
    BY <1>8, <2>1 DEF Spare
  <2>3. q < Latest(D) \/ q > Latest(D)
    BY <1>2, <1>8
  <2>4. q < Latest(D) => Newer(q, DOMAIN D) >= RETENTION - 1
    BY <1>2, <1>8 DEF Spare
  <2> QED
    BY <1>6, <1>7, <2>2, <2>3, <2>4 DEF Spare
<1> QED
  BY <1>1, <1>4, <1>6, <1>7, <1>8

LEMMA RemovalKeeps ==
    ASSUME Directory, NEW gone, Removed(files, files', gone),
           UNCHANGED <<disk, promised, named, decayed>>
    PROVE  Directory'
<1>1. Images /\ Chain /\ TornFew /\ Backed /\ Told /\ DirOK(files) /\ DirOK(disk)
  BY DEF Directory, Images
<1>2. /\ DirOK(files') /\ DOMAIN files' = DOMAIN files \ gone
      /\ \A r \in DOMAIN files' : files'[r] = files[r]
      /\ Head(DOMAIN files') = Head(DOMAIN files) /\ Latest(files') = Latest(files)
      /\ \A q \in Nat : Newer(q, DOMAIN files) >= RETENTION - 2 => Newer(q, DOMAIN files') >= RETENTION - 2
      /\ \A q \in Nat : Newer(q, DOMAIN files) >= RETENTION - 1 /\ q < Latest(files)
                          => Newer(q, DOMAIN files') >= RETENTION - 1
  <2>1. PICK E : E = files'
    OBVIOUS
  <2>2. Removed(files, E, gone)
    BY <2>1
  <2> QED
    BY <1>1, <2>1, <2>2, RemovedIs
<1>3. disk' = disk /\ promised' = promised /\ named' = named /\ decayed' = decayed
  OBVIOUS
<1>4. Images'
  BY <1>1, <1>2, <1>3 DEF Images
<1>5. All' \subseteq All /\ \A r \in All' : Both(r)' = Both(r)
  BY <1>1, <1>2, <1>3 DEF All, Both, Images
<1>6. Chain'
  BY <1>1, <1>5 DEF Chain
<1>7. TornFew'
  <2> DEFINE T == {r \in All : Both(r) = Torn}
             U == {r \in All' : Both(r)' = Torn}
  <2>1. U \in SUBSET T
    BY <1>5
  <2>2. IsFiniteSet(T) /\ Cardinality(T) <= decayed /\ decayed \in Nat
    BY <1>1 DEF TornFew
  <2> HIDE DEF T, U
  <2>3. IsFiniteSet(U) /\ Cardinality(U) <= Cardinality(T) /\ Cardinality(U) \in Nat /\ Cardinality(T) \in Nat
    BY <2>1, <2>2, FS_Subset, FS_CardinalityType
  <2>4. IsFiniteSet(U) /\ Cardinality(U) <= decayed'
    BY <1>3, <2>2, <2>3
  <2> QED
    BY <1>3, <2>2, <2>4 DEF TornFew, U
<1>8. Backed'
  <2>1. /\ Latest(disk) \in Nat /\ Head(DOMAIN disk) \in Nat
        /\ Latest(files) \in Nat /\ Latest(files) \in DOMAIN files \cup {0}
        /\ Latest(disk) <= Latest(files)
    BY <1>1, DirFacts DEF Images, Valid
  <2>2. Latest(disk) \in DOMAIN files' \cup {0} \/ Newer(Latest(disk), DOMAIN files') >= RETENTION - 1
    <3> SUFFICES ASSUME Latest(disk) \notin DOMAIN files' \cup {0}
                 PROVE  Newer(Latest(disk), DOMAIN files') >= RETENTION - 1
      OBVIOUS
    <3>1. CASE Latest(disk) \in gone
      <4>1. Latest(disk) # Latest(files) /\ Spare(Latest(disk), files)
        BY <3>1 DEF Removed
      <4>2. Latest(disk) < Latest(files)
        BY <2>1, <4>1
      <4>3. Newer(Latest(disk), DOMAIN files) >= RETENTION - 1
        BY <2>1, <4>1, <4>2 DEF Spare
      <4> QED
        BY <1>2, <2>1, <4>2, <4>3
    <3>2. CASE Latest(disk) \notin gone
      <4>1. Latest(disk) \notin DOMAIN files \cup {0}
        BY <1>2, <3>2
      <4>2. Latest(disk) < Latest(files)
        BY <2>1, <4>1
      <4> QED
        BY <1>1, <1>2, <2>1, <4>1, <4>2 DEF Backed
    <3> QED
      BY <3>1, <3>2
  <2>3. Head(DOMAIN disk) \in DOMAIN files' \cup {0} \/ Newer(Head(DOMAIN disk), DOMAIN files') >= RETENTION - 2
    <3> SUFFICES ASSUME Head(DOMAIN disk) \notin DOMAIN files' \cup {0}
                 PROVE  Newer(Head(DOMAIN disk), DOMAIN files) >= RETENTION - 2
      BY <1>2, <2>1
    <3>1. CASE Head(DOMAIN disk) \in gone
      <4>1. Spare(Head(DOMAIN disk), files)
        BY <3>1 DEF Removed
      <4>2. Newer(Head(DOMAIN disk), DOMAIN files) \in Nat /\ RETENTION \in Nat
        BY <1>1, NewerCounts, Retention DEF DirOK
      <4> QED
        BY <4>1, <4>2 DEF Spare
    <3>2. CASE Head(DOMAIN disk) \notin gone
      BY <1>1, <1>2, <3>2 DEF Backed
    <3> QED
      BY <3>1, <3>2
  <2> QED
    BY <1>3, <2>2, <2>3 DEF Backed
<1>9. Told'
  <2>1. Visible(disk)' = Visible(disk) /\ Head(DOMAIN disk)' = Head(DOMAIN disk)
    BY <1>3
  <2> QED
    BY <1>1, <1>3, <1>5, <2>1 DEF Told
<1> QED
  BY <1>4, <1>6, <1>7, <1>8, <1>9 DEF Directory

-----------------------------------------------------------------------------
(* Publication: the next revision, with all that was visible.              *)
After(D) == Head(DOMAIN D) + 1
Extended(D, E, v) == E = [r \in DOMAIN D \cup {After(D)} |-> IF r = After(D) THEN v ELSE D[r]]
Grown(D, E, v, n) ==
    /\ DirOK(E) /\ DOMAIN E = DOMAIN D \cup {n} /\ E[n] = v
    /\ n \in Nat \ {0} /\ n \notin DOMAIN D /\ n = Head(DOMAIN D) + 1
    /\ \A r \in DOMAIN D : r < n /\ E[r] = D[r]
    /\ Head(DOMAIN E) = n /\ Latest(E) = n /\ Visible(E) = v
    /\ \A q \in Nat : q < n => Newer(q, DOMAIN E) >= Newer(q, DOMAIN D) + 1

LEMMA ExtendedIs ==
    ASSUME NEW D, DirOK(D), NEW v \in Values, NEW E, Extended(D, E, v)
    PROVE  Grown(D, E, v, After(D))
<1>0. PICK n : n = After(D)
  OBVIOUS
<1>1. /\ Head(DOMAIN D) \in Nat
      /\ \A r \in DOMAIN D : r \in Nat \ {0} /\ r <= Head(DOMAIN D)
  BY DirFacts
<1>2. n \in Nat \ {0} /\ n = Head(DOMAIN D) + 1 /\ \A r \in DOMAIN D : r < n /\ r # n
  BY <1>0, <1>1 DEF After
<1>3. DOMAIN E = DOMAIN D \cup {n} /\ E[n] = v /\ \A r \in DOMAIN D : E[r] = D[r]
  BY <1>0, <1>2 DEF Extended
<1>4. IsFiniteSet(DOMAIN D) /\ IsFiniteSet(DOMAIN E)
  <2>1. IsFiniteSet(DOMAIN D)
    BY DEF DirOK
  <2>2. IsFiniteSet(DOMAIN D \cup {n})
    BY <2>1, FS_AddElement
  <2> QED
    BY <1>3, <2>1, <2>2
<1>5. DirOK(E)
  BY <1>1, <1>2, <1>3, <1>4 DEF DirOK
<1>6. Head(DOMAIN E) = n
  <2>1. DOMAIN E \subseteq Nat \ {0} /\ n \in DOMAIN E /\ \A y \in DOMAIN E : y <= n
    BY <1>1, <1>2, <1>3
  <2> QED
    BY <1>4, <2>1, HeadUnique
<1>7. Latest(E) = n
  <2>1. n \in Valid(E)
    BY <1>3, Retention DEF Valid
  <2>2. Latest(E) \in Nat /\ n <= Latest(E) /\ Latest(E) <= n
    BY <1>5, <1>6, <2>1, DirFacts
  <2> QED
    BY <1>2, <2>2
<1>8. Visible(E) = v
  <2>1. Visible(E) = IF Latest(E) = 0 THEN {} ELSE E[Latest(E)]
    BY <1>5, DirFacts
  <2> QED
    BY <1>2, <1>3, <1>7, <2>1
<1>9. ASSUME NEW q \in Nat, q < n PROVE Newer(q, DOMAIN E) >= Newer(q, DOMAIN D) + 1
  <2> DEFINE P == {x \in DOMAIN D : x > q}
             Q == {x \in DOMAIN E : x > q}
  <2>1. Q = P \cup {n} /\ n \notin P
    BY <1>2, <1>3, <1>9
  <2>2. IsFiniteSet(P) /\ Newer(q, DOMAIN D) = Cardinality(P) /\ Newer(q, DOMAIN E) = Cardinality(Q)
    BY <1>4, NewerCounts
  <2>3. Cardinality(P) \in Nat
    BY <2>2, FS_CardinalityType
  <2> HIDE DEF P, Q
  <2>4. Cardinality(P \cup {n}) = Cardinality(P) + 1
    BY <2>1, <2>2, FS_AddElement
  <2> QED
    BY <2>1, <2>2, <2>3, <2>4
<1> QED
  BY <1>0, <1>2, <1>3, <1>5, <1>6, <1>7, <1>8, <1>9 DEF Grown

(* Whatever a crash may bring back is older than what is visible.          *)
LEMMA BelowVisible ==
    ASSUME Images, Chain, NEW r \in All, Both(r) # Torn
    PROVE  r <= Latest(files) /\ Both(r) \subseteq Visible(files)
<1>1. DirOK(files) /\ DirOK(disk)
  BY DEF Images
<1>2. /\ Visible(files) = IF Latest(files) = 0 THEN {} ELSE files[Latest(files)]
      /\ Latest(files) \in Nat /\ Latest(files) \in Valid(files) \cup {0}
      /\ \A q \in Valid(files) : q <= Latest(files)
      /\ \A q \in DOMAIN files : q \in Nat \ {0}
  BY <1>1, DirFacts
<1>3. /\ Latest(disk) \in Nat /\ \A q \in Valid(disk) : q <= Latest(disk)
      /\ \A q \in DOMAIN disk : q \in Nat \ {0}
  BY <1>1, DirFacts
<1>4. r \in Nat \ {0} /\ r <= Latest(files)
  <2>1. CASE r \in DOMAIN files
    <3>1. r \in Valid(files)
      BY <2>1 DEF Both, Valid
    <3> QED
      BY <1>2, <2>1, <3>1
  <2>2. CASE r \notin DOMAIN files
    <3>1. r \in DOMAIN disk /\ r \in Valid(disk)
      BY <2>2 DEF All, Both, Valid
    <3>2. Latest(disk) <= Latest(files)
      BY DEF Images
    <3> QED
      BY <1>2, <1>3, <3>1, <3>2
  <2> QED
    BY <2>1, <2>2
<1>5. Latest(files) # 0 /\ Latest(files) \in DOMAIN files /\ files[Latest(files)] # Torn
  BY <1>2, <1>4 DEF Valid
<1>6. Both(Latest(files)) = files[Latest(files)] /\ Latest(files) \in All
  BY <1>5 DEF Both, All
<1>7. Both(r) \subseteq Both(Latest(files))
  BY <1>4, <1>5, <1>6 DEF Chain
<1> QED
  BY <1>2, <1>4, <1>5, <1>6, <1>7

LEMMA PublicationKeeps ==
    ASSUME Directory, NEW v \in Values, Visible(files) \subseteq v, Extended(files, files', v),
           UNCHANGED <<disk, promised, named, decayed>>
    PROVE  Directory'
<1>1. Images /\ Chain /\ TornFew /\ Backed /\ Told /\ DirOK(files) /\ DirOK(disk)
  BY DEF Directory, Images
<1>0. PICK n : n = After(files)
  OBVIOUS
<1>2. /\ DirOK(files') /\ DOMAIN files' = DOMAIN files \cup {n} /\ files'[n] = v
      /\ n \in Nat \ {0} /\ n \notin DOMAIN files /\ n = Head(DOMAIN files) + 1
      /\ \A r \in DOMAIN files : r < n /\ files'[r] = files[r]
      /\ Head(DOMAIN files') = n /\ Latest(files') = n
      /\ \A q \in Nat : q < n => Newer(q, DOMAIN files') >= Newer(q, DOMAIN files) + 1
  <2>1. PICK E : E = files'
    OBVIOUS
  <2>2. Extended(files, E, v)
    BY <2>1
  <2>3. Grown(files, E, v, n)
    BY <1>0, <1>1, <2>2, ExtendedIs
  <2> QED
    BY <2>1, <2>3 DEF Grown
<1>3. disk' = disk /\ promised' = promised /\ named' = named /\ decayed' = decayed
  OBVIOUS
<1>4. /\ Head(DOMAIN disk) \in Nat /\ Head(DOMAIN disk) < n
      /\ Latest(disk) \in Nat /\ Latest(disk) < n
      /\ \A r \in DOMAIN disk : r \in Nat \ {0} /\ r < n
  <2>1. /\ Head(DOMAIN disk) \in Nat /\ Latest(disk) \in Nat /\ Latest(disk) <= Head(DOMAIN disk)
        /\ \A r \in DOMAIN disk : r \in Nat \ {0} /\ r <= Head(DOMAIN disk)
    BY <1>1, DirFacts
  <2>2. Head(DOMAIN files) \in Nat /\ Head(DOMAIN disk) <= Head(DOMAIN files)
    BY <1>1, DirFacts DEF Images
  <2> QED
    BY <1>2, <2>1, <2>2
<1>5. Images'
  <2>1. \A r \in DOMAIN files' \cap DOMAIN disk' : files'[r] = disk'[r]
    BY <1>1, <1>2, <1>3, <1>4 DEF Images
  <2>2. Head(DOMAIN disk') <= Head(DOMAIN files') /\ Latest(disk') <= Latest(files')
    BY <1>2, <1>3, <1>4
  <2> QED
    BY <1>1, <1>2, <1>3, <2>1, <2>2 DEF Images
<1>6. /\ All' = All \cup {n} /\ n \notin All /\ Both(n)' = v
      /\ \A r \in All : Both(r)' = Both(r) /\ r \in Nat /\ r < n
  <2>1. All' = All \cup {n}
    BY <1>2, <1>3 DEF All
  <2>2. \A r \in All : r \in Nat /\ r < n /\ r # n
    BY <1>1, <1>2, <1>4 DEF All, DirOK
  <2>3. Both(n)' = v
    BY <1>2 DEF Both
  <2>4. \A r \in All : Both(r)' = Both(r)
    BY <1>2, <1>3, <2>2 DEF Both
  <2> QED
    BY <2>1, <2>2, <2>3, <2>4
<1>7. Chain'
  <2> SUFFICES ASSUME NEW r \in All', NEW q \in All', r <= q, Both(r)' # Torn, Both(q)' # Torn
               PROVE  Both(r)' \subseteq Both(q)'
    BY DEF Chain
  <2>1. CASE r = n
    <3>1. q = n
      BY <1>2, <1>6, <2>1
    <3> QED
      BY <2>1, <3>1
  <2>2. CASE r # n /\ q = n
    <3>1. r \in All /\ Both(r) # Torn
      BY <1>6, <2>2
    <3>2. Both(r) \subseteq Visible(files)
      BY <1>1, <3>1, BelowVisible
    <3> QED
      BY <1>6, <2>2, <3>1, <3>2
  <2>3. CASE r # n /\ q # n
    BY <1>1, <1>6, <2>3 DEF Chain
  <2> QED
    BY <2>1, <2>2, <2>3
<1>8. TornFew'
  <2>1. {r \in All' : Both(r)' = Torn} = {r \in All : Both(r) = Torn}
    BY <1>6, Retention
  <2> QED
    BY <1>1, <1>3, <2>1 DEF TornFew
<1>9. Backed'
  <2>1. /\ Newer(Latest(disk), DOMAIN files) \in Nat /\ Newer(Head(DOMAIN disk), DOMAIN files) \in Nat
        /\ Newer(Latest(disk), DOMAIN files') \in Nat /\ Newer(Head(DOMAIN disk), DOMAIN files') \in Nat
        /\ RETENTION \in Nat
    BY <1>1, <1>2, NewerCounts, Retention DEF DirOK
  <2>2. /\ Newer(Latest(disk), DOMAIN files') >= Newer(Latest(disk), DOMAIN files) + 1
        /\ Newer(Head(DOMAIN disk), DOMAIN files') >= Newer(Head(DOMAIN disk), DOMAIN files) + 1
    BY <1>2, <1>4
  <2>3. Latest(disk) \in DOMAIN files' \cup {0} \/ Newer(Latest(disk), DOMAIN files') >= RETENTION - 1
    BY <1>1, <1>2, <2>1, <2>2 DEF Backed
  <2>4. Head(DOMAIN disk) \in DOMAIN files' \cup {0} \/ Newer(Head(DOMAIN disk), DOMAIN files') >= RETENTION - 2
    BY <1>1, <1>2, <2>1, <2>2 DEF Backed
  <2> QED
    BY <1>3, <2>3, <2>4 DEF Backed
<1>10. Told'
  <2>1. named.revision # n
    BY <1>1, <1>2, <1>4 DEF Told
  <2>2. Visible(disk)' = Visible(disk) /\ Head(DOMAIN disk)' = Head(DOMAIN disk)
    BY <1>3
  <2> QED
    BY <1>1, <1>3, <1>6, <2>1, <2>2 DEF Told
<1> QED
  BY <1>5, <1>7, <1>8, <1>9, <1>10 DEF Directory

-----------------------------------------------------------------------------
(* A directory sync, with what the answers told before and after it.       *)
LEMMA Synced ==
    ASSUME Directory, files' = files, disk' = files, decayed' = decayed,
           promised' \subseteq Visible(files),
           named'.revision \in Nat, named'.revision <= Head(DOMAIN files),
           named'.revision \in DOMAIN files => files[named'.revision] \in {named'.value, Torn}
    PROVE  Directory'
<1>1. Images /\ Chain /\ TornFew /\ DirOK(files)
  BY DEF Directory, Images
<1>2. /\ Head(DOMAIN files) \in Nat /\ Head(DOMAIN files) \in DOMAIN files \cup {0}
      /\ Latest(files) \in Nat /\ Latest(files) \in DOMAIN files \cup {0}
  BY <1>1, DirFacts DEF Valid
<1>3. Images'
  BY <1>1, <1>2 DEF Images
<1>4. All' = DOMAIN files /\ All' \subseteq All /\ \A r \in All' : Both(r)' = files[r] /\ Both(r) = files[r]
  BY DEF All, Both
<1>5. Chain'
  BY <1>1, <1>4 DEF Chain
<1>6. TornFew'
  <2> DEFINE T == {r \in All : Both(r) = Torn}
             U == {r \in All' : Both(r)' = Torn}
  <2>1. U \in SUBSET T
    BY <1>4
  <2>2. IsFiniteSet(T) /\ Cardinality(T) <= decayed /\ decayed \in Nat
    BY <1>1 DEF TornFew
  <2> HIDE DEF T, U
  <2>3. IsFiniteSet(U) /\ Cardinality(U) <= Cardinality(T) /\ Cardinality(U) \in Nat /\ Cardinality(T) \in Nat
    BY <2>1, <2>2, FS_Subset, FS_CardinalityType
  <2>4. IsFiniteSet(U) /\ Cardinality(U) <= decayed'
    BY <2>2, <2>3
  <2> QED
    BY <2>2, <2>4 DEF TornFew, U
<1>7. Backed'
  BY <1>2 DEF Backed
<1>8. Told'
  <2>1. Visible(disk)' = Visible(files) /\ Head(DOMAIN disk)' = Head(DOMAIN files)
    OBVIOUS
  <2> QED
    BY <1>4, <2>1 DEF Told
<1> QED
  BY <1>3, <1>5, <1>6, <1>7, <1>8 DEF Directory

LEMMA ToldIsVisible ==
    ASSUME Directory
    PROVE  /\ promised \subseteq Visible(files)
           /\ named.revision \in Nat /\ named.revision <= Head(DOMAIN files)
           /\ named.revision \in DOMAIN files => files[named.revision] \in {named.value, Torn}
<1>1. Images /\ Chain /\ Told /\ DirOK(files) /\ DirOK(disk)
  BY DEF Directory, Images
<1>2. Visible(disk) \subseteq Visible(files)
  BY <1>1, VisibleOnDisk
<1>3. Head(DOMAIN files) \in Nat /\ Head(DOMAIN disk) \in Nat /\ Head(DOMAIN disk) <= Head(DOMAIN files)
  BY <1>1, DirFacts DEF Images
<1>4. named.revision \in DOMAIN files => files[named.revision] \in {named.value, Torn}
  BY <1>1 DEF Told, All, Both
<1> QED
  BY <1>1, <1>2, <1>3, <1>4 DEF Told

LEMMA DirectoryStays ==
    ASSUME Directory, UNCHANGED <<files, decayed, promised, named>>, disk' \in {disk, files}
    PROVE  Directory'
<1>1. CASE disk' = files
  <2>1. promised' = promised /\ named' = named /\ files' = files /\ decayed' = decayed
    OBVIOUS
  <2>2. /\ promised \subseteq Visible(files)
        /\ named.revision \in Nat /\ named.revision <= Head(DOMAIN files)
        /\ named.revision \in DOMAIN files => files[named.revision] \in {named.value, Torn}
    BY ToldIsVisible
  <2>3. /\ promised' \subseteq Visible(files)
        /\ named'.revision \in Nat /\ named'.revision <= Head(DOMAIN files)
        /\ named'.revision \in DOMAIN files => files[named'.revision] \in {named'.value, Torn}
    BY <2>1, <2>2
  <2> QED
    BY <1>1, <2>1, <2>3, Synced
<1>2. CASE disk' = disk
  BY <1>2 DEF Directory, Images, Chain, TornFew, Backed, Told, All, Both
<1> QED
  BY <1>1, <1>2

-----------------------------------------------------------------------------
(* What transactions know survives what others do.                         *)
Trimmed(t, u) ==
    /\ u.pc = t.pc /\ u.task = t.task /\ u.tries = t.tries /\ u.listed = t.listed
    /\ u.head = t.head /\ u.source = t.source /\ u.value = t.value /\ u.old = t.old
    /\ u.exact = t.exact /\ (u.temp => t.temp)

LEMMA KnownTrimmed ==
    ASSUME NEW dir, NEW t, Known(t, dir), NEW u, Trimmed(t, u)
    PROVE  Known(u, dir)
BY DEF Known, Behind, Lists, Reads, Wins, Removes, Published, Confirms, Trimmed

LEMMA KnownRemoval ==
    ASSUME NEW D, DirOK(D), NEW t \in Txn, Known(t, D), NEW E, NEW gone, Removed(D, E, gone),
           t.pc \in Past /\ t.temp => t.head + 1 \notin gone
    PROVE  Known(t, E)
<1>1. /\ DOMAIN E = DOMAIN D \ gone /\ \A r \in DOMAIN E : E[r] = D[r]
      /\ Head(DOMAIN E) = Head(DOMAIN D) /\ Latest(E) = Latest(D) /\ Visible(E) = Visible(D)
      /\ \A q \in Nat : Spare(q, D) /\ q # Latest(D) => Spare(q, E)
  BY RemovedIs
<1>2. /\ Behind(t, D) /\ Lists(t, D) /\ Reads(t, D) /\ Wins(t, D) /\ Removes(t, D)
      /\ Published(t, D) /\ Confirms(t, D)
  BY DEF Known
<1>3. Behind(t, E) /\ Lists(t, E) /\ Reads(t, E)
  BY <1>1, <1>2 DEF Behind, Lists, Reads
<1>4. Wins(t, E)
  BY <1>1, <1>2 DEF Wins
<1>5. Removes(t, E)
  <2>1. \A q \in t.old : q \in Nat
    BY DEF Txn
  <2> QED
    BY <1>1, <1>2, <2>1 DEF Removes
<1>6. Published(t, E) /\ Confirms(t, E)
  BY <1>1, <1>2 DEF Published, Confirms
<1> QED
  BY <1>3, <1>4, <1>5, <1>6 DEF Known

LEMMA KnownPublication ==
    ASSUME NEW D, DirOK(D), NEW t \in Txn, Known(t, D), NEW v \in Values, NEW E, Extended(D, E, v),
           Visible(D) \subseteq v
    PROVE  Known(t, E)
<1>0. PICK n : n = After(D)
  OBVIOUS
<1>1. /\ DOMAIN E = DOMAIN D \cup {n} /\ \A r \in DOMAIN D : r < n /\ E[r] = D[r]
      /\ n \in Nat \ {0} /\ Head(DOMAIN E) = n /\ Latest(E) = n /\ Visible(E) = v
      /\ \A q \in Nat : q < n => Newer(q, DOMAIN E) >= Newer(q, DOMAIN D) + 1
      /\ DirOK(E) /\ n = Head(DOMAIN D) + 1
  <2>1. Grown(D, E, v, n)
    BY <1>0, ExtendedIs
  <2> QED
    BY <2>1 DEF Grown
<1>2. /\ Behind(t, D) /\ Lists(t, D) /\ Reads(t, D) /\ Wins(t, D) /\ Removes(t, D)
      /\ Published(t, D) /\ Confirms(t, D)
  BY DEF Known
<1>3. /\ t.head \in Nat /\ t.source \in Nat /\ \A q \in t.old : q \in Nat
      /\ Head(DOMAIN D) \in Nat /\ \A r \in DOMAIN D : r \in Nat
  BY DirFacts DEF Txn
<1>4. Behind(t, E) /\ Reads(t, E)
  BY <1>1, <1>2, <1>3 DEF Behind, Reads
<1>5. Lists(t, E)
  <2> SUFFICES ASSUME t.pc = "read" PROVE \A r \in DOMAIN E : r <= t.head => r \in t.listed
    BY <1>2 DEF Lists
  <2>1. t.head < n
    BY <1>1, <1>2, <1>3 DEF Behind
  <2>2. ~(n <= t.head)
    BY <1>1, <1>3, <2>1
  <2> QED
    BY <1>1, <1>2, <2>2 DEF Lists
<1>6. Wins(t, E)
  <2>1. t.head = Head(DOMAIN D) => t.head + 1 \in DOMAIN E
    BY <1>1
  <2> QED
    BY <1>1, <1>2, <2>1 DEF Wins
<1>7. Removes(t, E)
  <2> SUFFICES ASSUME t.pc = "compact", NEW q \in t.old
               PROVE  q < t.head /\ q # Latest(E) /\ Spare(q, E)
    BY DEF Removes
  <2>1. q \in Nat /\ q < t.head /\ Spare(q, D)
    BY <1>2, <1>3 DEF Removes
  <2>2. t.head <= Head(DOMAIN D)
    BY <1>2 DEF Behind, Decided
  <2>3. q < n
    BY <1>1, <1>3, <2>1, <2>2
  <2>4. Newer(q, DOMAIN D) \in Nat /\ Newer(q, DOMAIN E) \in Nat /\ RETENTION \in Nat
    BY <1>1, NewerCounts, Retention DEF DirOK
  <2>5. Newer(q, DOMAIN E) >= Newer(q, DOMAIN D) + 1
    BY <1>1, <2>1, <2>3
  <2>6. Newer(q, DOMAIN D) >= RETENTION - 2
    BY <2>1, <2>4 DEF Spare
  <2>7. Newer(q, DOMAIN E) >= RETENTION - 1
    BY <2>4, <2>5, <2>6
  <2> QED
    BY <1>1, <2>1, <2>3, <2>7 DEF Spare
<1>8. Published(t, E)
  BY <1>1, <1>2, <1>3 DEF Published
<1>9. Confirms(t, E)
  BY <1>1, <1>2, <1>3 DEF Confirms
<1> QED
  BY <1>4, <1>5, <1>6, <1>7, <1>8, <1>9 DEF Known

-----------------------------------------------------------------------------
(* What a compaction may choose from.                                      *)
LEMMA ExcessSpares ==
    ASSUME NEW dir, DirOK(dir), NEW q \in Excess(DOMAIN dir, Latest(dir))
    PROVE  /\ q \in Nat /\ q \in DOMAIN dir /\ q < Head(DOMAIN dir) /\ q # Latest(dir)
           /\ Spare(q, dir)
<1> DEFINE R == DOMAIN dir
           L == Latest(dir)
<1>1. /\ R \subseteq Nat \ {0} /\ IsFiniteSet(R) /\ L \in Nat /\ Head(R) \in Nat
      /\ \A r \in R : r <= Head(R)
  BY DirFacts DEF DirOK
<1>2. RETENTION \in Nat /\ RETENTION >= 3
  BY Retention
<1>3. q \in R /\ q \in Nat /\ q # L
  BY <1>1 DEF Excess
<1>4. \/ Newer(q, R) >= RETENTION - 1
      \/ Newer(q, R) >= RETENTION - 2 /\ Newer(L, R) >= RETENTION - 1
  <2>1. (RETENTION - 1) - 1 = RETENTION - 2
    BY <1>2
  <2> QED
    BY <2>1 DEF Excess
<1>5. Newer(q, R) \in Nat /\ Newer(L, R) \in Nat
  BY <1>1, NewerCounts
<1>6. q < Head(R)
  <2>1. Newer(q, R) # 0
    BY <1>2, <1>4, <1>5
  <2>2. {x \in R : x > q} # {}
    BY <2>1, FS_EmptySet DEF Newer
  <2>3. PICK x \in R : x > q
    BY <2>2
  <2> QED
    BY <1>1, <1>3, <2>3
<1>7. Spare(q, dir)
  <2>1. CASE q < L /\ Newer(L, R) >= RETENTION - 1
    <3>1. {x \in R : x > L} \subseteq {x \in R : x > q}
      BY <1>1, <1>3, <2>1
    <3>2. Newer(L, R) <= Newer(q, R)
      BY <1>1, <3>1, NewerGrows
    <3> QED
      BY <1>2, <1>5, <2>1, <3>2 DEF Spare
  <2>2. CASE q > L /\ Newer(q, R) >= RETENTION - 2
    BY <2>2 DEF Spare
  <2>3. CASE Newer(q, R) >= RETENTION - 1
    BY <2>3 DEF Spare
  <2>4. q < L \/ q > L
    BY <1>1, <1>3
  <2> QED
    BY <1>4, <2>1, <2>2, <2>3, <2>4
<1> QED
  BY <1>3, <1>6, <1>7

-----------------------------------------------------------------------------
(* One writer moves.                                                       *)
LEMMA WriterMoves ==
    ASSUME NEW s, NEW dir, Transactions(s, dir), NEW w \in Writers, NEW t \in Txn, Known(t, dir),
           \A v \in Writers : Fence(t, s[v]) /\ Fence(s[v], t), Fence(t, t),
           NEW u, u = [s EXCEPT ![w] = t]
    PROVE  Transactions(u, dir)
<1>1. s \in [Writers -> Txn]
  BY DEF Transactions
<1>2. u \in [Writers -> Txn] /\ u[w] = t /\ \A v \in Writers : v # w => u[v] = s[v]
  BY <1>1
<1>3. \A v \in Writers : Known(u[v], dir)
  BY <1>2 DEF Transactions
<1>4. \A v, x \in Writers : Fence(u[v], u[x])
  <2> SUFFICES ASSUME NEW v \in Writers, NEW x \in Writers PROVE Fence(u[v], u[x])
    OBVIOUS
  <2>1. u[v] \in {t, s[v]} /\ u[x] \in {t, s[x]}
    BY <1>2
  <2>2. Fence(s[v], s[x]) /\ Fence(t, s[x]) /\ Fence(s[v], t) /\ Fence(t, t)
    BY DEF Transactions
  <2> QED
    BY <2>1, <2>2
<1> QED
  BY <1>2, <1>3, <1>4 DEF Transactions

LEMMA WriterLeaves ==
    ASSUME NEW s, NEW dir, Transactions(s, dir), NEW w \in Writers, NEW t \in Txn, Known(t, dir),
           t.pc \notin Past, NEW u, u = [s EXCEPT ![w] = t]
    PROVE  Transactions(u, dir)
<1>1. \A v \in Writers : Fence(t, s[v]) /\ Fence(s[v], t)
  BY DEF Fence, Past
<1>2. Fence(t, t)
  BY DEF Fence, Past
<1> QED
  BY <1>1, <1>2, WriterMoves

(* The records of an attempt that has seen nothing yet.                    *)
LEMMA Fresh ==
    ASSUME NEW t, t.pc \in {"idle", "list"}, NEW dir
    PROVE  Known(t, dir) /\ t.pc \notin Past
BY DEF Known, Behind, Lists, Reads, Wins, Removes, Published, Confirms, Past, Decided

LEMMA IdleIsFresh == Idle \in Txn /\ Idle.pc = "idle"
BY Retention DEF Idle, Txn, Tasks

LEMMA AgainIsFresh ==
    ASSUME NEW s \in [Writers -> Txn], NEW w \in Writers
    PROVE  Again(s, w) \in Txn /\ Again(s, w).pc \in {"idle", "list"}
<1>1. CASE s[w].tries + 1 = ATTEMPTS
  BY <1>1, IdleIsFresh DEF Again
<1>2. CASE s[w].tries + 1 # ATTEMPTS
  <2>1. s[w].task \in Tasks /\ s[w].tries \in 0 .. (ATTEMPTS - 1)
    BY DEF Txn
  <2>2. s[w].tries + 1 \in 0 .. (ATTEMPTS - 1)
    BY <1>2, <2>1, Retention
  <2>3. Again(s, w) = [pc |-> "list", task |-> s[w].task, tries |-> s[w].tries + 1, listed |-> {},
                       head |-> 0, source |-> 0, value |-> {}, temp |-> FALSE, old |-> {}, exact |-> 0]
    BY <1>2 DEF Again, Idle
  <2> QED
    BY <2>1, <2>2, <2>3, Retention DEF Txn
<1> QED
  BY <1>1, <1>2

LEMMA LeaveKeeps ==
    ASSUME NEW s, NEW dir, Transactions(s, dir), NEW w \in Writers, NEW u, u = [s EXCEPT ![w] = Idle]
    PROVE  Transactions(u, dir)
<1>1. Idle \in Txn /\ Known(Idle, dir) /\ Idle.pc \notin Past
  BY IdleIsFresh, Fresh
<1>2. PICK t : t = Idle
  OBVIOUS
<1> QED
  BY <1>1, <1>2, WriterLeaves

(* A listing removes the temporary files that lost their race.             *)
LEMMA Sweeping ==
    ASSUME DirOK(files), Transactions(txn, files), NEW s, s = Swept
    PROVE  /\ Transactions(s, files)
           /\ \A v \in Writers : Trimmed(txn[v], s[v]) /\ (s[v].temp => s[v].head + 1 \notin DOMAIN files)
<1>1. txn \in [Writers -> Txn]
  BY DEF Transactions
<1>2. \A v \in Writers : s[v] = [txn[v] EXCEPT !.temp = txn[v].temp /\ txn[v].head + 1 \notin DOMAIN files]
  BY DEF Swept
<1>3. ASSUME NEW v \in Writers
      PROVE  s[v] \in Txn /\ Trimmed(txn[v], s[v]) /\ (s[v].temp => s[v].head + 1 \notin DOMAIN files)
  <2>1. txn[v] \in Txn
    BY <1>1
  <2>2. PICK b \in BOOLEAN : b = (txn[v].temp /\ txn[v].head + 1 \notin DOMAIN files)
    OBVIOUS
  <2>3. s[v] = [txn[v] EXCEPT !.temp = b]
    BY <1>2, <2>2
  <2> QED
    BY <2>1, <2>2, <2>3 DEF Txn, Trimmed
<1>4. s \in [Writers -> Txn]
  BY <1>3 DEF Swept
<1>5. \A v \in Writers : Known(s[v], files)
  BY <1>3, KnownTrimmed DEF Transactions
<1>6. \A v, w \in Writers : Fence(s[v], s[w])
  BY <1>3 DEF Transactions, Fence, Trimmed
<1> QED
  BY <1>3, <1>4, <1>5, <1>6 DEF Transactions

-----------------------------------------------------------------------------
(* The steps that leave the files alone.                                   *)
LEMMA FilesStay ==
    ASSUME StoreInv, UNCHANGED <<files, promised, named, decayed, crashed>>,
           disk' \in {disk, files}, Transactions(txn', files)
    PROVE  StoreInv'
<1>1. Directory'
  BY DirectoryStays DEF StoreInv
<1>2. Transactions(txn, files)'
  <2>1. files' = files
    OBVIOUS
  <2> QED
    BY <2>1
<1>3. History'
  BY DEF StoreInv, History
<1> QED
  BY <1>1, <1>2, <1>3 DEF StoreInv

LEMMA BeginKeeps ==
    ASSUME StoreInv, NEW w \in Writers, NEW task \in Tasks, Begin(w, task)
    PROVE  StoreInv'
<1>1. Transactions(txn, files) /\ txn \in [Writers -> Txn] /\ txn[w] \in Txn
  BY DEF StoreInv, Transactions
<1>2. PICK t : t = [txn[w] EXCEPT !.pc = "list", !.task = task]
  OBVIOUS
<1>3. txn' = [txn EXCEPT ![w] = t]
  BY <1>1, <1>2 DEF Begin
<1>4. t \in Txn /\ t.pc = "list"
  BY <1>1, <1>2 DEF Txn
<1>5. Known(t, files) /\ t.pc \notin Past
  BY <1>4, Fresh
<1>6. Transactions(txn', files)
  BY <1>1, <1>3, <1>4, <1>5, WriterLeaves
<1> QED
  BY <1>6, FilesStay DEF Begin

LEMMA LeavingKeeps ==
    ASSUME StoreInv, NEW w \in Writers, Leave(w), disk' \in {disk, files},
           UNCHANGED <<files, promised, named, decayed, crashed>>
    PROVE  StoreInv'
<1>1. Transactions(txn, files)
  BY DEF StoreInv
<1>2. Transactions(txn', files)
  BY <1>1, LeaveKeeps DEF Leave
<1> QED
  BY <1>2, FilesStay

LEMMA ListKeeps ==
    ASSUME StoreInv, NEW w \in Writers, List(w)
    PROVE  StoreInv'
<1>1. Transactions(txn, files) /\ DirOK(files)
  BY DEF StoreInv, Directory, Images
<1>2. PICK s : s = Swept
  OBVIOUS
<1>3. Transactions(s, files) /\ s \in [Writers -> Txn] /\ s[w] \in Txn
  BY <1>1, <1>2, Sweeping DEF Transactions
<1>4. CASE txn' = [s EXCEPT ![w] = Idle] /\ disk' = disk
  <2>1. Transactions(txn', files)
    BY <1>3, <1>4, LeaveKeeps
  <2> QED
    BY <1>4, <2>1, FilesStay DEF List
<1>5. CASE /\ txn' = [s EXCEPT ![w].pc = "read", ![w].listed = DOMAIN files, ![w].head = Head(DOMAIN files)]
           /\ disk' \in {disk, files}
  <2>1. PICK t : t = [s[w] EXCEPT !.pc = "read", !.listed = DOMAIN files, !.head = Head(DOMAIN files)]
    OBVIOUS
  <2>2. txn' = [s EXCEPT ![w] = t]
    BY <1>3, <1>5, <2>1
  <2>3. Head(DOMAIN files) \in Nat /\ DOMAIN files \subseteq Nat \ {0} /\ IsFiniteSet(DOMAIN files)
    BY <1>1, DirFacts DEF DirOK
  <2>4. t \in Txn /\ t.pc = "read" /\ t.listed = DOMAIN files /\ t.head = Head(DOMAIN files)
    BY <1>3, <2>1, <2>3 DEF Txn
  <2>5. Known(t, files) /\ t.pc \notin Past
    <3>1. Behind(t, files) /\ Lists(t, files)
      BY <2>3, <2>4 DEF Behind, Lists
    <3> QED
      BY <2>4, <3>1 DEF Known, Reads, Wins, Removes, Published, Confirms, Past, Decided
  <2>6. Transactions(txn', files)
    BY <1>3, <2>2, <2>4, <2>5, WriterLeaves
  <2> QED
    BY <1>5, <2>6, FilesStay DEF List
<1> QED
  BY <1>2, <1>4, <1>5 DEF List

LEMMA StageKeeps ==
    ASSUME StoreInv, NEW w \in Writers, Stage(w)
    PROVE  StoreInv'
<1>1. Transactions(txn, files) /\ txn \in [Writers -> Txn] /\ txn[w] \in Txn /\ Known(txn[w], files)
  BY DEF StoreInv, Transactions
<1>2. PICK v : v = txn[w].value \cup ({txn[w].task} \ {Load})
  OBVIOUS
<1>3. v \in Values /\ txn[w].value \subseteq v
  BY <1>1, <1>2 DEF Txn, Values, Tasks
<1>4. PICK t : t = [txn[w] EXCEPT !.pc = "check", !.temp = TRUE, !.value = v]
  OBVIOUS
<1>5. txn' = [txn EXCEPT ![w] = t]
  BY <1>1, <1>2, <1>4 DEF Stage
<1>6. t \in Txn /\ t.pc = "check" /\ t.head = txn[w].head /\ t.source = txn[w].source /\ t.value = v
  BY <1>1, <1>3, <1>4 DEF Txn
<1>7. Known(t, files) /\ t.pc \notin Past
  <2>1. Behind(txn[w], files) /\ Reads(txn[w], files) /\ txn[w].pc = "stage"
    BY <1>1 DEF Known, Stage
  <2>2. Behind(t, files) /\ Reads(t, files)
    BY <1>3, <1>6, <2>1 DEF Behind, Reads, Decided
  <2> QED
    BY <1>6, <2>2 DEF Known, Lists, Wins, Removes, Published, Confirms, Past, Decided
<1>8. Transactions(txn', files)
  BY <1>1, <1>5, <1>6, <1>7, WriterLeaves
<1> QED
  BY <1>8, FilesStay DEF Stage

LEMMA SettleKeeps ==
    ASSUME StoreInv, NEW w \in Writers, Settle(w)
    PROVE  StoreInv'
<1>1. CASE Leave(w) /\ disk' = disk
  BY <1>1, LeavingKeeps DEF Settle
<1>2. CASE disk' = files /\ txn' = [txn EXCEPT ![w].pc = "link"]
  <2>1. Transactions(txn, files) /\ txn \in [Writers -> Txn] /\ txn[w] \in Txn /\ Known(txn[w], files)
    BY DEF StoreInv, Transactions
  <2>2. PICK t : t = [txn[w] EXCEPT !.pc = "link"]
    OBVIOUS
  <2>3. txn' = [txn EXCEPT ![w] = t]
    BY <1>2, <2>1, <2>2
  <2>4. /\ t \in Txn /\ t.pc = "link" /\ t.head = txn[w].head /\ t.source = txn[w].source
        /\ t.value = txn[w].value /\ t.temp = txn[w].temp
    BY <2>1, <2>2 DEF Txn
  <2>5. Known(t, files)
    <3>1. Behind(txn[w], files) /\ Reads(txn[w], files) /\ Wins(txn[w], files) /\ txn[w].pc = "settle"
      BY <2>1 DEF Known, Settle
    <3>2. Behind(t, files) /\ Reads(t, files) /\ Wins(t, files)
      BY <2>4, <3>1 DEF Behind, Reads, Wins, Decided, Past
    <3> QED
      BY <2>4, <3>2 DEF Known, Lists, Removes, Published, Confirms
  <2>6. \A v \in Writers : Fence(t, txn[v]) /\ Fence(txn[v], t)
    <3>1. \A v \in Writers : Fence(txn[v], txn[w])
      BY <2>1 DEF Transactions
    <3>2. txn[w].pc \in Past
      BY DEF Settle, Past
    <3> QED
      BY <2>4, <3>1, <3>2 DEF Fence
  <2>7. Fence(t, t)
    BY <2>4 DEF Fence
  <2>8. Transactions(txn', files)
    BY <2>1, <2>3, <2>4, <2>5, <2>6, <2>7, WriterMoves
  <2> QED
    BY <1>2, <2>8, FilesStay DEF Settle
<1> QED
  BY <1>1, <1>2 DEF Settle

(* The value a transaction is built on: what it read is in the directory,  *)
(* and it is the current value as long as no newer revision is.            *)
Candidates(t, dir) == {r \in t.listed : r \notin DOMAIN dir \/ dir[r] # Torn}
Current(t, source, value, dir) ==
    /\ source \in Nat /\ value \in Values /\ source <= Head(DOMAIN dir)
    /\ source \in DOMAIN dir => dir[source] = value
    /\ value \subseteq Visible(dir)
    /\ t.head = Head(DOMAIN dir) => source = Latest(dir) /\ Visible(dir) \subseteq value

LEMMA ReadIsCurrent ==
    ASSUME StoreInv, NEW w \in Writers, txn[w].pc = "read",
           NEW source, source = Head(Candidates(txn[w], files)),
           NEW value, value = IF source \in DOMAIN files THEN files[source] ELSE {},
           source \in DOMAIN files \/ txn[w].listed = {}
    PROVE  Current(txn[w], source, value, files)
<1> DEFINE t == txn[w]
<1>0. PICK S : S = Candidates(t, files)
  OBVIOUS
<1>1. DirOK(files) /\ Images /\ Chain /\ t \in Txn /\ Lists(t, files)
  BY DEF StoreInv, Directory, Images, Transactions, Known
<1>2. /\ t.listed \subseteq Nat \ {0} /\ IsFiniteSet(t.listed) /\ t.head = Head(t.listed)
      /\ \A r \in DOMAIN files : r <= t.head => r \in t.listed
  BY <1>1 DEF Lists
<1>3. /\ Head(DOMAIN files) \in Nat /\ Latest(files) \in Nat /\ Latest(files) \in Valid(files) \cup {0}
      /\ \A r \in DOMAIN files : r \in Nat \ {0} /\ r <= Head(DOMAIN files)
      /\ \A r \in Valid(files) : r <= Latest(files)
      /\ Visible(files) = IF Latest(files) = 0 THEN {} ELSE files[Latest(files)]
  BY <1>1, DirFacts
<1>4. S \in SUBSET t.listed /\ S \subseteq Nat \ {0}
  BY <1>0, <1>2 DEF Candidates
<1>5. IsFiniteSet(S)
  BY <1>2, <1>4, FS_Subset
<1>6. source \in Nat /\ source \in S \cup {0} /\ \A r \in S : r <= source
  <2>1. source = Head(S)
    BY <1>0
  <2>2. Head(S) \in Nat /\ Head(S) \in S \cup {0} /\ \A r \in S : r <= Head(S)
    BY <1>4, <1>5, HeadIs
  <2> QED
    BY <2>1, <2>2
<1>7. t.head = Head(DOMAIN files) => DOMAIN files \subseteq t.listed /\ Valid(files) \subseteq S
  BY <1>0, <1>2, <1>3 DEF Valid, Candidates
<1>8. CASE source \in DOMAIN files
  <2>1. source # 0 /\ source \in S /\ files[source] # Torn
    BY <1>0, <1>3, <1>6, <1>8 DEF Candidates
  <2>2. source \in Valid(files) /\ source \in All /\ Both(source) = files[source] /\ value = files[source]
    BY <1>8, <2>1 DEF Valid, All, Both
  <2>3. value \in Values
    BY <1>1, <1>8, <2>1, <2>2 DEF DirOK
  <2>4. value \subseteq Visible(files)
    BY <1>1, <2>1, <2>2, BelowVisible
  <2>5. ASSUME t.head = Head(DOMAIN files) PROVE source = Latest(files) /\ Visible(files) \subseteq value
    <3>1. source <= Latest(files) /\ Latest(files) # 0
      BY <1>3, <1>6, <2>1, <2>2
    <3>2. Latest(files) <= source
      BY <1>3, <1>6, <1>7, <2>5, <3>1
    <3>3. source = Latest(files)
      BY <1>3, <1>6, <3>1, <3>2
    <3> QED
      BY <1>3, <2>2, <3>1, <3>3
  <2> QED
    BY <1>3, <1>6, <1>8, <2>2, <2>3, <2>4, <2>5 DEF Current
<1>9. CASE source \notin DOMAIN files
  <2>1. t.listed = {} /\ value = {} /\ source = 0
    BY <1>4, <1>6, <1>9
  <2>2. ASSUME t.head = Head(DOMAIN files) PROVE source = Latest(files) /\ Visible(files) = {}
    BY <1>3, <1>4, <1>7, <2>1, <2>2
  <2> QED
    BY <1>3, <1>9, <2>1, <2>2, Retention DEF Current
<1> QED
  BY <1>8, <1>9

LEMMA ReadKeeps ==
    ASSUME StoreInv, NEW w \in Writers, Read(w)
    PROVE  StoreInv'
<1>1. /\ Transactions(txn, files) /\ txn \in [Writers -> Txn] /\ txn[w] \in Txn
      /\ Known(txn[w], files) /\ txn[w].pc = "read"
  BY DEF StoreInv, Transactions, Read
<1>2. PICK source : source = Head(Candidates(txn[w], files))
  OBVIOUS
<1>3. PICK value : value = IF source \in DOMAIN files THEN files[source] ELSE {}
  OBVIOUS
<1> DEFINE c == [Idle EXCEPT !.pc = "confirm", !.task = txn[w].task, !.source = source,
                             !.value = value, !.exact = txn[w].exact]
           g == [txn[w] EXCEPT !.pc = "stage", !.listed = {}, !.source = source, !.value = value]
<1>4. \/ /\ source \in DOMAIN files \/ txn[w].listed = {}
         /\ txn' = [txn EXCEPT ![w] = c] \/ txn' = [txn EXCEPT ![w] = g]
      \/ Leave(w)
  BY <1>2, <1>3 DEF Read, Candidates
<1>5. CASE Leave(w)
  BY <1>5, LeavingKeeps DEF Read
<1>6. CASE /\ source \in DOMAIN files \/ txn[w].listed = {}
           /\ txn' = [txn EXCEPT ![w] = c] \/ txn' = [txn EXCEPT ![w] = g]
  <2>1. /\ source \in Nat /\ value \in Values /\ source <= Head(DOMAIN files)
        /\ source \in DOMAIN files => files[source] = value
        /\ value \subseteq Visible(files)
        /\ txn[w].head = Head(DOMAIN files) => source = Latest(files) /\ Visible(files) \subseteq value
    <3>1. Current(txn[w], source, value, files)
      BY <1>1, <1>2, <1>3, <1>6, ReadIsCurrent
    <3> QED
      BY <3>1 DEF Current
  <2>2. c \in Txn /\ c.pc = "confirm" /\ c.source = source /\ c.value = value
    BY <1>1, <2>1, IdleIsFresh DEF Txn
  <2>3. g \in Txn /\ g.pc = "stage" /\ g.head = txn[w].head /\ g.source = source /\ g.value = value
    BY <1>1, <2>1 DEF Txn
  <2> HIDE DEF c, g
  <2>4. Known(c, files) /\ c.pc \notin Past
    <3>1. Confirms(c, files)
      BY <2>1, <2>2 DEF Confirms
    <3> QED
      BY <2>2, <3>1 DEF Known, Behind, Lists, Reads, Wins, Removes, Published, Past, Decided
  <2>5. Known(g, files) /\ g.pc \notin Past
    <3>1. Behind(txn[w], files)
      BY <1>1 DEF Known
    <3>2. Behind(g, files) /\ Reads(g, files)
      BY <1>1, <2>1, <2>3, <3>1 DEF Behind, Reads, Decided
    <3> QED
      BY <2>3, <3>2 DEF Known, Lists, Wins, Removes, Published, Confirms, Past, Decided
  <2>6. PICK t : t \in {c, g} /\ txn' = [txn EXCEPT ![w] = t]
    BY <1>6
  <2>7. Transactions(txn', files)
    BY <1>1, <2>2, <2>3, <2>4, <2>5, <2>6, WriterLeaves
  <2>8. UNCHANGED <<files, disk, promised, named, decayed, crashed>>
    BY DEF Read
  <2> QED
    BY <2>7, <2>8, FilesStay
<1> QED
  BY <1>4, <1>5, <1>6

LEMMA CheckKeeps ==
    ASSUME StoreInv, NEW w \in Writers, Check(w)
    PROVE  StoreInv'
<1>1. Transactions(txn, files) /\ txn \in [Writers -> Txn] /\ DirOK(files) /\ Known(txn[w], files)
  BY DEF StoreInv, Directory, Images, Transactions
<1>2. PICK s : s = Swept
  OBVIOUS
<1>3. /\ Transactions(s, files)
      /\ \A v \in Writers : Trimmed(txn[v], s[v]) /\ (s[v].temp => s[v].head + 1 \notin DOMAIN files)
  BY <1>1, <1>2, Sweeping
<1>4. s \in [Writers -> Txn] /\ s[w] \in Txn /\ Known(s[w], files) /\ s[w].pc = "check" /\ s[w].source = txn[w].source
  BY <1>3 DEF Transactions, Trimmed, Check
<1>5. PICK old : old = Excess(DOMAIN files, txn[w].source)
  OBVIOUS
<1>6. PICK g : g = [s[w] EXCEPT !.pc = IF old = {} THEN "link" ELSE "compact", !.old = old]
  OBVIOUS
<1>7. /\ \/ txn' = [s EXCEPT ![w] = Idle]
         \/ txn' = [s EXCEPT ![w] = Again(txn, w)]
         \/ s[w].head = Head(DOMAIN files) /\ txn' = [s EXCEPT ![w] = g]
      /\ disk' \in {disk, files} /\ UNCHANGED <<files, promised, named, decayed, crashed>>
  BY <1>2, <1>4, <1>5, <1>6 DEF Check
<1>8. CASE txn' = [s EXCEPT ![w] = Idle]
  <2>1. Transactions(txn', files)
    BY <1>3, <1>8, LeaveKeeps
  <2> QED
    BY <1>7, <2>1, FilesStay
<1>9. CASE txn' = [s EXCEPT ![w] = Again(txn, w)]
  <2>1. PICK t : t = Again(txn, w)
    OBVIOUS
  <2>2. t \in Txn /\ t.pc \in {"idle", "list"}
    BY <1>1, <2>1, AgainIsFresh
  <2>3. Known(t, files) /\ t.pc \notin Past
    BY <2>2, Fresh
  <2>4. Transactions(txn', files)
    BY <1>3, <1>9, <2>1, <2>2, <2>3, WriterLeaves
  <2> QED
    BY <1>7, <2>4, FilesStay
<1>10. CASE s[w].head = Head(DOMAIN files) /\ txn' = [s EXCEPT ![w] = g]
  <2>1. s[w].source = Latest(files) /\ Visible(files) \subseteq s[w].value
    BY <1>4, <1>10 DEF Known, Reads, Decided
  <2>2. old = Excess(DOMAIN files, Latest(files))
    BY <1>4, <1>5, <2>1
  <2>3. \A q \in old : /\ q \in Nat /\ q \in DOMAIN files /\ q < Head(DOMAIN files)
                       /\ q # Latest(files) /\ Spare(q, files)
    BY <1>1, <2>2, ExcessSpares
  <2>4. /\ g \in Txn /\ g.pc \in {"link", "compact"} /\ g.old = old /\ g.head = s[w].head
        /\ g.source = s[w].source /\ g.value = s[w].value /\ g.temp = s[w].temp
    BY <1>4, <1>6, <2>3 DEF Txn
  <2>5. Known(g, files)
    <3>1. Behind(g, files) /\ Reads(g, files) /\ Wins(g, files) /\ Removes(g, files)
      <4>1. Head(DOMAIN files) \in Nat
        BY <1>1, DirFacts
      <4> QED
        BY <1>10, <2>1, <2>3, <2>4, <4>1 DEF Behind, Reads, Wins, Removes
    <3> QED
      BY <2>4, <3>1 DEF Known, Lists, Published, Confirms
  <2>6. \A u \in Writers : s[u].temp => s[u].head + 1 \notin old
    BY <1>3, <2>3
  <2>7. ASSUME NEW v \in Writers, s[v].pc = "compact" PROVE g.head + 1 \notin s[v].old
    <3>1. Known(s[v], files) /\ s[v] \in Txn
      BY <1>3 DEF Transactions
    <3>2. s[v].head <= Head(DOMAIN files) /\ \A q \in s[v].old : q < s[v].head
      BY <2>7, <3>1 DEF Known, Behind, Removes, Decided
    <3>3. s[v].head \in Nat /\ Head(DOMAIN files) \in Nat
      BY <1>1, <3>1, DirFacts DEF Txn
    <3> QED
      BY <1>10, <2>4, <3>2, <3>3
  <2>8. \A v \in Writers : Fence(g, s[v]) /\ Fence(s[v], g)
    BY <2>4, <2>6, <2>7 DEF Fence
  <2>9. Fence(g, g)
    BY <2>4, <2>6 DEF Fence
  <2>10. Transactions(txn', files)
    BY <1>3, <1>10, <2>4, <2>5, <2>8, <2>9, WriterMoves
  <2> QED
    BY <1>7, <2>10, FilesStay
<1> QED
  BY <1>7, <1>8, <1>9, <1>10

-----------------------------------------------------------------------------
(* Compaction and publication.                                             *)
LEMMA CompactRemoves ==
    ASSUME StoreInv, NEW w \in Writers, Compact(w)
    PROVE  \E gone \in SUBSET txn[w].old :
              /\ Removed(files, files', gone)
              /\ txn' = [txn EXCEPT ![w] = IF gone = txn[w].old
                                           THEN [txn[w] EXCEPT !.pc = "settle", !.old = {}] ELSE Idle]
<1>1. /\ txn \in [Writers -> Txn] /\ DirOK(files) /\ txn[w] \in Txn /\ Known(txn[w], files)
      /\ txn[w].pc = "compact"
  BY DEF StoreInv, Directory, Images, Transactions, Compact
<1>2. PICK gone \in SUBSET txn[w].old :
        /\ files' = Restrict(files, DOMAIN files \ gone)
        /\ txn' = [txn EXCEPT ![w] = IF gone = txn[w].old
                                     THEN [txn[w] EXCEPT !.pc = "settle", !.old = {}] ELSE Idle]
  BY <1>1 DEF Compact
<1>3. Removed(files, files', gone)
  <2>1. /\ txn[w].head <= Head(DOMAIN files)
        /\ \A q \in txn[w].old : q < txn[w].head /\ q # Latest(files) /\ Spare(q, files)
    BY <1>1 DEF Known, Behind, Removes, Decided
  <2>2. txn[w].head \in Nat /\ Head(DOMAIN files) \in Nat /\ \A q \in txn[w].old : q \in Nat
    BY <1>1, DirFacts DEF Txn
  <2>3. Head(DOMAIN files) \notin gone
    BY <2>1, <2>2
  <2> QED
    BY <1>2, <2>1, <2>3 DEF Removed
<1> QED
  BY <1>2, <1>3

LEMMA CompactKeeps ==
    ASSUME StoreInv, NEW w \in Writers, Compact(w)
    PROVE  StoreInv'
<1>1. /\ Directory /\ Transactions(txn, files) /\ txn \in [Writers -> Txn] /\ DirOK(files)
      /\ txn[w] \in Txn /\ Known(txn[w], files) /\ txn[w].pc = "compact"
  BY DEF StoreInv, Directory, Images, Transactions, Compact
<1>2. PICK gone \in SUBSET txn[w].old :
        /\ Removed(files, files', gone)
        /\ txn' = [txn EXCEPT ![w] = IF gone = txn[w].old
                                     THEN [txn[w] EXCEPT !.pc = "settle", !.old = {}] ELSE Idle]
  BY CompactRemoves
<1>3. Removed(files, files', gone)
  BY <1>2
<1>4. UNCHANGED <<disk, promised, named, decayed, crashed>>
  BY DEF Compact
<1>5. Directory'
  BY <1>1, <1>3, <1>4, RemovalKeeps
<1>6. PICK E : E = files'
  OBVIOUS
<1>7. Transactions(txn, E)
  <2>1. ASSUME NEW v \in Writers PROVE Known(txn[v], E)
    <3>1. txn[v] \in Txn /\ Known(txn[v], files) /\ Fence(txn[w], txn[v])
      BY <1>1 DEF Transactions
    <3>2. txn[v].pc \in Past /\ txn[v].temp => txn[v].head + 1 \notin gone
      BY <1>1, <3>1 DEF Fence
    <3>3. Removed(files, E, gone)
      BY <1>3, <1>6
    <3> QED
      BY <1>1, <3>1, <3>2, <3>3, KnownRemoval
  <2> QED
    BY <1>1, <2>1 DEF Transactions
<1>8. Transactions(txn', E)
  <2>1. CASE txn' = [txn EXCEPT ![w] = Idle]
    BY <1>7, <2>1, LeaveKeeps
  <2>2. CASE txn' = [txn EXCEPT ![w] = [txn[w] EXCEPT !.pc = "settle", !.old = {}]]
    <3>1. PICK t : t = [txn[w] EXCEPT !.pc = "settle", !.old = {}]
      OBVIOUS
    <3>2. /\ t \in Txn /\ t.pc = "settle" /\ t.head = txn[w].head /\ t.source = txn[w].source
          /\ t.value = txn[w].value /\ t.temp = txn[w].temp
      BY <1>1, <3>1 DEF Txn
    <3>3. Known(t, E)
      <4>1. Behind(txn[w], E) /\ Reads(txn[w], E) /\ Wins(txn[w], E)
        BY <1>7 DEF Transactions, Known
      <4>2. Behind(t, E) /\ Reads(t, E) /\ Wins(t, E)
        BY <1>1, <3>2, <4>1 DEF Behind, Reads, Wins, Decided, Past
      <4> QED
        BY <3>2, <4>2 DEF Known, Lists, Removes, Published, Confirms
    <3>4. \A v \in Writers : Fence(t, txn[v]) /\ Fence(txn[v], t)
      <4>1. \A v \in Writers : Fence(txn[v], txn[w])
        BY <1>1 DEF Transactions
      <4>2. txn[w].pc \in Past
        BY <1>1 DEF Past
      <4> QED
        BY <3>2, <4>1, <4>2 DEF Fence
    <3>5. Fence(t, t)
      BY <3>2 DEF Fence
    <3> QED
      BY <1>7, <2>2, <3>1, <3>2, <3>3, <3>4, <3>5, WriterMoves
  <2> QED
    BY <1>2, <2>1, <2>2
<1>9. Transactions(txn, files)'
  BY <1>6, <1>8
<1>10. History'
  BY <1>4 DEF StoreInv, History
<1> QED
  BY <1>5, <1>9, <1>10 DEF StoreInv

Publishes(w) ==
    LET t == txn[w]
    IN  /\ t.temp /\ t.head + 1 \notin DOMAIN files
        /\ files' = [r \in DOMAIN files \cup {t.head + 1} |->
                        IF r = t.head + 1 THEN t.value ELSE files[r]]
        /\ txn' = [txn EXCEPT ![w] = [Idle EXCEPT !.pc = "sync", !.task = t.task,
                                         !.head = t.head, !.value = t.value]]

(* Whoever wins the race for a name has seen everything before it.         *)
LEMMA LinkExtends ==
    ASSUME StoreInv, NEW w \in Writers, txn[w].pc = "link", Publishes(w)
    PROVE  /\ txn[w].head = Head(DOMAIN files) /\ txn[w].value \in Values
           /\ Visible(files) \subseteq txn[w].value
           /\ Extended(files, files', txn[w].value)
<1>1. txn[w] \in Txn /\ Known(txn[w], files)
  BY DEF StoreInv, Transactions
<1>2. txn[w].head = Head(DOMAIN files)
  BY <1>1 DEF Known, Wins, Past, Publishes
<1>3. Visible(files) \subseteq txn[w].value
  BY <1>1, <1>2 DEF Known, Reads, Decided
<1>4. Extended(files, files', txn[w].value)
  BY <1>2 DEF Extended, After, Publishes
<1>5. txn[w].value \in Values
  BY <1>1 DEF Txn
<1> QED
  BY <1>2, <1>3, <1>4, <1>5

LEMMA LinkKeeps ==
    ASSUME StoreInv, NEW w \in Writers, Link(w)
    PROVE  StoreInv'
<1>1. /\ Directory /\ Transactions(txn, files) /\ txn \in [Writers -> Txn] /\ DirOK(files)
      /\ txn[w] \in Txn /\ Known(txn[w], files) /\ txn[w].pc = "link"
  BY DEF StoreInv, Directory, Images, Transactions, Link
<1>2. UNCHANGED <<disk, promised, named, decayed, crashed>>
  BY DEF Link
<1>3. CASE Leave(w) /\ files' = files
  BY <1>2, <1>3, LeavingKeeps
<1>4. CASE txn' = [txn EXCEPT ![w] = Again(txn, w)] /\ files' = files
  <2>1. PICK t : t = Again(txn, w)
    OBVIOUS
  <2>2. t \in Txn /\ t.pc \in {"idle", "list"}
    BY <1>1, <2>1, AgainIsFresh
  <2>3. Known(t, files) /\ t.pc \notin Past
    BY <2>2, Fresh
  <2>4. Transactions(txn', files)
    BY <1>1, <1>4, <2>1, <2>2, <2>3, WriterLeaves
  <2> QED
    BY <1>2, <1>4, <2>4, FilesStay
<1>5. CASE Publishes(w)
  <2>1. /\ txn[w].head = Head(DOMAIN files) /\ txn[w].value \in Values
        /\ Visible(files) \subseteq txn[w].value /\ Extended(files, files', txn[w].value)
    BY <1>1, <1>5, LinkExtends
  <2>2. txn' = [txn EXCEPT ![w] = [Idle EXCEPT !.pc = "sync", !.task = txn[w].task,
                                       !.head = txn[w].head, !.value = txn[w].value]]
    BY <1>5 DEF Publishes
  <2>3. PICK v : v = txn[w].value
    OBVIOUS
  <2>4. v \in Values /\ Visible(files) \subseteq v /\ txn[w].head \in Nat /\ txn[w].task \in Tasks
    BY <1>1, <2>1, <2>3 DEF Txn
  <2>5. PICK E : E = files'
    OBVIOUS
  <2>6. Extended(files, E, v) /\ Extended(files, files', v)
    BY <2>1, <2>3, <2>5
  <2>7. Directory'
    BY <1>1, <1>2, <2>4, <2>6, PublicationKeeps
  <2>8. Transactions(txn, E)
    <3>1. \A u \in Writers : Known(txn[u], E)
      BY <1>1, <2>4, <2>6, KnownPublication DEF Transactions
    <3> QED
      BY <1>1, <3>1 DEF Transactions
  <2>9. PICK t : t = [Idle EXCEPT !.pc = "sync", !.task = txn[w].task, !.head = txn[w].head,
                                  !.value = txn[w].value]
    OBVIOUS
  <2>10. t \in Txn /\ t.pc = "sync" /\ t.head = txn[w].head /\ t.value = v
    BY <2>3, <2>4, <2>9, IdleIsFresh DEF Txn
  <2>11. Known(t, E) /\ t.pc \notin Past
    <3>1. PICK n : n = After(files)
      OBVIOUS
    <3>2. Grown(files, E, v, n)
      BY <1>1, <2>4, <2>6, <3>1, ExtendedIs
    <3>3. Published(t, E)
      BY <2>1, <2>10, <3>2 DEF Published, Grown
    <3> QED
      BY <2>10, <3>3 DEF Known, Behind, Lists, Reads, Wins, Removes, Confirms, Past, Decided
  <2>12. Transactions(txn', E)
    BY <2>2, <2>8, <2>9, <2>10, <2>11, WriterLeaves
  <2>13. Transactions(txn, files)'
    BY <2>5, <2>12
  <2>14. History'
    BY <1>2 DEF StoreInv, History
  <2> QED
    BY <2>7, <2>13, <2>14 DEF StoreInv
<1> QED
  BY <1>3, <1>4, <1>5 DEF Link, Publishes

-----------------------------------------------------------------------------
(* Answers.                                                                *)
LEMMA UncertainKeeps ==
    ASSUME StoreInv, NEW w \in Writers, NEW revision \in Nat, Uncertain(w, revision),
           UNCHANGED <<files, disk, promised, named, decayed, crashed>>
    PROVE  StoreInv'
<1>1. Transactions(txn, files) /\ txn[w] \in Txn
  BY DEF StoreInv, Transactions
<1>2. CASE Leave(w)
  BY <1>2, LeavingKeeps
<1>3. CASE txn' = [txn EXCEPT ![w] = [Idle EXCEPT !.pc = "list", !.task = txn[w].task, !.exact = revision]]
  <2>1. PICK t : t = [Idle EXCEPT !.pc = "list", !.task = txn[w].task, !.exact = revision]
    OBVIOUS
  <2>2. txn[w].task \in Tasks
    BY <1>1 DEF Txn
  <2>3. t \in Txn /\ t.pc = "list"
    BY <2>1, <2>2, IdleIsFresh DEF Txn
  <2>4. Known(t, files) /\ t.pc \notin Past
    BY <2>3, Fresh
  <2>5. Transactions(txn', files)
    BY <1>1, <1>3, <2>1, <2>3, <2>4, WriterLeaves
  <2> QED
    BY <2>5, FilesStay
<1> QED
  BY <1>2, <1>3 DEF Uncertain

LEMMA TellingKeeps ==
    ASSUME StoreInv, NEW w \in Writers, Leave(w), files' = files, disk' = files,
           UNCHANGED <<decayed, crashed>>, NEW revision \in Nat, NEW value \in Values,
           revision <= Head(DOMAIN files), revision \in DOMAIN files => files[revision] = value,
           value \subseteq Visible(files), Tell(revision, value)
    PROVE  StoreInv'
<1>1. Directory /\ Transactions(txn, files) /\ History
  BY DEF StoreInv
<1>2. promised' = promised \cup value
  BY DEF Tell
<1>3. named' = Receipt(revision, value) \/ named' = named
  BY DEF Tell
<1>4. /\ promised \subseteq Visible(files)
      /\ named.revision \in Nat /\ named.revision <= Head(DOMAIN files)
      /\ named.revision \in DOMAIN files => files[named.revision] \in {named.value, Torn}
  BY <1>1, ToldIsVisible
<1>5. /\ named' \in [revision : Nat, value : Values]
      /\ named'.revision \in Nat /\ named'.revision <= Head(DOMAIN files)
      /\ named'.revision \in DOMAIN files => files[named'.revision] \in {named'.value, Torn}
  BY <1>1, <1>3, <1>4 DEF Receipt, History
<1>6. Directory'
  <2>1. promised' \subseteq Visible(files) /\ decayed' = decayed
    BY <1>2, <1>4
  <2> QED
    BY <1>1, <1>5, <2>1, Synced
<1>7. Transactions(txn, files)'
  <2>1. Transactions(txn', files)
    BY <1>1, LeaveKeeps DEF Leave
  <2> QED
    BY <2>1
<1>8. History'
  <2>1. promised' \in Values
    BY <1>1, <1>2 DEF History, Values
  <2> QED
    BY <1>1, <1>5, <2>1 DEF History
<1> QED
  BY <1>6, <1>7, <1>8 DEF StoreInv

LEMMA SyncKeeps ==
    ASSUME StoreInv, NEW w \in Writers, Sync(w)
    PROVE  StoreInv'
<1>1. txn[w] \in Txn /\ Known(txn[w], files) /\ txn[w].pc = "sync"
  BY DEF StoreInv, Transactions, Sync
<1>2. PICK revision : revision = txn[w].head + 1
  OBVIOUS
<1>3. PICK value : value = txn[w].value
  OBVIOUS
<1>4. revision \in Nat /\ value \in Values
  BY <1>1, <1>2, <1>3 DEF Txn
<1>5. /\ revision <= Head(DOMAIN files) /\ value \subseteq Visible(files)
      /\ revision \in DOMAIN files => files[revision] = value
  BY <1>1, <1>2, <1>3 DEF Known, Published
<1>6. CASE disk' = files /\ Tell(revision, value) /\ Leave(w)
  BY <1>4, <1>5, <1>6, TellingKeeps DEF Sync
<1>7. CASE Uncertain(w, revision) /\ UNCHANGED <<disk, promised, named>>
  BY <1>4, <1>7, UncertainKeeps DEF Sync
<1> QED
  BY <1>2, <1>3, <1>6, <1>7 DEF Sync

LEMMA ConfirmKeeps ==
    ASSUME StoreInv, NEW w \in Writers, Confirm(w)
    PROVE  StoreInv'
<1>1. txn[w] \in Txn /\ Known(txn[w], files) /\ txn[w].pc = "confirm"
  BY DEF StoreInv, Transactions, Confirm
<1>2. PICK revision : revision = txn[w].source
  OBVIOUS
<1>3. PICK value : value = txn[w].value
  OBVIOUS
<1>4. revision \in Nat /\ value \in Values
  BY <1>1, <1>2, <1>3 DEF Txn
<1>5. /\ revision <= Head(DOMAIN files) /\ value \subseteq Visible(files)
      /\ revision \in DOMAIN files => files[revision] = value
  BY <1>1, <1>2, <1>3 DEF Known, Confirms
<1>6. CASE disk' = files /\ Tell(revision, value) /\ Leave(w)
  BY <1>4, <1>5, <1>6, TellingKeeps DEF Confirm
<1>7. CASE Uncertain(w, revision) /\ UNCHANGED <<disk, promised, named>>
  BY <1>4, <1>7, UncertainKeeps DEF Confirm
<1>8. CASE disk' = files /\ UNCHANGED <<promised, named>> /\ Leave(w)
  BY <1>8, LeavingKeeps DEF Confirm
<1> QED
  BY <1>2, <1>3, <1>6, <1>7, <1>8 DEF Confirm

-----------------------------------------------------------------------------
(* Faults.  After them the two images are one.                             *)
LEMMA Mirrored ==
    ASSUME DirOK(files'), disk' = files'
    PROVE  /\ Images' /\ Backed' /\ All' = DOMAIN files'
           /\ \A r \in DOMAIN files' : Both(r)' = files'[r]
<1>1. /\ Head(DOMAIN files') \in Nat /\ Head(DOMAIN files') \in DOMAIN files' \cup {0}
      /\ Latest(files') \in Nat /\ Latest(files') \in DOMAIN files' \cup {0}
  <2>1. PICK E : E = files'
    OBVIOUS
  <2>2. /\ Head(DOMAIN E) \in Nat /\ Head(DOMAIN E) \in DOMAIN E \cup {0}
        /\ Latest(E) \in Nat /\ Latest(E) \in DOMAIN E \cup {0}
    BY <2>1, DirFacts DEF Valid
  <2> QED
    BY <2>1, <2>2
<1>2. Images'
  BY <1>1 DEF Images
<1>3. Backed'
  BY <1>1 DEF Backed
<1> QED
  BY <1>2, <1>3 DEF All, Both

(* What a crash needs: the newest revisions of the disk are still there.   *)
LEMMA TopIsThere ==
    ASSUME Directory, Cardinality(DOMAIN files \ DOMAIN disk) + decayed < RETENTION - 1
    PROVE  /\ Latest(disk) \in DOMAIN files \cup {0}
           /\ Head(DOMAIN disk) \in DOMAIN files \cup {0}
<1> DEFINE U == DOMAIN files \ DOMAIN disk
           T == {r \in All : Both(r) = Torn}
<1>1. Images /\ TornFew /\ Backed /\ DirOK(files) /\ DirOK(disk)
  BY DEF Directory, Images
<1>2. IsFiniteSet(DOMAIN files) /\ IsFiniteSet(T) /\ Cardinality(T) <= decayed /\ decayed \in Nat
  BY <1>1 DEF DirOK, TornFew
<1>3. IsFiniteSet(U) /\ RETENTION \in Nat
  <2>1. U \in SUBSET DOMAIN files
    OBVIOUS
  <2> QED
    BY <1>2, <2>1, FS_Subset, Retention
<1>4. Cardinality(U) \in Nat /\ Cardinality(T) \in Nat
  BY <1>2, <1>3, FS_CardinalityType
<1>5. Cardinality(U) + decayed < RETENTION - 1
  OBVIOUS
<1>6. /\ Head(DOMAIN disk) \in Nat /\ Head(DOMAIN disk) \in DOMAIN disk \cup {0}
      /\ \A r \in DOMAIN disk : r \in Nat \ {0} /\ r <= Head(DOMAIN disk)
      /\ Latest(disk) \in Nat /\ Latest(disk) \in Valid(disk) \cup {0}
      /\ \A r \in Valid(disk) : r <= Latest(disk) /\ r \in DOMAIN disk /\ disk[r] # Torn
      /\ \A r \in DOMAIN disk : disk[r] # Torn => r \in Valid(disk)
  BY <1>1, DirFacts DEF Valid
<1>7. \A r \in DOMAIN files : r \in Nat
  BY <1>1 DEF DirOK
<1>8. Latest(disk) \in DOMAIN files \cup {0}
  <2> SUFFICES ASSUME Latest(disk) \notin DOMAIN files \cup {0} PROVE FALSE
    OBVIOUS
  <2> DEFINE N == {x \in DOMAIN files : x > Latest(disk)}
  <2>1. Newer(Latest(disk), DOMAIN files) >= RETENTION - 1
    BY <1>1 DEF Backed
  <2>2. IsFiniteSet(N) /\ Cardinality(N) = Newer(Latest(disk), DOMAIN files)
    BY <1>2, NewerCounts
  <2>3. N \in SUBSET (U \cup T)
    <3> SUFFICES ASSUME NEW x \in N, x \in DOMAIN disk PROVE x \in T
      OBVIOUS
    <3>1. disk[x] = files[x] /\ x \in DOMAIN files /\ x > Latest(disk)
      BY <1>1 DEF Images
    <3>2. disk[x] = Torn
      BY <1>6, <1>7, <3>1
    <3> QED
      BY <3>1, <3>2 DEF All, Both
  <2> HIDE DEF U, T, N
  <2>4. IsFiniteSet(U \cup T) /\ IsFiniteSet(U \cap T)
    <3>1. U \cap T \in SUBSET U
      OBVIOUS
    <3>2. IsFiniteSet(U \cup T)
      BY <1>2, <1>3, FS_Union
    <3> QED
      BY <1>3, <3>1, <3>2, FS_Subset
  <2>5. Cardinality(U \cup T) = Cardinality(U) + Cardinality(T) - Cardinality(U \cap T)
    BY <1>2, <1>3, FS_Union
  <2>6. Cardinality(N) <= Cardinality(U \cup T)
    BY <2>3, <2>4, FS_Subset
  <2>7. Cardinality(U \cap T) \in Nat /\ Cardinality(N) \in Nat /\ Cardinality(U \cup T) \in Nat
    BY <2>2, <2>4, FS_CardinalityType
  <2>8. Cardinality(U) + decayed < RETENTION - 1 /\ Cardinality(N) >= RETENTION - 1
    BY <1>5, <2>1, <2>2
  <2> QED
    BY <1>2, <1>3, <1>4, <2>5, <2>6, <2>7, <2>8
<1>9. Head(DOMAIN disk) \in DOMAIN files \cup {0}
  <2> SUFFICES ASSUME Head(DOMAIN disk) \notin DOMAIN files \cup {0} PROVE FALSE
    OBVIOUS
  <2> DEFINE N == {x \in DOMAIN files : x > Head(DOMAIN disk)}
  <2>1. Newer(Head(DOMAIN disk), DOMAIN files) >= RETENTION - 2
    BY <1>1 DEF Backed
  <2>2. IsFiniteSet(N) /\ Cardinality(N) = Newer(Head(DOMAIN disk), DOMAIN files)
    BY <1>2, NewerCounts
  <2>3. N \in SUBSET U
    BY <1>6, <1>7
  <2>4. Head(DOMAIN disk) \in DOMAIN disk /\ Head(DOMAIN disk) \in All
        /\ Both(Head(DOMAIN disk)) = disk[Head(DOMAIN disk)]
    BY <1>6 DEF All, Both
  <2>5. T # {}
    <3>1. CASE disk[Head(DOMAIN disk)] = Torn
      BY <2>4, <3>1
    <3>2. CASE disk[Head(DOMAIN disk)] # Torn
      <4>1. Head(DOMAIN disk) <= Latest(disk) /\ Latest(disk) <= Head(DOMAIN disk)
        BY <1>6, <2>4, <3>2
      <4>2. Latest(disk) = Head(DOMAIN disk)
        BY <1>6, <4>1
      <4> QED
        BY <1>8, <4>2
    <3> QED
      BY <3>1, <3>2
  <2> HIDE DEF U, T, N
  <2>6. Cardinality(T) # 0
    BY <1>2, <2>5, FS_EmptySet
  <2>7. Cardinality(N) <= Cardinality(U) /\ Cardinality(N) \in Nat
    BY <1>3, <2>2, <2>3, FS_Subset, FS_CardinalityType
  <2>8. Cardinality(U) + decayed < RETENTION - 1 /\ Cardinality(N) >= RETENTION - 2
    BY <1>5, <2>1, <2>2
  <2> QED
    BY <1>2, <1>3, <1>4, <2>6, <2>7, <2>8
<1> QED
  BY <1>8, <1>9

LEMMA CrashKeeps ==
    ASSUME StoreInv, Crash
    PROVE  StoreInv'
<1>1. Directory /\ Images /\ Chain /\ TornFew /\ Told /\ DirOK(files) /\ DirOK(disk) /\ History
  BY DEF StoreInv, Directory, Images
<1>2. PICK kept \in SUBSET (DOMAIN files \cup DOMAIN disk) :
        /\ DOMAIN files \cap DOMAIN disk \subseteq kept
        /\ files' = [r \in kept |-> IF r \in DOMAIN files THEN files[r] ELSE disk[r]]
        /\ disk' = files'
  BY DEF Crash
<1>3. /\ promised' = promised /\ named' = named /\ decayed' = decayed /\ crashed' = crashed + 1
      /\ decayed + crashed < Faults /\ txn' = [w \in Writers |-> Idle]
  BY DEF Crash
<1>4. Latest(disk) \in DOMAIN files \cup {0} /\ Head(DOMAIN disk) \in DOMAIN files \cup {0}
  BY <1>1, TopIsThere DEF Crash
<1>5. /\ Head(DOMAIN disk) \in Nat /\ Head(DOMAIN disk) \in DOMAIN disk \cup {0}
      /\ Latest(disk) \in Nat /\ Latest(disk) \in Valid(disk) \cup {0}
      /\ Visible(disk) = IF Latest(disk) = 0 THEN {} ELSE disk[Latest(disk)]
  BY <1>1, DirFacts
<1>6. DOMAIN files' = kept /\ kept \subseteq All /\ \A r \in kept : files'[r] = Both(r)
  BY <1>2 DEF All, Both
<1>7. DirOK(files')
  <2>1. IsFiniteSet(DOMAIN files \cup DOMAIN disk)
    BY <1>1, FS_Union DEF DirOK
  <2>2. IsFiniteSet(kept)
    BY <2>1, FS_Subset
  <2>3. kept \subseteq Nat \ {0} /\ \A r \in kept : files'[r] \in Values \cup {Torn}
    BY <1>1, <1>6 DEF DirOK, All, Both
  <2> QED
    BY <1>6, <2>2, <2>3 DEF DirOK
<1>8. /\ Images' /\ Backed' /\ All' = kept /\ \A r \in kept : Both(r)' = Both(r)
  BY <1>2, <1>6, <1>7, Mirrored
<1>9. Chain'
  BY <1>1, <1>6, <1>8 DEF Chain
<1>10. TornFew'
  <2> DEFINE T == {r \in All : Both(r) = Torn}
             U == {r \in All' : Both(r)' = Torn}
  <2>1. U \in SUBSET T
    BY <1>6, <1>8
  <2>2. IsFiniteSet(T) /\ Cardinality(T) <= decayed /\ decayed \in Nat
    BY <1>1 DEF TornFew
  <2> HIDE DEF T, U
  <2>3. IsFiniteSet(U) /\ Cardinality(U) <= Cardinality(T) /\ Cardinality(U) \in Nat /\ Cardinality(T) \in Nat
    BY <2>1, <2>2, FS_Subset, FS_CardinalityType
  <2>4. IsFiniteSet(U) /\ Cardinality(U) <= decayed'
    BY <1>3, <2>2, <2>3
  <2> QED
    BY <1>3, <2>2, <2>4 DEF TornFew, U
<1>11. Told'
  <2>1. PICK E : E = files'
    OBVIOUS
  <2>2. /\ Head(DOMAIN E) \in Nat /\ Latest(E) \in Nat /\ Latest(E) \in Valid(E) \cup {0}
        /\ \A r \in DOMAIN E : r \in Nat \ {0} /\ r <= Head(DOMAIN E)
        /\ \A r \in Valid(E) : r <= Latest(E)
        /\ Visible(E) = IF Latest(E) = 0 THEN {} ELSE E[Latest(E)]
    BY <1>7, <2>1, DirFacts
  <2>3. Head(DOMAIN disk) <= Head(DOMAIN E)
    <3>1. Head(DOMAIN disk) \in kept \cup {0}
      BY <1>2, <1>4, <1>5
    <3> QED
      BY <1>6, <2>1, <2>2, <3>1
  <2>4. Visible(disk) \subseteq Visible(E)
    <3> SUFFICES ASSUME Latest(disk) # 0 PROVE disk[Latest(disk)] \subseteq Visible(E)
      BY <1>5
    <3>1. Latest(disk) \in DOMAIN disk /\ Latest(disk) \in DOMAIN files /\ disk[Latest(disk)] # Torn
      BY <1>4, <1>5 DEF Valid
    <3>2. Latest(disk) \in kept /\ Both(Latest(disk)) = disk[Latest(disk)]
      BY <1>1, <1>2, <3>1 DEF Images, Both
    <3>3. Latest(disk) \in Valid(E)
      BY <1>6, <2>1, <3>1, <3>2 DEF Valid
    <3>4. Latest(disk) <= Latest(E) /\ Latest(E) # 0
      BY <1>5, <2>2, <3>3
    <3>5. Latest(E) \in kept /\ E[Latest(E)] # Torn /\ E[Latest(E)] = Both(Latest(E))
      BY <1>6, <2>1, <2>2, <3>4 DEF Valid
    <3>6. Both(Latest(disk)) \subseteq Both(Latest(E))
      BY <1>1, <1>6, <3>1, <3>2, <3>4, <3>5 DEF Chain
    <3> QED
      BY <2>2, <3>2, <3>4, <3>5, <3>6
  <2>5. promised \subseteq Visible(E) /\ named.revision \in Nat /\ named.revision <= Head(DOMAIN E)
    <3>1. promised \subseteq Visible(disk) /\ named.revision \in Nat /\ named.revision <= Head(DOMAIN disk)
      BY <1>1 DEF Told
    <3> QED
      BY <1>5, <2>2, <2>3, <2>4, <3>1
  <2>6. named.revision \in kept => Both(named.revision) \in {named.value, Torn}
    BY <1>1, <1>6 DEF Told
  <2>7. disk' = E
    BY <1>2, <2>1
  <2>8. named.revision \in All' => Both(named.revision)' \in {named.value, Torn}
    <3>1. PICK r : r = named.revision
      OBVIOUS
    <3>2. r' = r /\ named.revision' = r
      BY <1>3, <3>1
    <3> QED
      BY <1>3, <1>8, <2>6, <3>1, <3>2
  <2> QED
    BY <1>3, <2>5, <2>7, <2>8 DEF Told
<1>12. Transactions(txn, files)'
  <2>1. PICK E : E = files'
    OBVIOUS
  <2>2. Idle \in Txn /\ Known(Idle, E) /\ Idle.pc \notin Past
    BY IdleIsFresh, Fresh
  <2>3. txn' \in [Writers -> Txn] /\ \A w \in Writers : txn'[w] = Idle
    BY <1>3, <2>2
  <2>4. Fence(Idle, Idle)
    BY <2>2 DEF Fence
  <2>5. Transactions(txn', E)
    BY <2>2, <2>3, <2>4 DEF Transactions
  <2> QED
    BY <2>1, <2>5
<1>13. History'
  BY <1>1, <1>3, Retention DEF History
<1> QED
  BY <1>8, <1>9, <1>10, <1>11, <1>12, <1>13 DEF StoreInv, Directory

LEMMA DecayKeeps ==
    ASSUME StoreInv, NEW r \in DOMAIN files, Decay(r)
    PROVE  StoreInv'
<1>1. Directory /\ Images /\ Chain /\ TornFew /\ Told /\ DirOK(files) /\ History /\ Transactions(txn, files)
  BY DEF StoreInv, Directory, Images
<1>2. /\ disk = files /\ files[r] # Torn /\ files' = [files EXCEPT ![r] = Torn] /\ disk' = files'
      /\ promised' = promised \cap Visible(files') /\ named' = named /\ decayed' = decayed + 1
      /\ txn' = txn /\ crashed' = crashed /\ decayed + crashed < Faults
      /\ \A w \in Writers : txn[w].pc = "idle"
  BY DEF Decay
<1>3. /\ DOMAIN files' = DOMAIN files /\ files'[r] = Torn
      /\ \A q \in DOMAIN files : q # r => files'[q] = files[q]
  BY <1>2
<1>4. DirOK(files')
  BY <1>1, <1>3 DEF DirOK
<1>5. Images' /\ Backed' /\ All' = DOMAIN files /\ \A q \in DOMAIN files : Both(q)' = files'[q]
  BY <1>2, <1>3, <1>4, Mirrored
<1>6. All = DOMAIN files /\ \A q \in DOMAIN files : Both(q) = files[q]
  BY <1>2 DEF All, Both
<1>7. Chain'
  BY <1>1, <1>3, <1>5, <1>6 DEF Chain
<1>8. TornFew'
  <2> DEFINE T == {q \in All : Both(q) = Torn}
             U == {q \in All' : Both(q)' = Torn}
  <2>1. U = T \cup {r} /\ r \notin T
    BY <1>2, <1>3, <1>5, <1>6
  <2>2. IsFiniteSet(T) /\ Cardinality(T) <= decayed /\ decayed \in Nat
    BY <1>1 DEF TornFew
  <2> HIDE DEF T, U
  <2>3. IsFiniteSet(T \cup {r}) /\ Cardinality(T \cup {r}) = Cardinality(T) + 1 /\ Cardinality(T) \in Nat
    BY <2>1, <2>2, FS_AddElement, FS_CardinalityType
  <2>4. IsFiniteSet(U) /\ Cardinality(U) <= decayed' /\ decayed' \in Nat
    BY <1>2, <2>1, <2>2, <2>3
  <2> QED
    BY <2>4 DEF TornFew, U
<1>9. Told'
  <2>1. promised' \subseteq Visible(files') /\ Head(DOMAIN files') = Head(DOMAIN disk)
    BY <1>2, <1>3
  <2>2. /\ named.revision \in Nat /\ named.revision <= Head(DOMAIN disk)
        /\ named.revision \in All => Both(named.revision) \in {named.value, Torn}
    BY <1>1 DEF Told
  <2>3. named.revision \in All' => Both(named.revision)' \in {named.value, Torn}
    <3>1. PICK q : q = named.revision
      OBVIOUS
    <3>2. q \in All' => Both(q)' \in {named.value, Torn}
      BY <1>3, <1>5, <1>6, <2>2, <3>1
    <3>3. named'.revision = q
      BY <1>2, <3>1
    <3> QED
      BY <3>1, <3>2, <3>3
  <2> QED
    BY <1>2, <2>1, <2>2, <2>3 DEF Told
<1>10. Transactions(txn, files)'
  <2>1. PICK E : E = files'
    OBVIOUS
  <2>2. \A w \in Writers : Known(txn[w], E)
    BY <1>2, Fresh
  <2>3. Transactions(txn, E)
    BY <1>1, <2>2 DEF Transactions
  <2> QED
    BY <1>2, <2>1, <2>3
<1>11. History'
  <2>1. promised' \in Values
    BY <1>1, <1>2 DEF History, Values
  <2> QED
    BY <1>1, <1>2, <2>1, Retention DEF History
<1> QED
  BY <1>5, <1>7, <1>8, <1>9, <1>10, <1>11 DEF StoreInv, Directory

-----------------------------------------------------------------------------
(* The theorems.                                                           *)
LEMMA InitInv == Init => StoreInv
<1> SUFFICES ASSUME Init PROVE StoreInv
  OBVIOUS
<1>1. /\ DOMAIN files = {} /\ DOMAIN disk = {} /\ promised = {} /\ decayed = 0 /\ crashed = 0
      /\ named = [revision |-> 0, value |-> {}] /\ txn = [w \in Writers |-> Idle]
  BY DEF Init, Receipt
<1>2. DirOK(files) /\ DirOK(disk) /\ Valid(files) = {} /\ Valid(disk) = {}
  BY <1>1, FS_EmptySet DEF DirOK, Valid
<1>3. Head({}) = 0
  BY DEF Head
<1>4. Latest(files) = 0 /\ Latest(disk) = 0 /\ Head(DOMAIN files) = 0 /\ Head(DOMAIN disk) = 0
  BY <1>1, <1>2, <1>3 DEF Latest
<1>5. All = {}
  BY <1>1 DEF All
<1>6. TornFew
  <2> DEFINE T == {r \in All : Both(r) = Torn}
  <2>1. T = {}
    BY <1>5
  <2> HIDE DEF T
  <2>2. IsFiniteSet(T) /\ Cardinality(T) = 0
    BY <2>1, FS_EmptySet
  <2>3. IsFiniteSet(T) /\ Cardinality(T) <= decayed /\ decayed \in Nat
    BY <1>1, <2>2
  <2> QED
    BY <2>3 DEF TornFew, T
<1>7. Images /\ Chain /\ Backed /\ Told
  <2>1. Images /\ Chain
    BY <1>1, <1>2, <1>4, <1>5 DEF Images, Chain
  <2> QED
    BY <1>1, <1>4, <1>5, <2>1 DEF Backed, Told
<1>8. Transactions(txn, files)
  <2>1. Idle \in Txn /\ Known(Idle, files) /\ Idle.pc \notin Past
    BY IdleIsFresh, Fresh
  <2>2. txn \in [Writers -> Txn] /\ \A w \in Writers : txn[w] = Idle
    BY <1>1, <2>1
  <2>3. Fence(Idle, Idle)
    BY <2>1 DEF Fence
  <2> QED
    BY <2>1, <2>2, <2>3 DEF Transactions
<1>9. History
  BY <1>1, Retention DEF History
<1> QED
  BY <1>6, <1>7, <1>8, <1>9 DEF StoreInv, Directory

LEMMA NextInv == StoreInv /\ [Next]_vars => StoreInv'
<1> SUFFICES ASSUME StoreInv, [Next]_vars PROVE StoreInv'
  OBVIOUS
<1>1. CASE UNCHANGED vars
  BY <1>1 DEF vars, StoreInv, Directory, Images, Chain, TornFew, Backed, Told, All, Both, History
<1>2. ASSUME NEW w \in Writers, Step(w) PROVE StoreInv'
  BY <1>2, ListKeeps, ReadKeeps, StageKeeps, CheckKeeps, CompactKeeps, SettleKeeps, LinkKeeps,
     SyncKeeps, ConfirmKeeps DEF Step
<1>3. ASSUME NEW w \in Writers, Die(w) PROVE StoreInv'
  BY <1>3, LeavingKeeps DEF Die
<1>4. ASSUME NEW w \in Writers, NEW task \in Tasks, Begin(w, task) PROVE StoreInv'
  BY <1>4, BeginKeeps
<1>5. CASE Crash
  BY <1>5, CrashKeeps
<1>6. ASSUME NEW r \in DOMAIN files, Decay(r) PROVE StoreInv'
  BY <1>6, DecayKeeps
<1> QED
  BY <1>1, <1>2, <1>3, <1>4, <1>5, <1>6 DEF Next

(* The two images of the directory and what every transaction knows of it  *)
(* stay consistent through every step, crash and decay of store.rs.        *)
THEOREM StoreInvariant == Spec => []StoreInv
<1> QED
  BY InitInv, NextInv, PTL DEF Spec

LEMMA InvTypes == StoreInv => TypeOK
<1> SUFFICES ASSUME StoreInv PROVE TypeOK
  OBVIOUS
<1>1. DirOK(files) /\ DirOK(disk) /\ History /\ txn \in [Writers -> Txn]
  BY DEF StoreInv, Directory, Images, Transactions
<1>2. Range(files) \subseteq Values \cup {Torn} /\ Range(disk) \subseteq Values \cup {Torn}
  BY <1>1 DEF DirOK, Range
<1>3. \A t \in Txn : t \in [pc : {"idle", "list", "read", "stage", "check", "compact",
                                  "settle", "link", "sync", "confirm"},
                            task : Tasks, tries : 0 .. ATTEMPTS, listed : SUBSET Nat,
                            head : Nat, source : Nat, value : Values,
                            temp : BOOLEAN, old : SUBSET Nat, exact : Nat]
  <2>1. 0 .. (ATTEMPTS - 1) \subseteq 0 .. ATTEMPTS
    BY Retention
  <2> QED
    BY <2>1 DEF Txn
<1> QED
  BY <1>1, <1>2, <1>3 DEF TypeOK, DirOK, History

(* Every variable of the store keeps its type.                             *)
THEOREM StoreTypeCorrect == Spec => []TypeOK
<1> QED
  BY StoreInvariant, InvTypes, PTL

(* Nothing a durable answer told is lost: not to a concurrent transaction, *)
(* a freed revision name or a crash.                                       *)
THEOREM PromisesAlwaysSurvive == Spec => []PromisesSurvive
<1>1. StoreInv => PromisesSurvive
  BY ToldIsVisible DEF StoreInv, PromisesSurvive
<1> QED
  BY <1>1, StoreInvariant, PTL

(* The revision number of a durable receipt is never given to another      *)
(* value.                                                                  *)
THEOREM ReceiptsAlwaysExact == Spec => []ReceiptsAreExact
<1>1. StoreInv => ReceiptsAreExact
  BY ToldIsVisible DEF StoreInv, ReceiptsAreExact
<1> QED
  BY <1>1, StoreInvariant, PTL

LEMMA ValueGrows ==
    ASSUME StoreInv, [Next]_vars
    PROVE  [Crash \/ decayed' # decayed \/ Visible(files) \subseteq Visible(files')]_vars
<1>1. DirOK(files) /\ decayed \in Nat
  BY DEF StoreInv, Directory, Images, History
<1>2. CASE files' = files
  BY <1>2
<1>3. ASSUME NEW w \in Writers, Compact(w) PROVE Visible(files) \subseteq Visible(files')
  <2>1. PICK gone : Removed(files, files', gone)
    BY <1>3, CompactRemoves
  <2>2. PICK E : E = files'
    OBVIOUS
  <2>3. Removed(files, E, gone)
    BY <2>1, <2>2
  <2>4. Visible(E) = Visible(files)
    BY <1>1, <2>3, RemovedIs
  <2> QED
    BY <2>2, <2>4
<1>4. ASSUME NEW w \in Writers, Link(w) PROVE Visible(files) \subseteq Visible(files')
  <2>1. CASE Publishes(w)
    <3>1. PICK v : v = txn[w].value
      OBVIOUS
    <3>2. PICK E : E = files'
      OBVIOUS
    <3>3. v \in Values /\ Visible(files) \subseteq v /\ Extended(files, E, v)
      BY <1>4, <2>1, <3>1, <3>2, LinkExtends DEF Link
    <3>4. Visible(E) = v
      BY <1>1, <3>3, ExtendedIs DEF Grown
    <3> QED
      BY <3>2, <3>3, <3>4
  <2>2. CASE files' = files
    BY <2>2
  <2> QED
    BY <1>4, <2>1, <2>2 DEF Link, Publishes
<1>5. ASSUME NEW w \in Writers, Step(w) PROVE Visible(files) \subseteq Visible(files')
  <2>1. CASE Compact(w)
    BY <1>3, <2>1
  <2>2. CASE Link(w)
    BY <1>4, <2>2
  <2>3. CASE List(w) \/ Read(w) \/ Stage(w) \/ Check(w) \/ Settle(w) \/ Sync(w) \/ Confirm(w)
    <3>1. files' = files
      BY <2>3 DEF List, Read, Stage, Check, Settle, Sync, Confirm
    <3> QED
      BY <3>1
  <2> QED
    BY <1>5, <2>1, <2>2, <2>3 DEF Step
<1>6. ASSUME NEW r \in DOMAIN files, Decay(r) PROVE decayed' # decayed
  BY <1>1, <1>6 DEF Decay
<1>7. ASSUME NEW w \in Writers, Die(w) \/ \E task \in Tasks : Begin(w, task) PROVE files' = files
  BY <1>7 DEF Die, Begin
<1>8. CASE Next
  BY <1>2, <1>5, <1>6, <1>7, <1>8 DEF Next
<1> QED
  BY <1>8

(* No compaction, publication or sweep makes the value readers see go      *)
(* back.                                                                   *)
THEOREM VisibleAlwaysGrows == Spec => VisibleGrows
<1>1. StoreInv /\ [Next]_vars
        => [Crash \/ decayed' # decayed \/ Visible(files) \subseteq Visible(files')]_vars
  BY ValueGrows
<1> QED
  BY <1>1, StoreInvariant, PTL DEF Spec, VisibleGrows
=============================================================================

------------------------- MODULE SnapshotJournalProofs -------------------------
(***************************************************************************)
(* Proofs about SnapshotJournal, for every number of sequences, generations *)
(* and snapshots and every retention: typing, that no crash takes back an   *)
(* accepted snapshot, and that the store is the register SaveStore.         *)
(***************************************************************************)
EXTENDS SnapshotJournal, FiniteSetTheorems, TLAPS

(* The flushes of the manifest and of the checkpoint have to succeed: what is removed     *)
(* after the rename is not needed only if the rename is known to be on disk.  The crash   *)
(* that finds the old name and only the newer files is hazard prune_stale_generations.    *)
Reliable == {"manifest_written", "checkpoint_written"} \cap ErrorsAt = {}

LEMMA MaxOfFinite ==
  ASSUME NEW S, IsFiniteSet(S), S \subseteq Int, S # {}
  PROVE  Max(S) \in S /\ \A y \in S : y <= Max(S)
  <1> DEFINE above(x) == {y \in S : y > x}
             T == {above(x) : x \in S}
  <1>1. T \subseteq FiniteSubsetsOf(S) /\ T # {}
    <2>1. \A x \in S : above(x) \in SUBSET S
      OBVIOUS
    <2>2. \A x \in S : IsFiniteSet(above(x))
      BY <2>1, FS_Subset
    <2> QED BY <2>1, <2>2 DEF FiniteSubsetsOf
  <1>2. PICK U \in T : \A V \in T : ~ (<<V, U>> \in StrictSubsetOrdering(S))
    BY <1>1, FS_StrictSubsetOrderingWellFounded, WFMin
  <1>3. PICK x \in S : U = above(x)
    BY <1>2
  <1>4. ASSUME NEW y \in S, y > x PROVE FALSE
    <2>1. above(y) \in T
      OBVIOUS
    <2>3. ASSUME NEW z \in above(y) PROVE z \in above(x)
      <3>1. z \in S /\ z \in Int /\ y \in Int /\ x \in Int /\ z > y
        OBVIOUS
      <3> QED BY <1>4, <3>1
    <2>4. y \in above(x) /\ y \notin above(y)
      BY <1>4
    <2>2. <<above(y), above(x)>> \in StrictSubsetOrdering(S)
      BY <2>3, <2>4 DEF StrictSubsetOrdering
    <2> QED BY <1>2, <1>3, <2>1, <2>2
  <1>5. \A y \in S : x >= y
    BY <1>4
  <1> QED BY <1>5 DEF Max

--------------------------------------------------------------------------------
(* The invariant *)

\* The entries that a crash may leave pending: those above the checkpoint known to be stable.
Above == {n \in Sequences : n > stable.checkpoint}

Manifests == {live.manifest, stable.manifest} \ {0}

\* No file holds a snapshot that was not written yet.
Bounded ==
  /\ accepted <= written
  /\ \A n \in Sequences : live.entries[n] <= written /\ stable.entries[n] <= written
  /\ \A n \in Generations : live.generations[n] <= written /\ stable.generations[n] <= written

\* Manifest and checkpoint are flushed before anything else is done.
Flushed ==
  /\ pc # "manifest_written" => stable.manifest = live.manifest
  /\ pc # "checkpoint_written" => stable.checkpoint = live.checkpoint
  /\ stable.checkpoint <= live.checkpoint

\* Entries are numbered in the order of their snapshots, and none that counts was removed.
Ordered ==
  /\ \A m, n \in Above : m < n /\ live.entries[m] # 0 /\ live.entries[n] # 0 =>
                          live.entries[m] <= live.entries[n]
  /\ \A n \in Above : stable.entries[n] # 0 => live.entries[n] = stable.entries[n]

\* What was accepted is on disk: in an entry that stays pending or in the generation; and an
\* entry that may surface instead is not older.
Safe ==
  /\ \A n \in Above : live.entries[n] # 0 /\ stable.entries[n] = 0 => live.entries[n] >= accepted
  /\ Pending(stable) # 0 => stable.entries[Pending(stable)] >= accepted
  /\ Pending(stable) = 0 /\ accepted # 0 => live.manifest # 0 /\ stable.manifest # 0
  /\ \A m \in Manifests :
       /\ live.generations[m] = stable.generations[m] /\ live.generations[m] # 0
       /\ Pending(stable) = 0 => live.generations[m] \in accepted..Content(live)

\* Where the operation stands.
Progress ==
  /\ pc = "appended" => Pending(live) # 0 /\ live.entries[Pending(live)] = written
  /\ pc \in {"published", "manifest", "manifest_written", "checkpoint"} =>
       local.entry = Pending(live) /\ Pending(live) # 0
  /\ pc \in {"published", "manifest", "manifest_written", "checkpoint", "checkpoint_written"} =>
       /\ local.generation # 0 /\ local.entry # 0
       /\ live.generations[local.generation] = live.entries[local.entry]
       /\ live.entries[local.entry] # 0
  /\ pc \in {"manifest", "manifest_written"} => live.generations = stable.generations
  /\ pc \in {"manifest_written", "checkpoint", "checkpoint_written"} =>
       live.manifest = local.generation
  /\ pc = "checkpoint_written" =>
       /\ live.checkpoint = local.entry /\ local.entry > stable.checkpoint
       /\ Pending(live) = 0
  /\ pc = "removing" => local.entry <= live.checkpoint

JournalInv == TypeOK /\ Bounded /\ Flushed /\ Ordered /\ Safe /\ Progress

--------------------------------------------------------------------------------
(* Disks and what is read from them *)

LEMMA HighestType ==
  ASSUME NEW S, IsFiniteSet(S), S \subseteq Nat
  PROVE  /\ Highest(S) \in S \cup {0} /\ Highest(S) \in Nat
         /\ \A x \in S : x <= Highest(S)
  <1>1. IsFiniteSet(S \cup {0}) /\ S \cup {0} \subseteq Int /\ S \cup {0} # {}
    BY FS_AddElement
  <1> DEFINE m == Max(S \cup {0})
  <1>2. m \in S \cup {0} /\ \A y \in S \cup {0} : y <= m
    BY <1>1, MaxOfFinite
  <1>3. Highest(S) = m
    BY DEF Highest
  <1> HIDE DEF m
  <1> QED BY <1>2, <1>3

LEMMA DiskType ==
  ASSUME NEW d \in Disks
  PROVE  /\ DOMAIN d.entries = Sequences /\ DOMAIN d.generations = Generations
         /\ \A n \in Sequences : d.entries[n] \in 0..LastSnapshot
         /\ \A n \in Generations : d.generations[n] \in 0..LastSnapshot
         /\ d.checkpoint \in 0..LastSequence /\ d.manifest \in 0..LastGeneration
         /\ d.manifest # 0 => d.manifest \in Generations
  BY BoundsAssumption DEF Disks, Generations

LEMMA PresentType ==
  ASSUME NEW d \in Disks
  PROVE  /\ IsFiniteSet(Present(d.entries)) /\ Present(d.entries) \subseteq Sequences
         /\ IsFiniteSet(Present(d.generations)) /\ Present(d.generations) \subseteq Generations
  <1>1. Present(d.entries) \in SUBSET Sequences /\ Present(d.generations) \in SUBSET Generations
    BY DiskType DEF Present
  <1>2. IsFiniteSet(Sequences) /\ IsFiniteSet(Generations)
    BY BoundsAssumption, FS_Interval DEF Sequences, Generations
  <1> QED BY <1>1, <1>2, FS_Subset

LEMMA PendingType ==
  ASSUME NEW d \in Disks
  PROVE  /\ Pending(d) \in Nat
         /\ Pending(d) # 0 => /\ Pending(d) \in Sequences /\ d.entries[Pending(d)] # 0
                              /\ Pending(d) > d.checkpoint
         /\ \A n \in Sequences : d.entries[n] # 0 /\ n > d.checkpoint => n <= Pending(d)
  <1> DEFINE S == {n \in Present(d.entries) : n > d.checkpoint}
  <1>1. IsFiniteSet(S) /\ S \subseteq Sequences
    <2>1. S \in SUBSET Present(d.entries)
      OBVIOUS
    <2> QED BY <2>1, PresentType, FS_Subset
  <1>2. S \subseteq Nat
    BY <1>1 DEF Sequences
  <1>3. Highest(S) \in S \cup {0} /\ Highest(S) \in Nat /\ \A x \in S : x <= Highest(S)
    BY <1>1, <1>2, HighestType
  <1>4. Pending(d) = Highest(S)
    BY DEF Pending
  <1>5. \A n \in Sequences : d.entries[n] # 0 /\ n > d.checkpoint => n \in S
    BY DiskType DEF Present
  <1>6. \A n \in S : n \in Sequences /\ d.entries[n] # 0 /\ n > d.checkpoint
    BY <1>1 DEF Present
  <1> HIDE DEF S
  <1> QED BY <1>3, <1>4, <1>5, <1>6

\* Pending is determined by what PendingType says of it.
LEMMA PendingIs ==
  ASSUME NEW d \in Disks, NEW p \in Sequences, d.entries[p] # 0, p > d.checkpoint,
         \A n \in Sequences : d.entries[n] # 0 /\ n > d.checkpoint => n <= p
  PROVE  Pending(d) = p
  <1>1. p <= Pending(d) /\ Pending(d) \in Nat
    BY PendingType
  <1>2. Pending(d) # 0
    BY <1>1, BoundsAssumption DEF Sequences
  <1>3. Pending(d) <= p
    BY <1>2, PendingType
  <1> QED BY <1>1, <1>3 DEF Sequences

LEMMA PendingNone ==
  ASSUME NEW d \in Disks, \A n \in Sequences : d.entries[n] = 0 \/ n <= d.checkpoint
  PROVE  Pending(d) = 0
  <1>1. d.checkpoint \in Nat /\ \A n \in Sequences : n \in Nat
    BY DiskType DEF Sequences
  <1> QED BY <1>1, PendingType

LEMMA JournalFlushed ==
  ASSUME live \in Disks, stable \in Disks, FlushJournalDirectory
  PROVE  /\ stable' \in Disks
         /\ stable'.entries = live.entries /\ stable'.checkpoint = live.checkpoint
         /\ stable'.generations = stable.generations /\ stable'.manifest = stable.manifest
  BY DEF FlushJournalDirectory, Disks

LEMMA NextSequenceType ==
  ASSUME live \in Disks
  PROVE  /\ NextSequence \in Nat /\ NextSequence > live.checkpoint
         /\ \A n \in Sequences : live.entries[n] # 0 => n < NextSequence
  <1> DEFINE S == Present(live.entries) \cup {live.checkpoint}
  <1>1. IsFiniteSet(S)
    BY PresentType, FS_AddElement
  <1>2. S \subseteq Nat /\ live.checkpoint \in Nat
    <2>1. live.checkpoint \in Nat
      BY DiskType
    <2>2. Present(live.entries) \subseteq Nat
      BY PresentType DEF Sequences
    <2> QED BY <2>1, <2>2
  <1>3. Highest(S) \in Nat /\ \A x \in S : x <= Highest(S)
    BY <1>1, <1>2, HighestType
  <1>4. \A n \in Sequences : live.entries[n] # 0 => n \in S
    BY DiskType DEF Present
  <1>5. NextSequence = Highest(S) + 1
    BY DEF NextSequence
  <1>6. live.checkpoint \in S
    OBVIOUS
  <1> HIDE DEF S
  <1> QED BY <1>2, <1>3, <1>4, <1>5, <1>6 DEF Sequences

LEMMA NextGenerationType ==
  ASSUME live \in Disks
  PROVE  \A n \in Generations : live.generations[n] # 0 => n # NextGeneration
  <1> DEFINE S == Present(live.generations)
  <1>1. IsFiniteSet(S) /\ S \subseteq Nat
    BY PresentType DEF Generations
  <1>2. Highest(S) \in Nat /\ \A x \in S : x <= Highest(S)
    BY <1>1, HighestType
  <1>3. \A n \in Generations : live.generations[n] # 0 => n \in S
    BY DiskType DEF Present
  <1>4. NextGeneration = Highest(S) + 1
    BY DEF NextGeneration
  <1> HIDE DEF S
  <1> QED BY <1>1, <1>2, <1>3, <1>4 DEF Generations

--------------------------------------------------------------------------------
(* What a crash may leave *)

LEMMA OutcomeType ==
  ASSUME live \in Disks, stable \in Disks, NEW x \in CrashOutcomes
  PROVE  /\ x \in Disks
         /\ \A n \in Sequences : x.entries[n] \in {live.entries[n], stable.entries[n]}
         /\ \A n \in Generations : x.generations[n] \in {live.generations[n], stable.generations[n]}
         /\ x.checkpoint \in {live.checkpoint, stable.checkpoint}
         /\ x.manifest \in {live.manifest, stable.manifest}
  <1>1. PICK E \in SUBSET Differ(live.entries, stable.entries),
             G \in SUBSET Differ(live.generations, stable.generations),
             c \in {live.checkpoint, stable.checkpoint}, m \in {live.manifest, stable.manifest} :
               x = [entries |-> Settle(live.entries, stable.entries, E), checkpoint |-> c,
                    generations |-> Settle(live.generations, stable.generations, G),
                    manifest |-> m]
    BY DEF CrashOutcomes
  <1> DEFINE e == Settle(live.entries, stable.entries, E)
             g == Settle(live.generations, stable.generations, G)
  <1>2. /\ e \in [Sequences -> 0..LastSnapshot]
        /\ \A n \in Sequences : e[n] \in {live.entries[n], stable.entries[n]}
    BY DiskType DEF Settle
  <1>3. /\ g \in [Generations -> 0..LastSnapshot]
        /\ \A n \in Generations : g[n] \in {live.generations[n], stable.generations[n]}
    BY DiskType DEF Settle
  <1> HIDE DEF e, g
  <1>4. x = [entries |-> e, checkpoint |-> c, generations |-> g, manifest |-> m]
    BY <1>1 DEF e, g
  <1>5. c \in 0..LastSequence /\ m \in 0..LastGeneration
    BY DiskType
  <1>6. x \in Disks
    BY <1>2, <1>3, <1>4, <1>5 DEF Disks
  <1> QED BY <1>2, <1>3, <1>4, <1>6

LEMMA ContentType ==
  ASSUME NEW d \in Disks
  PROVE  Content(d) \in Nat
  <1>1. CASE Pending(d) # 0
    BY <1>1, PendingType, DiskType DEF Content
  <1>2. CASE Pending(d) = 0 /\ d.manifest # 0
    BY <1>2, DiskType DEF Content
  <1>3. CASE Pending(d) = 0 /\ d.manifest = 0
    BY <1>3 DEF Content
  <1> QED BY <1>1, <1>2, <1>3

\* A pending entry of an outcome is the entry that the process saw.
LEMMA OutcomeAbove ==
  ASSUME JournalInv, NEW x \in CrashOutcomes, NEW n \in Sequences,
         n > x.checkpoint, x.entries[n] # 0
  PROVE  n \in Above /\ live.entries[n] # 0 /\ x.entries[n] = live.entries[n]
  <1>1. live \in Disks /\ stable \in Disks /\ Flushed /\ Ordered
    BY DEF JournalInv, TypeOK
  <1>2. /\ x.entries[n] \in {live.entries[n], stable.entries[n]}
        /\ x.checkpoint \in {live.checkpoint, stable.checkpoint}
    BY <1>1, OutcomeType
  <1>3. /\ live.checkpoint \in Nat /\ stable.checkpoint \in Nat /\ n \in Nat
        /\ stable.checkpoint <= live.checkpoint
    BY <1>1, DiskType DEF Flushed, Sequences
  <1>4. n \in Above
    BY <1>2, <1>3 DEF Above
  <1> QED BY <1>1, <1>2, <1>4 DEF Ordered

\* What is on disk for sure is in every outcome.
LEMMA OutcomeKeeps ==
  ASSUME JournalInv, NEW x \in CrashOutcomes, NEW n \in Above, stable.entries[n] # 0
  PROVE  x.entries[n] = live.entries[n] /\ live.entries[n] = stable.entries[n]
  <1>1. live \in Disks /\ stable \in Disks /\ Ordered
    BY DEF JournalInv, TypeOK
  <1>2. n \in Sequences /\ x.entries[n] \in {live.entries[n], stable.entries[n]}
    BY <1>1, OutcomeType DEF Above
  <1> QED BY <1>1, <1>2 DEF Ordered

\* Between the rename of the checkpoint and its flush both name the same content.
LEMMA CheckpointWritten ==
  ASSUME JournalInv, live.checkpoint # stable.checkpoint
  PROVE  /\ local.entry = live.checkpoint /\ local.entry \in Above
         /\ live.entries[local.entry] # 0 /\ Pending(live) = 0
         /\ live.manifest = stable.manifest /\ live.manifest # 0
         /\ Content(live) = live.entries[local.entry]
         /\ live.generations[live.manifest] = live.entries[local.entry]
  <1>1. TypeOK /\ Flushed /\ Progress /\ pc = "checkpoint_written"
    BY DEF JournalInv, Flushed
  <1>2. /\ live.checkpoint = local.entry /\ local.entry > stable.checkpoint
        /\ Pending(live) = 0 /\ live.manifest = local.generation
        /\ local.generation # 0 /\ local.entry # 0
        /\ live.generations[local.generation] = live.entries[local.entry]
        /\ live.entries[local.entry] # 0
    BY <1>1 DEF Progress
  <1>3. local.entry \in Sequences
    BY <1>1, <1>2, DiskType DEF TypeOK, Sequences
  <1> QED BY <1>1, <1>2, <1>3 DEF Flushed, Content, Above

LEMMA OutcomeSound ==
  ASSUME JournalInv, NEW x \in CrashOutcomes
  PROVE  /\ Readable(x) /\ Content(x) >= accepted /\ Content(x) <= Content(live)
         /\ x.manifest # 0 => x.generations[x.manifest] # 0
  <1>1. /\ live \in Disks /\ stable \in Disks /\ Flushed /\ Ordered /\ Safe /\ accepted \in Nat
    BY BoundsAssumption DEF JournalInv, TypeOK
  <1>2. /\ x \in Disks /\ x.checkpoint \in {live.checkpoint, stable.checkpoint}
        /\ x.manifest \in {live.manifest, stable.manifest}
        /\ \A n \in Generations : x.generations[n] \in {live.generations[n], stable.generations[n]}
    BY <1>1, OutcomeType
  <1>3. /\ live.checkpoint \in Nat /\ stable.checkpoint \in Nat
        /\ stable.checkpoint <= live.checkpoint /\ Content(live) \in Nat
    BY <1>1, DiskType, ContentType DEF Flushed
  <1>4. x.manifest # 0 => /\ x.manifest \in Manifests
                          /\ x.generations[x.manifest] = live.generations[x.manifest]
                          /\ x.generations[x.manifest] # 0
    <2> SUFFICES ASSUME x.manifest # 0
                 PROVE  /\ x.manifest \in Manifests
                        /\ x.generations[x.manifest] = live.generations[x.manifest]
                        /\ x.generations[x.manifest] # 0
      OBVIOUS
    <2>1. x.manifest \in Manifests
      BY <1>2 DEF Manifests
    <2>2. x.manifest \in Generations
      BY <1>2, DiskType
    <2> QED BY <1>1, <1>2, <2>1, <2>2 DEF Safe
  <1>5. \A n \in Above : n \in Sequences /\ n \in Nat /\ n > stable.checkpoint
                         /\ live.entries[n] \in Nat /\ stable.entries[n] \in Nat
    BY <1>1, DiskType DEF Above, Sequences
  <1>6. CASE Pending(x) # 0
    <2> DEFINE p == Pending(x)
    <2>1. p \in Sequences /\ x.entries[p] # 0 /\ p > x.checkpoint
      BY <1>2, <1>6, PendingType
    <2>2. p \in Above /\ live.entries[p] # 0 /\ x.entries[p] = live.entries[p]
      BY <2>1, OutcomeAbove
    <2>3. Content(x) = live.entries[p] /\ Readable(x)
      BY <1>6, <2>2 DEF Content, Readable
    <2> HIDE DEF p
    <2>4. live.entries[p] >= accepted
      <3>1. CASE stable.entries[p] = 0
        BY <1>1, <2>2, <3>1 DEF Safe
      <3>2. CASE stable.entries[p] # 0
        <4> DEFINE h == Pending(stable)
        <4>1. p <= h /\ h \in Nat
          BY <1>1, <1>5, <2>2, <3>2, PendingType
        <4>2. h # 0
          BY <1>5, <2>2, <4>1, BoundsAssumption DEF Sequences
        <4>3. h \in Sequences /\ stable.entries[h] # 0 /\ h > stable.checkpoint
              /\ stable.entries[h] >= accepted
          BY <1>1, <4>2, PendingType DEF Safe
        <4>4. h \in Above
          BY <4>3 DEF Above
        <4> HIDE DEF h
        <4>5. x.entries[h] = live.entries[h] /\ live.entries[h] = stable.entries[h]
          BY <4>3, <4>4, OutcomeKeeps
        <4>6. h > x.checkpoint
          BY <1>2, <1>3, <1>5, <2>1, <2>2, <4>1
        <4>7. h <= p
          BY <1>2, <4>3, <4>5, <4>6, PendingType DEF p
        <4>8. h = p
          BY <1>5, <2>2, <4>1, <4>7
        <4> QED BY <4>3, <4>5, <4>8
      <3> QED BY <3>1, <3>2
    <2>5. live.entries[p] <= Content(live)
      <3>1. CASE p > live.checkpoint
        <4> DEFINE q == Pending(live)
        <4>1. p <= q /\ q \in Nat
          BY <1>1, <2>1, <2>2, <3>1, PendingType
        <4>2. q # 0
          BY <1>5, <2>2, <4>1, BoundsAssumption DEF Sequences
        <4>3. q \in Sequences /\ live.entries[q] # 0 /\ q > live.checkpoint
              /\ Content(live) = live.entries[q]
          BY <1>1, <4>2, PendingType DEF Content
        <4> HIDE DEF q
        <4>4. q \in Above
          BY <1>3, <4>1, <4>3 DEF Above
        <4>5. p < q \/ p = q
          BY <1>5, <2>2, <4>1
        <4>6. p < q => live.entries[p] <= live.entries[q]
          BY <1>1, <2>2, <4>3, <4>4 DEF Ordered
        <4> QED BY <1>5, <2>2, <4>3, <4>5, <4>6
      <3>2. CASE p <= live.checkpoint
        <4>1. live.checkpoint # stable.checkpoint
          BY <1>5, <1>3, <2>2, <3>2
        <4>2. /\ local.entry = live.checkpoint /\ local.entry \in Above
              /\ live.entries[local.entry] # 0 /\ Content(live) = live.entries[local.entry]
          BY <4>1, CheckpointWritten
        <4>3. p < local.entry \/ p = local.entry
          BY <1>3, <1>5, <2>2, <3>2, <4>2
        <4>4. p < local.entry => live.entries[p] <= live.entries[local.entry]
          BY <1>1, <2>2, <4>2 DEF Ordered
        <4> QED BY <1>5, <2>2, <4>2, <4>3, <4>4
      <3> QED BY <1>3, <1>5, <2>2, <3>1, <3>2
    <2> QED BY <1>4, <2>3, <2>4, <2>5
  <1>7. CASE Pending(x) = 0
    <2>1. /\ Content(x) = IF x.manifest = 0 THEN 0 ELSE x.generations[x.manifest]
          /\ Readable(x)
      BY <1>4, <1>7 DEF Content, Readable
    <2>2. CASE Pending(stable) = 0
      <3>1. CASE x.manifest = 0
        BY <1>1, <1>2, <1>3, <2>1, <2>2, <3>1 DEF Safe
      <3>2. CASE x.manifest # 0
        <4>1. live.generations[x.manifest] \in accepted..Content(live)
          BY <1>1, <1>4, <2>2, <3>2 DEF Safe
        <4> QED BY <1>1, <1>3, <1>4, <2>1, <3>2, <4>1
      <3> QED BY <1>4, <2>1, <3>1, <3>2
    <2>3. CASE Pending(stable) # 0
      <3> DEFINE h == Pending(stable)
      <3>1. h \in Sequences /\ stable.entries[h] # 0 /\ h > stable.checkpoint
            /\ stable.entries[h] >= accepted
        BY <1>1, <2>3, PendingType DEF Safe
      <3>2. h \in Above
        BY <3>1 DEF Above
      <3> HIDE DEF h
      <3>3. x.entries[h] = live.entries[h] /\ live.entries[h] = stable.entries[h]
        BY <3>1, <3>2, OutcomeKeeps
      <3>4. ~(h > x.checkpoint)
        <4>1. h > x.checkpoint => h <= Pending(x)
          BY <1>2, <3>1, <3>3, PendingType
        <4> QED BY <1>2, <1>3, <1>7, <3>1, <4>1 DEF Sequences
      <3>5. x.checkpoint = live.checkpoint /\ live.checkpoint # stable.checkpoint
            /\ h <= live.checkpoint
        BY <1>2, <1>3, <1>5, <3>1, <3>2, <3>4
      <3>6. /\ local.entry = live.checkpoint /\ local.entry \in Above
            /\ live.entries[local.entry] # 0 /\ Content(live) = live.entries[local.entry]
            /\ live.manifest = stable.manifest /\ live.manifest # 0
            /\ live.generations[live.manifest] = live.entries[local.entry]
        BY <3>5, CheckpointWritten
      <3>7. Content(x) = Content(live)
        BY <1>2, <1>4, <2>1, <3>6
      <3>8. h < local.entry \/ h = local.entry
        BY <1>3, <1>5, <3>2, <3>5, <3>6
      <3>9. h < local.entry => live.entries[h] <= live.entries[local.entry]
        BY <1>1, <3>1, <3>2, <3>3, <3>6 DEF Ordered
      <3>10. live.entries[local.entry] >= accepted
        BY <1>1, <1>5, <3>1, <3>2, <3>3, <3>6, <3>8, <3>9
      <3> QED BY <1>3, <1>4, <2>1, <3>6, <3>7, <3>10
    <2> QED BY <2>2, <2>3
  <1> QED BY <1>6, <1>7

\* The process itself sees one of the outcomes.
LEMMA LiveIsOutcome ==
  ASSUME TypeOK
  PROVE  live \in CrashOutcomes
  <1>1. live \in Disks /\ stable \in Disks
    BY DEF TypeOK
  <1> DEFINE E == Differ(live.entries, stable.entries)
             G == Differ(live.generations, stable.generations)
  <1>2. Settle(live.entries, stable.entries, E) = live.entries
    BY <1>1 DEF Settle, Differ, Disks
  <1>3. Settle(live.generations, stable.generations, G) = live.generations
    BY <1>1 DEF Settle, Differ, Disks
  <1>4. live = [entries |-> live.entries, checkpoint |-> live.checkpoint,
                generations |-> live.generations, manifest |-> live.manifest]
    BY <1>1 DEF Disks
  <1>5. E \in SUBSET E /\ G \in SUBSET G
    OBVIOUS
  <1> QED BY <1>2, <1>3, <1>4, <1>5 DEF CrashOutcomes

\* A pending set depends on the checkpoint and the entries above it only.
LEMMA PendingAgrees ==
  ASSUME NEW d \in Disks, NEW e \in Disks, d.checkpoint = e.checkpoint,
         \A n \in Sequences : n > d.checkpoint => d.entries[n] = e.entries[n]
  PROVE  Pending(d) = Pending(e)
  <1>1. {n \in Present(d.entries) : n > d.checkpoint} = {n \in Present(e.entries) : n > e.checkpoint}
    BY DiskType DEF Present
  <1> QED BY <1>1 DEF Pending

LEMMA ContentBounded ==
  ASSUME JournalInv
  PROVE  accepted <= Content(live) /\ Content(live) <= written
  <1>1. live \in Disks /\ Bounded /\ TypeOK /\ written \in Nat
    BY BoundsAssumption DEF JournalInv, TypeOK
  <1>2. Content(live) >= accepted
    BY <1>1, LiveIsOutcome, OutcomeSound
  <1>3. Content(live) <= written
    <2>1. CASE Pending(live) # 0
      BY <1>1, <2>1, PendingType DEF Content, Bounded
    <2>2. CASE Pending(live) = 0 /\ live.manifest # 0
      BY <1>1, <2>2, DiskType DEF Content, Bounded
    <2>3. CASE Pending(live) = 0 /\ live.manifest = 0
      BY <1>1, <2>3 DEF Content
    <2> QED BY <2>1, <2>2, <2>3
  <1>4. accepted \in Nat /\ Content(live) \in Nat
    BY <1>1, ContentType, BoundsAssumption DEF TypeOK
  <1> QED BY <1>2, <1>3, <1>4

--------------------------------------------------------------------------------
(* Typing *)

LEMMA TypeInit == Init => TypeOK
  BY BoundsAssumption DEF Init, TypeOK, EmptyDisk, Disks, NoLocal, Labels

\* Every step of the database leaves directory contents behind.
LEMMA TypeStep ==
  ASSUME TypeOK, [Next]_vars
  PROVE  TypeOK'
  <1>1. /\ live \in Disks /\ stable \in Disks /\ pc \in Labels
        /\ written \in 0..LastSnapshot /\ accepted \in 0..LastSnapshot
        /\ local \in [compacts : BOOLEAN, entry : 0..LastSequence,
                      generation : 0..LastGeneration, removed : BOOLEAN,
                      keep : Keeps \cup {0}]
    BY DEF TypeOK
  <1>2. /\ 0 \in 0..LastSnapshot /\ 0 \in 0..LastSequence /\ 0 \in 0..LastGeneration
        /\ NoLocal \in [compacts : BOOLEAN, entry : 0..LastSequence,
                        generation : 0..LastGeneration, removed : BOOLEAN,
                        keep : Keeps \cup {0}]
    BY BoundsAssumption DEF NoLocal
  <1> USE DEF Goto, Finish
  <1>3. ASSUME NEW compacts \in BOOLEAN, Append(compacts) PROVE TypeOK'
    <2>1. written + 1 \in 0..LastSnapshot
      BY <1>1, <1>3, BoundsAssumption DEF Append
    <2>2. live' \in Disks
      BY <1>1, <1>3, <2>1 DEF Append, Disks
    <2>3. local' \in [compacts : BOOLEAN, entry : 0..LastSequence,
                      generation : 0..LastGeneration, removed : BOOLEAN,
                      keep : Keeps \cup {0}]
      BY <1>2, <1>3 DEF Append
    <2> QED BY <1>1, <1>3, <2>1, <2>2, <2>3 DEF Append, TypeOK, Labels
  <1>4. ASSUME AcceptEntry PROVE TypeOK'
    <2>1. stable' \in Disks
      BY <1>1, <1>4, JournalFlushed DEF AcceptEntry
    <2> QED BY <1>1, <1>2, <1>4, <2>1 DEF AcceptEntry, TypeOK, Labels
  <1>5. ASSUME BeginCompaction PROVE TypeOK'
    BY <1>1, <1>5 DEF BeginCompaction, TypeOK, Labels
  <1>6. ASSUME PublishGeneration PROVE TypeOK'
    <2>1. Pending(live) \in Sequences /\ live.entries[Pending(live)] \in 0..LastSnapshot
      BY <1>1, <1>6, PendingType, DiskType DEF PublishGeneration
    <2>2. Pending(live) \in 0..LastSequence /\ NextGeneration \in 0..LastGeneration
      BY <1>6, <2>1 DEF PublishGeneration, Sequences, Generations
    <2>3. live' \in Disks
      BY <1>1, <1>6, <2>1 DEF PublishGeneration, Disks
    <2>4. local' \in [compacts : BOOLEAN, entry : 0..LastSequence,
                      generation : 0..LastGeneration, removed : BOOLEAN,
                      keep : Keeps \cup {0}]
      BY <1>1, <1>6, <2>2 DEF PublishGeneration
    <2> QED BY <1>1, <1>6, <2>3, <2>4 DEF PublishGeneration, TypeOK, Labels
  <1>7. ASSUME FlushPublished PROVE TypeOK'
    BY <1>1, <1>7 DEF FlushPublished, FlushGenerations, Disks, TypeOK, Labels
  <1>8. ASSUME WriteManifest PROVE TypeOK'
    BY <1>1, <1>8 DEF WriteManifest, Disks, TypeOK, Labels
  <1>9. ASSUME FlushManifest PROVE TypeOK'
    BY <1>1, <1>9 DEF FlushManifest, FlushRoot, Disks, TypeOK, Labels
  <1>10. ASSUME WriteCheckpoint PROVE TypeOK'
    BY <1>1, <1>10 DEF WriteCheckpoint, Disks, TypeOK, Labels
  <1>11. ASSUME FlushCheckpoint PROVE TypeOK'
    BY <1>1, <1>11, JournalFlushed DEF FlushCheckpoint, TypeOK, Labels
  <1>12. ASSUME SkipToCleanup PROVE TypeOK'
    <2>1. live.checkpoint \in 0..LastSequence
      BY <1>1, DiskType
    <2> QED BY <1>1, <1>12, <2>1 DEF SkipToCleanup, TypeOK, Labels
  <1>13. ASSUME RemoveEntry PROVE TypeOK'
    BY <1>1, <1>2, <1>13 DEF RemoveEntry, Disks, TypeOK
  <1>14. ASSUME FlushRemoval PROVE TypeOK'
    BY <1>1, <1>2, <1>14, JournalFlushed DEF FlushRemoval, TypeOK, Labels
  <1>15. ASSUME NEW keep \in Keeps, BeginPrune(keep) PROVE TypeOK'
    <2>1. local' \in [compacts : BOOLEAN, entry : 0..LastSequence,
                      generation : 0..LastGeneration, removed : BOOLEAN,
                      keep : Keeps \cup {0}]
      BY <1>2, <1>15 DEF BeginPrune
    <2> QED BY <1>1, <1>15, <2>1 DEF BeginPrune, TypeOK, Labels
  <1>16. ASSUME PruneGeneration PROVE TypeOK'
    BY <1>1, <1>2, <1>16 DEF PruneGeneration, Disks, TypeOK
  <1>17. ASSUME EndPrune PROVE TypeOK'
    BY <1>1, <1>2, <1>17 DEF EndPrune, TypeOK, Labels
  <1>18. ASSUME Fail PROVE TypeOK'
    BY <1>1, <1>2, <1>18 DEF Fail, TypeOK, Labels
  <1>19. ASSUME Crash PROVE TypeOK'
    <2>1. live' \in Disks
      BY <1>1, <1>19, OutcomeType DEF Crash
    <2> QED BY <1>1, <1>2, <1>19, <2>1 DEF Crash, TypeOK, Labels
  <1>20. ASSUME UNCHANGED vars PROVE TypeOK'
    BY <1>20 DEF vars, TypeOK
  <1> QED
    BY <1>3, <1>4, <1>5, <1>6, <1>7, <1>8, <1>9, <1>10, <1>11, <1>12, <1>13, <1>14, <1>15,
       <1>16, <1>17, <1>18, <1>19, <1>20 DEF Next, Compaction

\* Both views of the disk are directory contents throughout, whatever fails and whenever the
\* process stops.
THEOREM TypeCorrect == Spec => []TypeOK
  BY TypeInit, TypeStep, PTL DEF Spec

--------------------------------------------------------------------------------
(* Each operation keeps the invariant, and says what it does to the readable snapshot *)

LEMMA MinOfFinite ==
  ASSUME NEW S, IsFiniteSet(S), S \subseteq Nat, S # {}
  PROVE  Min(S) \in S
  <1> DEFINE T == {-x : x \in S}
  <1>1. IsFiniteSet(T) /\ T \subseteq Int /\ T # {}
    <2>1. IsFiniteSet(T)
      <3> DEFINE f == [x \in S |-> -x]
      <3>1. f \in Surjection(S, T)
        BY DEF Surjection
      <3> QED BY <3>1, FS_Surjection
    <2>2. T \subseteq Int
      OBVIOUS
    <2>3. T # {}
      OBVIOUS
    <2> QED BY <2>1, <2>2, <2>3
  <1>2. Max(T) \in T /\ \A y \in T : y <= Max(T)
    BY <1>1, MaxOfFinite
  <1>3. PICK x \in S : Max(T) = -x
    BY <1>2
  <1>4. \A y \in S : x =< y
    <2>1. \A y \in S : -y \in T
      OBVIOUS
    <2>2. \A y \in S : -y <= -x
      BY <1>2, <1>3, <2>1
    <2> QED BY <2>2
  <1> QED BY <1>4 DEF Min

LEMMA InvParts ==
  ASSUME JournalInv
  PROVE  /\ live \in Disks /\ stable \in Disks /\ live.checkpoint \in Nat /\ stable.checkpoint \in Nat
         /\ written \in Nat /\ accepted \in Nat /\ pc \in Labels
         /\ local.entry \in Nat /\ local.generation \in Nat
         /\ \A n \in Sequences : n \in Nat /\ n # 0 /\ live.entries[n] \in Nat /\ stable.entries[n] \in Nat
         /\ \A n \in Generations : /\ n # 0 /\ live.generations[n] \in Nat
                                   /\ stable.generations[n] \in Nat
         /\ Above \subseteq Sequences /\ Manifests \subseteq Generations
         /\ Content(live) \in Nat
  <1>1. live \in Disks /\ stable \in Disks /\ TypeOK
    BY DEF JournalInv, TypeOK
  <1>2. Content(live) \in Nat
    BY <1>1, ContentType
  <1>3. Manifests \subseteq Generations
    BY <1>1, DiskType DEF Manifests
  <1> QED BY <1>1, <1>2, <1>3, DiskType, BoundsAssumption DEF TypeOK, Above, Sequences, Generations

LEMMA JournalInit == Init => JournalInv
  <1> SUFFICES ASSUME Init PROVE JournalInv
    OBVIOUS
  <1>1. TypeOK
    BY TypeInit
  <1>2. /\ live = EmptyDisk /\ stable = EmptyDisk /\ EmptyDisk \in Disks /\ pc = "idle"
        /\ \A n \in Sequences : EmptyDisk.entries[n] = 0
        /\ \A n \in Generations : EmptyDisk.generations[n] = 0
        /\ EmptyDisk.checkpoint = 0 /\ EmptyDisk.manifest = 0 /\ written = 0 /\ accepted = 0
    BY <1>1 DEF Init, EmptyDisk, TypeOK
  <1> HIDE DEF EmptyDisk
  <1>3. Pending(EmptyDisk) = 0
    BY <1>2, PendingNone
  <1>4. Bounded /\ Flushed /\ Progress
    BY <1>2 DEF Bounded, Flushed, Progress
  <1>5. Ordered
    BY <1>2 DEF Ordered, Above
  <1>6. Safe
    BY <1>2, <1>3 DEF Safe, Above, Manifests
  <1> QED BY <1>1, <1>4, <1>5, <1>6 DEF JournalInv

\* A step that leaves the disk and the counters alone disturbs only what depends on pc and local.
LEMMA DisksUnchanged ==
  ASSUME JournalInv, TypeOK', UNCHANGED <<live, stable, written, accepted>>,
         Flushed', Progress'
  PROVE  JournalInv' /\ Content(live)' = Content(live)
  <1>1. Bounded /\ Ordered /\ Safe
    BY DEF JournalInv
  <1>2. Bounded' /\ Ordered'
    BY <1>1 DEF Bounded, Ordered, Above
  <1>3. Content(live)' = Content(live) /\ Pending(stable)' = Pending(stable)
    BY DEF Content, Pending, Present, Highest
  <1>4. Safe'
    BY <1>1, <1>3 DEF Safe, Above, Manifests
  <1> QED BY <1>2, <1>3, <1>4 DEF JournalInv

LEMMA AppendStep ==
  ASSUME JournalInv, TypeOK', NEW compacts \in BOOLEAN, Append(compacts)
  PROVE  JournalInv' /\ Content(live)' = written + 1 /\ accepted' = accepted
  <1> DEFINE p == NextSequence
  <1>1. /\ p \in Sequences /\ live' = [live EXCEPT !.entries[p] = written + 1]
        /\ written' = written + 1 /\ UNCHANGED <<stable, accepted>>
        /\ pc = "idle" /\ pc' = "appended"
    BY DEF Append, Goto
  <1>2. p > live.checkpoint /\ \A n \in Sequences : live.entries[n] # 0 => n < p
    BY NextSequenceType, InvParts
  <1> HIDE DEF p
  <1>3. Bounded /\ Flushed /\ Ordered /\ Safe
    BY DEF JournalInv
  <1>4. written + 1 \in 0..LastSnapshot
    BY <1>1, InvParts DEF TypeOK
  <1>5. /\ live' \in Disks /\ live'.entries[p] = written + 1
        /\ \A m \in Sequences : m # p => live'.entries[m] = live.entries[m]
        /\ live'.checkpoint = live.checkpoint /\ live'.generations = live.generations
        /\ live'.manifest = live.manifest
    <2>1. live \in Disks
      BY InvParts
    <2> QED BY <1>1, <1>4, <2>1 DEF Disks
  <1>6. stable.checkpoint = live.checkpoint /\ stable.manifest = live.manifest
    BY <1>1, <1>3 DEF Flushed
  <1>7. Bounded'
    BY <1>1, <1>3, <1>5, InvParts DEF Bounded
  <1>8. Flushed'
    BY <1>1, <1>5, <1>6, <1>3 DEF Flushed
  <1>9. Above' = Above /\ p \in Above
    BY <1>1, <1>2, <1>6 DEF Above
  <1>10. stable.entries[p] = 0
    BY <1>1, <1>2, <1>3, <1>9, InvParts DEF Ordered
  <1>11. Ordered'
    <2>1. ASSUME NEW m \in Above, NEW n \in Above, m < n, live'.entries[m] # 0, live'.entries[n] # 0
          PROVE  live'.entries[m] <= live'.entries[n]
      <3>1. m \in Sequences /\ n \in Sequences /\ m \in Nat /\ n \in Nat
        BY InvParts
      <3>2. CASE m = p
        <4>1. n # p /\ live.entries[n] # 0
          BY <1>5, <2>1, <3>1, <3>2
        <4> QED BY <1>2, <2>1, <3>1, <3>2, <4>1
      <3>3. CASE n = p /\ m # p
        <4>1. live'.entries[m] <= written
          BY <1>3, <1>5, <3>1, <3>3 DEF Bounded
        <4> QED BY <1>5, <3>1, <3>3, <4>1, InvParts
      <3>4. CASE n # p /\ m # p
        BY <1>3, <1>5, <2>1, <3>1, <3>4 DEF Ordered
      <3> QED BY <3>2, <3>3, <3>4
    <2>2. ASSUME NEW n \in Above, stable.entries[n] # 0 PROVE live'.entries[n] = stable.entries[n]
      BY <1>3, <1>5, <1>10, <2>2, InvParts DEF Ordered
    <2> QED BY <1>1, <1>9, <2>1, <2>2 DEF Ordered
  <1>12. Pending(live') = p /\ p # 0
    <2>1. \A n \in Sequences : live'.entries[n] # 0 => n <= p
      BY <1>1, <1>2, <1>5, InvParts
    <2>2. live'.entries[p] # 0
      BY <1>5, InvParts
    <2> QED BY <1>1, <1>2, <1>5, <2>1, <2>2, PendingIs, InvParts
  <1>13. Content(live') = written + 1
    BY <1>5, <1>12 DEF Content
  <1>14. Safe'
    <2>1. \A n \in Above : live'.entries[n] # 0 /\ stable.entries[n] = 0 => live'.entries[n] >= accepted
      BY <1>3, <1>5, InvParts DEF Safe, Bounded
    <2>2. Content(live) <= Content(live')
      BY <1>13, ContentBounded, InvParts
    <2>3. \A m \in Manifests : live.generations[m] \in accepted..Content(live) =>
                               live.generations[m] \in accepted..Content(live')
      BY <1>13, <2>2, InvParts
    <2> QED BY <1>1, <1>3, <1>5, <1>9, <2>1, <2>3 DEF Safe, Manifests
  <1>15. Progress'
    BY <1>1, <1>5, <1>12 DEF Progress
  <1> QED BY <1>1, <1>7, <1>8, <1>11, <1>13, <1>14, <1>15 DEF JournalInv

LEMMA AcceptStep ==
  ASSUME JournalInv, TypeOK', AcceptEntry
  PROVE  JournalInv' /\ Content(live)' = Content(live) /\ accepted' = Content(live)
  <1>1. /\ pc = "appended" /\ pc' \in {"idle", "compact"} /\ live' = live /\ written' = written
        /\ accepted' = written /\ FlushJournalDirectory
    BY DEF AcceptEntry, Goto, Finish
  <1>2. Bounded /\ Flushed /\ Ordered /\ Safe /\ Pending(live) # 0
        /\ live.entries[Pending(live)] = written
    BY <1>1 DEF JournalInv, Progress
  <1>3. /\ stable' \in Disks
        /\ stable'.entries = live.entries /\ stable'.checkpoint = live.checkpoint
        /\ stable'.generations = stable.generations /\ stable'.manifest = stable.manifest
    BY <1>1, JournalFlushed, InvParts
  <1>4. stable.checkpoint = live.checkpoint /\ stable.manifest = live.manifest
    BY <1>1, <1>2 DEF Flushed
  <1>5. Above' = Above /\ Manifests' = Manifests
    BY <1>1, <1>3, <1>4 DEF Above, Manifests
  <1>6. Pending(stable') = Pending(live)
    BY <1>3, PendingAgrees, InvParts
  <1>7. Content(live) = written
    BY <1>2 DEF Content
  <1>8. Bounded'
    BY <1>1, <1>2, <1>3, InvParts DEF Bounded
  <1>9. Flushed'
    BY <1>1, <1>3, <1>4, InvParts DEF Flushed
  <1>10. Ordered'
    BY <1>1, <1>2, <1>3, <1>5 DEF Ordered
  <1>11. Safe'
    BY <1>1, <1>2, <1>3, <1>5, <1>6, InvParts DEF Safe
  <1>12. Progress'
    BY <1>1 DEF Progress
  <1> QED BY <1>1, <1>7, <1>8, <1>9, <1>10, <1>11, <1>12 DEF JournalInv

LEMMA PublishStep ==
  ASSUME JournalInv, TypeOK', PublishGeneration
  PROVE  JournalInv' /\ Content(live)' = Content(live) /\ accepted' = accepted
  <1> DEFINE g == NextGeneration
             p == Pending(live)
  <1>1. /\ pc = "compact" /\ pc' = "published" /\ p # 0 /\ g \in Generations
        /\ local' = [local EXCEPT !.entry = p, !.generation = g]
        /\ live' = [live EXCEPT !.generations[g] = live.entries[p]]
        /\ UNCHANGED <<stable, written, accepted>>
    BY DEF PublishGeneration, Goto
  <1>2. \A n \in Generations : live.generations[n] # 0 => n # g
    BY NextGenerationType, InvParts
  <1>3. p \in Sequences /\ live.entries[p] # 0 /\ live.entries[p] \in 0..LastSnapshot
    BY <1>1, InvParts, PendingType, DiskType
  <1>4. Content(live) = live.entries[p]
    BY <1>1 DEF Content
  <1>5. Pending(live) = p
    OBVIOUS
  <1> HIDE DEF g, p
  <1>6. Bounded /\ Flushed /\ Ordered /\ Safe
    BY DEF JournalInv
  <1>7. /\ live' \in Disks /\ live'.generations[g] = live.entries[p]
        /\ \A m \in Generations : m # g => live'.generations[m] = live.generations[m]
        /\ live'.checkpoint = live.checkpoint /\ live'.entries = live.entries
        /\ live'.manifest = live.manifest
    <2>1. live \in Disks
      BY InvParts
    <2> QED BY <1>1, <1>3, <2>1 DEF Disks
  <1>8. local'.entry = p /\ local'.generation = g
    BY <1>1 DEF JournalInv, TypeOK
  <1>9. Pending(live') = p
    BY <1>5, <1>7, PendingAgrees, InvParts
  <1>10. Content(live') = Content(live)
    BY <1>1, <1>4, <1>7, <1>9 DEF Content
  <1>11. Above' = Above /\ Manifests' = Manifests
    BY <1>1, <1>7 DEF Above, Manifests
  <1>12. Bounded'
    BY <1>1, <1>3, <1>6, <1>7, InvParts DEF Bounded
  <1>13. Flushed'
    BY <1>1, <1>6, <1>7 DEF Flushed
  <1>14. Ordered'
    BY <1>1, <1>6, <1>7, <1>11 DEF Ordered
  <1>15. Safe'
    <2>1. \A m \in Manifests : live'.generations[m] = live.generations[m]
      BY <1>2, <1>6, <1>7, InvParts DEF Safe
    <2> QED BY <1>1, <1>6, <1>7, <1>10, <1>11, <2>1 DEF Safe
  <1>16. Progress'
    BY <1>1, <1>3, <1>7, <1>8, <1>9, InvParts DEF Progress
  <1> QED BY <1>1, <1>10, <1>12, <1>13, <1>14, <1>15, <1>16 DEF JournalInv

LEMMA FlushPublishedStep ==
  ASSUME JournalInv, TypeOK', FlushPublished
  PROVE  JournalInv' /\ Content(live)' = Content(live) /\ accepted' = accepted
  <1>1. /\ pc = "published" /\ pc' = "manifest" /\ UNCHANGED <<live, local, written, accepted>>
    BY DEF FlushPublished, Goto
  <1>2. /\ stable'.entries = stable.entries /\ stable'.checkpoint = stable.checkpoint
        /\ stable'.generations = live.generations /\ stable'.manifest = stable.manifest
    BY InvParts DEF FlushPublished, FlushGenerations, Disks
  <1>3. Bounded /\ Flushed /\ Ordered /\ Safe /\ Progress
    BY DEF JournalInv
  <1>4. Above' = Above /\ Manifests' = Manifests
    BY <1>1, <1>2 DEF Above, Manifests
  <1>5. Pending(stable') = Pending(stable)
    BY <1>2 DEF Pending
  <1>6. Content(live') = Content(live)
    BY <1>1
  <1>7. Bounded'
    BY <1>1, <1>2, <1>3 DEF Bounded
  <1>8. Flushed'
    BY <1>1, <1>2, <1>3 DEF Flushed
  <1>9. Ordered'
    BY <1>1, <1>2, <1>3, <1>4 DEF Ordered
  <1>10. Safe'
    BY <1>1, <1>2, <1>3, <1>4, <1>5, <1>6 DEF Safe
  <1>11. Progress'
    BY <1>1, <1>2, <1>3 DEF Progress
  <1> QED BY <1>1, <1>6, <1>7, <1>8, <1>9, <1>10, <1>11 DEF JournalInv

LEMMA WriteManifestStep ==
  ASSUME JournalInv, TypeOK', WriteManifest
  PROVE  JournalInv' /\ Content(live)' = Content(live) /\ accepted' = accepted
  <1> DEFINE g == local.generation
             p == local.entry
  <1>1. /\ pc = "manifest" /\ pc' = "manifest_written"
        /\ UNCHANGED <<stable, local, written, accepted>>
    BY DEF WriteManifest, Goto
  <1>2. /\ live'.entries = live.entries /\ live'.checkpoint = live.checkpoint
        /\ live'.generations = live.generations /\ live'.manifest = g
    BY InvParts DEF WriteManifest, Disks
  <1>3. Bounded /\ Flushed /\ Ordered /\ Safe /\ Progress
    BY DEF JournalInv
  <1>4. /\ p = Pending(live) /\ p # 0 /\ g # 0 /\ live.generations[g] = live.entries[p]
        /\ live.entries[p] # 0 /\ live.generations = stable.generations
    BY <1>1, <1>3 DEF Progress
  <1>5. Above' = Above /\ Manifests' \subseteq Manifests \cup {g}
    BY <1>1, <1>2 DEF Above, Manifests
  <1>6. Content(live) = live.entries[p] /\ Pending(live') = p
    BY <1>2, <1>4 DEF Content, Pending
  <1> HIDE DEF g, p
  <1>7. Content(live') = Content(live)
    BY <1>2, <1>4, <1>6 DEF Content
  <1>8. Bounded'
    BY <1>1, <1>2, <1>3 DEF Bounded
  <1>9. Flushed'
    BY <1>1, <1>2, <1>3 DEF Flushed
  <1>10. Ordered'
    BY <1>1, <1>2, <1>3, <1>5 DEF Ordered
  <1>11. Safe'
    <2>1. live.generations[g] \in accepted..Content(live)
      BY <1>4, <1>6, ContentBounded, InvParts
    <2>2. Pending(stable) = 0 /\ accepted # 0 => g # 0 /\ stable.manifest # 0
      BY <1>3, <1>4 DEF Safe
    <2>3. \A m \in Manifests \cup {g} :
             /\ live.generations[m] = stable.generations[m] /\ live.generations[m] # 0
             /\ Pending(stable) = 0 => live.generations[m] \in accepted..Content(live)
      BY <1>3, <1>4, <2>1 DEF Safe
    <2>4. \A n \in Above : live.entries[n] # 0 /\ stable.entries[n] = 0 => live.entries[n] >= accepted
      BY <1>3 DEF Safe
    <2>5. Pending(stable) # 0 => stable.entries[Pending(stable)] >= accepted
      BY <1>3 DEF Safe
    <2> QED BY <1>1, <1>2, <1>5, <1>7, <2>2, <2>3, <2>4, <2>5 DEF Safe
  <1>12. Progress'
    BY <1>1, <1>2, <1>4, <1>6 DEF Progress, g, p
  <1> QED BY <1>1, <1>7, <1>8, <1>9, <1>10, <1>11, <1>12 DEF JournalInv

LEMMA FlushManifestStep ==
  ASSUME JournalInv, TypeOK', FlushManifest
  PROVE  JournalInv' /\ Content(live)' = Content(live) /\ accepted' = accepted
  <1>1. /\ pc = "manifest_written" /\ pc' = "checkpoint"
        /\ UNCHANGED <<live, local, written, accepted>>
    BY DEF FlushManifest, Goto
  <1>2. /\ stable'.entries = stable.entries /\ stable'.checkpoint = stable.checkpoint
        /\ stable'.generations = stable.generations /\ stable'.manifest = live.manifest
    BY InvParts DEF FlushManifest, FlushRoot, Disks
  <1>3. Bounded /\ Flushed /\ Ordered /\ Safe /\ Progress
    BY DEF JournalInv
  <1>4. Above' = Above /\ Manifests' \subseteq Manifests
    BY <1>1, <1>2 DEF Above, Manifests
  <1>5. Pending(stable') = Pending(stable)
    BY <1>2 DEF Pending
  <1>6. Content(live') = Content(live)
    BY <1>1
  <1>7. Bounded'
    BY <1>1, <1>2, <1>3 DEF Bounded
  <1>8. Flushed'
    BY <1>1, <1>2, <1>3 DEF Flushed
  <1>9. Ordered'
    BY <1>1, <1>2, <1>3, <1>4 DEF Ordered
  <1>10. Safe'
    BY <1>1, <1>2, <1>3, <1>4, <1>5, <1>6 DEF Safe
  <1>11. Progress'
    BY <1>1, <1>2, <1>3 DEF Progress
  <1> QED BY <1>1, <1>6, <1>7, <1>8, <1>9, <1>10, <1>11 DEF JournalInv

LEMMA WriteCheckpointStep ==
  ASSUME JournalInv, TypeOK', WriteCheckpoint
  PROVE  JournalInv' /\ Content(live)' = Content(live) /\ accepted' = accepted
  <1> DEFINE p == local.entry
  <1>1. /\ pc = "checkpoint" /\ pc' = "checkpoint_written"
        /\ UNCHANGED <<stable, local, written, accepted>>
    BY DEF WriteCheckpoint, Goto
  <1>2. /\ live'.entries = live.entries /\ live'.checkpoint = p
        /\ live'.generations = live.generations /\ live'.manifest = live.manifest
    BY InvParts DEF WriteCheckpoint, Disks
  <1>3. Bounded /\ Flushed /\ Ordered /\ Safe /\ Progress
    BY DEF JournalInv
  <1>4. /\ p = Pending(live) /\ p # 0 /\ local.generation # 0
        /\ live.generations[local.generation] = live.entries[p]
        /\ live.entries[p] # 0 /\ live.manifest = local.generation
        /\ stable.checkpoint = live.checkpoint /\ stable.manifest = live.manifest
    BY <1>1, <1>3 DEF Progress, Flushed
  <1>5. p > live.checkpoint /\ \A n \in Sequences : live.entries[n] # 0 /\ n > live.checkpoint => n <= p
    BY <1>4, InvParts, PendingType
  <1>6. p \in Nat
    BY InvParts
  <1>7. Content(live) = live.entries[p]
    BY <1>4 DEF Content
  <1>8. local' = local /\ local.entry = p
    BY <1>1
  <1> HIDE DEF p
  <1>9. Pending(live') = 0
    <2>1. live' \in Disks
      BY DEF TypeOK
    <2>2. \A n \in Sequences : live'.entries[n] = 0 \/ n <= live'.checkpoint
      BY <1>2, <1>5, <1>6, InvParts
    <2> QED BY <2>1, <2>2, PendingNone
  <1>10. Content(live') = Content(live)
    BY <1>2, <1>4, <1>7, <1>9 DEF Content
  <1>11. Above' = Above /\ Manifests' = Manifests
    BY <1>1, <1>2 DEF Above, Manifests
  <1>12. Bounded'
    BY <1>1, <1>2, <1>3 DEF Bounded
  <1>13. Flushed'
    BY <1>1, <1>2, <1>4, <1>5, <1>6, InvParts DEF Flushed
  <1>14. Ordered'
    BY <1>1, <1>2, <1>3, <1>11 DEF Ordered
  <1>15. Safe'
    BY <1>1, <1>2, <1>3, <1>10, <1>11 DEF Safe
  <1>16. Progress'
    BY <1>1, <1>2, <1>4, <1>5, <1>8, <1>9 DEF Progress
  <1> QED BY <1>1, <1>10, <1>12, <1>13, <1>14, <1>15, <1>16 DEF JournalInv

LEMMA FlushCheckpointStep ==
  ASSUME JournalInv, TypeOK', FlushCheckpoint
  PROVE  JournalInv' /\ Content(live)' = Content(live) /\ accepted' = accepted
  <1>1. /\ pc = "checkpoint_written" /\ pc' = "removing" /\ FlushJournalDirectory
        /\ UNCHANGED <<live, local, written, accepted>>
    BY DEF FlushCheckpoint, Goto
  <1>2. /\ stable' \in Disks
        /\ stable'.entries = live.entries /\ stable'.checkpoint = live.checkpoint
        /\ stable'.generations = stable.generations /\ stable'.manifest = stable.manifest
    BY <1>1, JournalFlushed, InvParts
  <1>3. Bounded /\ Flushed /\ Ordered /\ Safe /\ Progress
    BY DEF JournalInv
  <1>4. /\ live.checkpoint = local.entry /\ Pending(live) = 0 /\ local.generation # 0
        /\ live.manifest = local.generation /\ stable.manifest = live.manifest
        /\ stable.checkpoint <= live.checkpoint
    BY <1>1, <1>3 DEF Progress, Flushed
  <1>5. Above' \subseteq Above /\ Manifests' = Manifests /\ Manifests = {live.manifest}
    BY <1>1, <1>2, <1>4, InvParts DEF Above, Manifests
  <1>6. Pending(stable') = 0
    BY <1>2, <1>4, PendingAgrees, InvParts
  <1>7. Content(live) = live.generations[live.manifest] /\ Content(live') = Content(live)
    BY <1>1, <1>4 DEF Content
  <1>8. Bounded'
    BY <1>1, <1>2, <1>3 DEF Bounded
  <1>9. Flushed'
    BY <1>1, <1>2, <1>4, InvParts DEF Flushed
  <1>10. Ordered'
    BY <1>1, <1>2, <1>3, <1>5 DEF Ordered
  <1>11. Safe'
    <2>1. live.generations[live.manifest] \in accepted..Content(live)
      BY <1>7, ContentBounded, InvParts
    <2>2. /\ live.generations[live.manifest] = stable.generations[live.manifest]
          /\ live.generations[live.manifest] # 0
      BY <1>3, <1>5 DEF Safe
    <2> QED BY <1>1, <1>2, <1>4, <1>5, <1>6, <1>7, <2>1, <2>2 DEF Safe
  <1>12. Progress'
    BY <1>1, <1>4, InvParts DEF Progress
  <1> QED BY <1>1, <1>7, <1>8, <1>9, <1>10, <1>11, <1>12 DEF JournalInv

LEMMA SkipStep ==
  ASSUME JournalInv, TypeOK', SkipToCleanup
  PROVE  JournalInv' /\ Content(live)' = Content(live) /\ accepted' = accepted
  <1>1. /\ pc = "compact" /\ pc' = "removing" /\ UNCHANGED <<live, stable, written, accepted>>
        /\ local'.entry = live.checkpoint
    BY DEF SkipToCleanup, Goto, JournalInv, TypeOK
  <1>2. Flushed'
    BY <1>1 DEF JournalInv, Flushed
  <1>3. Progress'
    BY <1>1, InvParts DEF Progress
  <1> QED BY <1>1, <1>2, <1>3, DisksUnchanged

LEMMA RemoveStep ==
  ASSUME JournalInv, TypeOK', RemoveEntry
  PROVE  JournalInv' /\ Content(live)' = Content(live) /\ accepted' = accepted
  <1> DEFINE k == Min(Removable)
  <1>1. /\ pc = "removing" /\ UNCHANGED <<stable, pc, written, accepted>>
        /\ live' = [live EXCEPT !.entries[k] = 0] /\ Removable # {}
        /\ local'.entry = local.entry
    BY DEF RemoveEntry, TypeOK
  <1>2. k \in Sequences /\ k <= local.entry
    <2>1. Removable \in SUBSET Present(live.entries)
      BY DEF Removable
    <2>2. IsFiniteSet(Removable) /\ Removable \subseteq Sequences
      BY <2>1, FS_Subset, PresentType, InvParts
    <2>3. Removable \subseteq Nat
      BY <2>2 DEF Sequences
    <2>4. k \in Removable
      BY <1>1, <2>2, <2>3, MinOfFinite
    <2> QED BY <2>2, <2>4 DEF Removable
  <1> HIDE DEF k
  <1>3. Bounded /\ Flushed /\ Ordered /\ Safe /\ Progress
    BY DEF JournalInv
  <1>4. /\ live' \in Disks /\ live'.entries[k] = 0
        /\ \A m \in Sequences : m # k => live'.entries[m] = live.entries[m]
        /\ live'.checkpoint = live.checkpoint /\ live'.generations = live.generations
        /\ live'.manifest = live.manifest
    <2>1. live \in Disks /\ 0 \in 0..LastSnapshot
      BY InvParts, BoundsAssumption
    <2> QED BY <1>1, <1>2, <2>1 DEF Disks
  <1>5. stable.checkpoint = live.checkpoint /\ local.entry <= live.checkpoint
    BY <1>1, <1>3 DEF Flushed, Progress
  <1>6. k <= live.checkpoint
    BY <1>2, <1>5, InvParts
  <1>7. Above' = Above /\ Manifests' = Manifests /\ k \notin Above
    BY <1>1, <1>4, <1>5, <1>6, InvParts DEF Above, Manifests
  <1>8. \A n \in Above : live'.entries[n] = live.entries[n]
    BY <1>4, <1>7 DEF Above
  <1>9. Pending(live') = Pending(live)
    <2>1. \A n \in Sequences : n > live.checkpoint => live.entries[n] = live'.entries[n]
      BY <1>4, <1>6, InvParts
    <2>2. live \in Disks
      BY InvParts
    <2> QED BY <1>4, <2>1, <2>2, PendingAgrees
  <1>10. Content(live') = Content(live)
    <2>1. CASE Pending(live) = 0
      BY <1>4, <1>9, <2>1 DEF Content
    <2>2. CASE Pending(live) # 0
      <3> DEFINE p == Pending(live)
      <3>1. p \in Sequences /\ p > live.checkpoint
        BY <2>2, InvParts, PendingType
      <3>2. p # k
        BY <1>6, <3>1, InvParts
      <3>3. live'.entries[p] = live.entries[p]
        BY <1>4, <3>1, <3>2
      <3>4. Content(live') = live'.entries[p] /\ Content(live) = live.entries[p]
        BY <1>9, <2>2 DEF Content
      <3> QED BY <3>3, <3>4
    <2> QED BY <2>1, <2>2
  <1>11. Bounded'
    BY <1>1, <1>3, <1>4, InvParts DEF Bounded
  <1>12. Flushed'
    BY <1>1, <1>3, <1>4 DEF Flushed
  <1>13. Ordered'
    BY <1>1, <1>3, <1>7, <1>8 DEF Ordered
  <1>14. Safe'
    BY <1>1, <1>3, <1>4, <1>7, <1>8, <1>10 DEF Safe
  <1>15. Progress'
    BY <1>1, <1>3, <1>4 DEF Progress
  <1> QED BY <1>1, <1>10, <1>11, <1>12, <1>13, <1>14, <1>15 DEF JournalInv

LEMMA FlushRemovalStep ==
  ASSUME JournalInv, TypeOK', FlushRemoval
  PROVE  JournalInv' /\ Content(live)' = Content(live) /\ accepted' = accepted
  <1>0. CASE ~local.removed
    <2>1. /\ pc = "removing" /\ pc' = "idle"
          /\ UNCHANGED <<live, stable, written, accepted>>
      BY <1>0 DEF FlushRemoval, Finish
    <2>2. Flushed' /\ Progress'
      BY <2>1 DEF JournalInv, Flushed, Progress
    <2> QED BY <2>1, <2>2, DisksUnchanged
  <1> SUFFICES ASSUME local.removed
               PROVE  JournalInv' /\ Content(live)' = Content(live) /\ accepted' = accepted
    BY <1>0
  <1>1. /\ pc = "removing" /\ pc' = "idle" /\ FlushJournalDirectory
        /\ UNCHANGED <<live, written, accepted>>
    BY DEF FlushRemoval, Finish
  <1>2. /\ stable' \in Disks
        /\ stable'.entries = live.entries /\ stable'.checkpoint = live.checkpoint
        /\ stable'.generations = stable.generations /\ stable'.manifest = stable.manifest
    BY <1>1, JournalFlushed, InvParts
  <1>3. Bounded /\ Flushed /\ Ordered /\ Safe
    BY DEF JournalInv
  <1>4. stable.checkpoint = live.checkpoint /\ stable.manifest = live.manifest
    BY <1>1, <1>3 DEF Flushed
  <1>5. Above' = Above /\ Manifests' = Manifests
    BY <1>1, <1>2, <1>4 DEF Above, Manifests
  <1>6. Pending(stable') = Pending(live)
    BY <1>2, PendingAgrees, InvParts
  <1>7. Content(live') = Content(live)
    BY <1>1
  <1>8. Bounded'
    BY <1>1, <1>2, <1>3 DEF Bounded
  <1>9. Flushed'
    BY <1>1, <1>2, <1>4, InvParts DEF Flushed
  <1>10. Ordered'
    BY <1>1, <1>2, <1>3, <1>5 DEF Ordered
  <1>11. Pending(live) = 0 => Pending(stable) = 0
    <2> SUFFICES ASSUME Pending(live) = 0 PROVE Pending(stable) = 0
      OBVIOUS
    <2>1. \A n \in Sequences : live.entries[n] # 0 /\ n > live.checkpoint => n <= 0
      BY PendingType, InvParts
    <2>2. ASSUME NEW n \in Sequences, stable.entries[n] # 0, n > stable.checkpoint PROVE FALSE
      <3>1. n \in Above
        BY <2>2 DEF Above
      <3>2. live.entries[n] # 0
        BY <1>3, <2>2, <3>1 DEF Ordered
      <3> QED BY <1>4, <2>1, <2>2, <3>2, InvParts
    <2> QED BY <2>2, PendingType, InvParts
  <1>12. Pending(live) # 0 => live.entries[Pending(live)] >= accepted
    BY ContentBounded, InvParts DEF Content
  <1>13. Safe'
    BY <1>1, <1>2, <1>3, <1>5, <1>6, <1>7, <1>11, <1>12 DEF Safe
  <1>14. Progress'
    BY <1>1 DEF Progress
  <1> QED BY <1>1, <1>7, <1>8, <1>9, <1>10, <1>13, <1>14 DEF JournalInv

LEMMA PruneStep ==
  ASSUME JournalInv, TypeOK', PruneGeneration
  PROVE  JournalInv' /\ Content(live)' = Content(live) /\ accepted' = accepted
  <1> DEFINE g == Max(Prunable)
  <1>1. /\ pc = "pruning" /\ UNCHANGED <<stable, pc, local, written, accepted>>
        /\ live' = [live EXCEPT !.generations[g] = 0] /\ Prunable # {}
    BY DEF PruneGeneration
  <1>2. g \in Generations /\ g # live.manifest
    <2>1. Prunable \in SUBSET Present(live.generations) /\ live.manifest \notin Prunable
      BY DEF Prunable, Stale
    <2>2. IsFiniteSet(Prunable) /\ Prunable \subseteq Generations
      BY <2>1, FS_Subset, PresentType, InvParts
    <2>3. Prunable \subseteq Int
      BY <2>2 DEF Generations
    <2>4. g \in Prunable
      BY <1>1, <2>2, <2>3, MaxOfFinite
    <2> QED BY <2>1, <2>2, <2>4
  <1> HIDE DEF g
  <1>3. Bounded /\ Flushed /\ Ordered /\ Safe
    BY DEF JournalInv
  <1>4. /\ live' \in Disks /\ live'.generations[g] = 0
        /\ \A m \in Generations : m # g => live'.generations[m] = live.generations[m]
        /\ live'.checkpoint = live.checkpoint /\ live'.entries = live.entries
        /\ live'.manifest = live.manifest
    <2>1. live \in Disks /\ 0 \in 0..LastSnapshot
      BY InvParts, BoundsAssumption
    <2> QED BY <1>1, <1>2, <2>1 DEF Disks
  <1>5. stable.checkpoint = live.checkpoint /\ stable.manifest = live.manifest
    BY <1>1, <1>3 DEF Flushed
  <1>6. Above' = Above /\ Manifests' = Manifests
    BY <1>1, <1>4 DEF Above, Manifests
  <1>7. \A m \in Manifests : live'.generations[m] = live.generations[m]
    <2>1. \A m \in Manifests : m = live.manifest /\ m \in Generations
      BY <1>5, InvParts DEF Manifests
    <2> QED BY <1>2, <1>4, <2>1
  <1>8. Pending(live') = Pending(live)
    BY <1>4, PendingAgrees, InvParts
  <1>9. Content(live') = Content(live)
    <2>1. live.manifest # 0 => live.manifest \in Manifests
      BY DEF Manifests
    <2> QED BY <1>4, <1>7, <1>8, <2>1 DEF Content
  <1>10. Bounded'
    BY <1>1, <1>3, <1>4, InvParts DEF Bounded
  <1>11. Flushed'
    BY <1>1, <1>3, <1>4 DEF Flushed
  <1>12. Ordered'
    BY <1>1, <1>3, <1>4, <1>6 DEF Ordered
  <1>13. Safe'
    BY <1>1, <1>3, <1>4, <1>6, <1>7, <1>9 DEF Safe
  <1>14. Progress'
    BY <1>1 DEF Progress
  <1> QED BY <1>1, <1>9, <1>10, <1>11, <1>12, <1>13, <1>14 DEF JournalInv

\* Operations that begin, end or fail between two renames leave the disk as it is.
LEMMA QuietStep ==
  ASSUME JournalInv, TypeOK', Reliable,
         BeginCompaction \/ (\E keep \in Keeps : BeginPrune(keep)) \/ EndPrune \/ Fail
  PROVE  JournalInv' /\ Content(live)' = Content(live) /\ accepted' = accepted
  <1>1. /\ UNCHANGED <<live, stable, written, accepted>> /\ pc' \in {"idle", "compact", "pruning"}
        /\ pc \notin {"manifest_written", "checkpoint_written"}
    BY DEF BeginCompaction, BeginPrune, EndPrune, Fail, Goto, Finish, Reliable
  <1>2. Flushed'
    BY <1>1 DEF JournalInv, Flushed
  <1>3. Progress'
    BY <1>1 DEF Progress
  <1> QED BY <1>1, <1>2, <1>3, DisksUnchanged

\* The next process finds one of the outcomes, and nothing of it is in doubt any more.
LEMMA CrashStep ==
  ASSUME JournalInv, TypeOK', Crash
  PROVE  /\ JournalInv' /\ accepted' = accepted
         /\ Content(live)' \in accepted..Content(live)
  <1>1. /\ live' \in CrashOutcomes /\ stable' = live' /\ pc' = "idle"
        /\ UNCHANGED <<written, accepted>>
    BY DEF Crash, Finish
  <1>2. PICK x \in CrashOutcomes : live' = x /\ stable' = x
    BY <1>1
  <1>3. /\ x \in Disks
        /\ \A n \in Sequences : x.entries[n] \in {live.entries[n], stable.entries[n]}
        /\ \A n \in Generations : x.generations[n] \in {live.generations[n], stable.generations[n]}
    BY OutcomeType, InvParts
  <1>4. /\ Readable(x) /\ Content(x) >= accepted /\ Content(x) <= Content(live)
        /\ x.manifest # 0 => x.generations[x.manifest] # 0
    BY OutcomeSound
  <1>5. \A n \in Sequences : n > x.checkpoint /\ x.entries[n] # 0 =>
                             n \in Above /\ live.entries[n] # 0 /\ x.entries[n] = live.entries[n]
    BY OutcomeAbove
  <1>6. Bounded /\ Ordered
    BY DEF JournalInv
  <1>7. Bounded'
    BY <1>1, <1>2, <1>3, <1>6, InvParts DEF Bounded
  <1>8. Flushed'
    BY <1>1, <1>2, <1>3, DiskType DEF Flushed
  <1>9. Ordered'
    BY <1>1, <1>2, <1>5, <1>6 DEF Ordered, Above
  <1>10. Content(x) \in Nat /\ accepted \in Nat /\ Content(live) \in Nat
    BY <1>3, ContentType, InvParts
  <1>11. Safe'
    <2>1. Pending(x) # 0 => x.entries[Pending(x)] >= accepted
      BY <1>4 DEF Content
    <2>2. Pending(x) = 0 /\ accepted # 0 => x.manifest # 0
      BY <1>4, <1>10 DEF Content
    <2>3. Pending(x) = 0 /\ x.manifest # 0 => x.generations[x.manifest] \in accepted..Content(x)
      BY <1>4, <1>10 DEF Content
    <2> QED BY <1>1, <1>2, <1>4, <2>1, <2>2, <2>3 DEF Safe, Above, Manifests
  <1>12. Progress'
    BY <1>1 DEF Progress
  <1>13. Content(live)' = Content(x)
    BY <1>2
  <1> QED BY <1>1, <1>4, <1>7, <1>8, <1>9, <1>10, <1>11, <1>12, <1>13 DEF JournalInv

--------------------------------------------------------------------------------
(* The theorems *)

\* The whole of Next: what the store does to a reader, besides keeping the invariant.
LEMMA StoreStep ==
  ASSUME Reliable, JournalInv, [Next]_vars
  PROVE  JournalInv' /\ [Store!Next]_Store!vars
  <1>1. TypeOK'
    BY TypeStep DEF JournalInv
  <1>2. Content(live) \in Nat /\ written \in Nat /\ accepted \in Nat
        /\ accepted <= Content(live) /\ Content(live) <= written
    BY InvParts, ContentBounded
  <1> USE DEF Store!Next, Store!vars
  <1>3. CASE \E compacts \in BOOLEAN : Append(compacts)
    <2>1. JournalInv' /\ Content(live)' = written + 1 /\ accepted' = accepted
      BY <1>1, <1>3, AppendStep
    <2>2. Store!Offer
      BY <1>2, <2>1 DEF Store!Offer
    <2> QED BY <2>1, <2>2
  <1>4. CASE AcceptEntry
    <2>1. JournalInv' /\ Content(live)' = Content(live) /\ accepted' = Content(live)
      BY <1>1, <1>4, AcceptStep
    <2>2. Store!Accept
      BY <2>1 DEF Store!Accept
    <2> QED BY <2>1, <2>2
  <1>5. CASE Compaction
    <2>1. JournalInv' /\ Content(live)' = Content(live) /\ accepted' = accepted
      BY <1>1, <1>5, PublishStep, FlushPublishedStep, WriteManifestStep, FlushManifestStep,
         WriteCheckpointStep, FlushCheckpointStep, SkipStep, RemoveStep, FlushRemovalStep
         DEF Compaction
    <2> QED BY <2>1
  <1>6. CASE BeginCompaction \/ (\E keep \in Keeps : BeginPrune(keep)) \/ EndPrune \/ Fail
    <2>1. JournalInv' /\ Content(live)' = Content(live) /\ accepted' = accepted
      BY <1>1, <1>6, QuietStep
    <2> QED BY <2>1
  <1>7. CASE PruneGeneration
    <2>1. JournalInv' /\ Content(live)' = Content(live) /\ accepted' = accepted
      BY <1>1, <1>7, PruneStep
    <2> QED BY <2>1
  <1>8. CASE Crash
    <2>1. JournalInv' /\ accepted' = accepted /\ Content(live)' \in accepted..Content(live)
      BY <1>1, <1>8, CrashStep
    <2>2. Store!Crash
      BY <2>1 DEF Store!Crash
    <2> QED BY <2>1, <2>2
  <1>9. CASE UNCHANGED vars
    <2>1. UNCHANGED <<live, stable, written, accepted, pc, local>>
      BY <1>9 DEF vars
    <2>2. Flushed' /\ Progress'
      BY <2>1 DEF JournalInv, Flushed, Progress, Pending, Present, Highest
    <2>3. JournalInv' /\ Content(live)' = Content(live)
      BY <1>1, <2>1, <2>2, DisksUnchanged
    <2> QED BY <2>1, <2>3
  <1> QED BY <1>3, <1>4, <1>5, <1>6, <1>7, <1>8, <1>9 DEF Next

\* The two views of the disk differ only in ways that no crash can turn into a loss: entries
\* are ordered, manifests name equal generations, and what is removed is covered elsewhere.
THEOREM JournalInvariant == Reliable => (Spec => []JournalInv)
  <1> SUFFICES ASSUME Reliable PROVE Spec => []JournalInv
    OBVIOUS
  <1>1. JournalInv /\ [Next]_vars => JournalInv'
    BY StoreStep
  <1> QED BY JournalInit, <1>1, PTL DEF Spec

\* Whatever step of an append, a compaction or a prune a crash interrupts, however the names
\* not yet flushed settle, and whatever else failed before, the next process can read a
\* snapshot that is not older than the last one reported as durably accepted.
THEOREM AcceptedSurvivesCrashes == Reliable => (Spec => []AcceptedSurvives)
  <1> SUFFICES ASSUME Reliable PROVE Spec => []AcceptedSurvives
    OBVIOUS
  <1>1. JournalInv => AcceptedSurvives
    BY OutcomeSound DEF AcceptedSurvives
  <1> QED BY JournalInvariant, <1>1, PTL

\* The full-snapshot database is the register of SaveStore: only an append offers a value,
\* only the flush after it accepts one, a crash goes back at most to what was accepted, and
\* every other step is invisible to a reader.
THEOREM ImplementsSaveStore == Reliable => (Spec => ImplementsStore)
  <1> SUFFICES ASSUME Reliable PROVE Spec => ImplementsStore
    OBVIOUS
  <1>1. Init => Store!Init
    <2> SUFFICES ASSUME Init PROVE Store!Init
      OBVIOUS
    <2>1. live = EmptyDisk /\ accepted = 0 /\ live \in Disks
      BY TypeInit DEF Init, TypeOK
    <2>2. \A n \in Sequences : live.entries[n] = 0
      BY <2>1 DEF EmptyDisk
    <2>3. Pending(live) = 0 /\ live.manifest = 0
      BY <2>1, <2>2, PendingNone DEF EmptyDisk
    <2> QED BY <2>1, <2>3 DEF Store!Init, Content
  <1>2. JournalInv /\ [Next]_vars => [Store!Next]_Store!vars
    BY StoreStep
  <1> QED BY JournalInvariant, <1>1, <1>2, PTL DEF Spec, ImplementsStore, Store!Spec

================================================================================

-------------------------- MODULE ChunkLightingProofs --------------------------
(***************************************************************************)
(* Proofs about ChunkLighting, for every number of chunks, every size of a  *)
(* chunk, every copying budget and every number of events: typing, that     *)
(* light is only applied to the world it was solved from, and that a        *)
(* lighting stage never claims light that it does not have.                 *)
(***************************************************************************)
EXTENDS ChunkLighting, FiniteSetTheorems, TLAPS

Stages == {"requested", "running", "resident", "stale", "cancelled"}
ChunkRecords == [gen : Nat, rev : Nat, ticket : Nat, stage : Stages, dirty : BOOLEAN]
Settings == [sources : Nat, palette : Nat]

Snapshots(D) == [stage : {"copying"}, setting : Settings, copied : Nat, gens : [D -> Nat],
                 tickets : [D -> Nat], revs : [D -> Nat], cells : [D -> SUBSET Nat]]
IsSnapshot(s) == DOMAIN s.tickets \subseteq 1..Line /\ s \in Snapshots(DOMAIN s.tickets)

(* What a snapshot knows of a world of chunks t with light-relevant versions g: where the  *)
(* chunk is still the one copied, in the revision copied, the copy is the chunk's content. *)
Agrees(s, t, g) ==
  \A c \in DOMAIN s.tickets :
    /\ s.gens[c] <= g[c]
    /\ c \in DOMAIN t /\ t[c].gen = s.gens[c] =>
         /\ s.revs[c] <= t[c].rev
         /\ t[c].rev = s.revs[c] => s.cells[c] \subseteq {g[c]}

\* How any step may change chunks and versions.
Evolution(t, g, t2, g2) ==
  /\ \A c \in 1..Line : g[c] <= g2[c]
  /\ \A c \in DOMAIN t2 :
       \/ /\ c \in DOMAIN t /\ t2[c].gen = t[c].gen /\ t[c].rev <= t2[c].rev
          /\ t2[c].rev = t[c].rev => g2[c] = g[c]
       \/ t2[c].gen > g[c]

IsTable(t) == DOMAIN t \subseteq 1..Line /\ t \in [DOMAIN t -> ChunkRecords]

\* A copy keeps agreeing with a world that only evolves.
LEMMA AgreesLasts ==
  ASSUME NEW s, NEW t, NEW g, NEW t2, NEW g2, IsSnapshot(s), IsTable(t), IsTable(t2),
         g \in [1..Line -> Nat], g2 \in [1..Line -> Nat],
         Agrees(s, t, g), Evolution(t, g, t2, g2)
  PROVE  Agrees(s, t2, g2)
  <1> SUFFICES ASSUME NEW c \in DOMAIN s.tickets
               PROVE  /\ s.gens[c] <= g2[c]
                      /\ c \in DOMAIN t2 /\ t2[c].gen = s.gens[c] =>
                           /\ s.revs[c] <= t2[c].rev
                           /\ t2[c].rev = s.revs[c] => s.cells[c] \subseteq {g2[c]}
    BY DEF Agrees
  <1>1. /\ c \in 1..Line /\ s.gens[c] \in Nat /\ s.revs[c] \in Nat
        /\ g[c] \in Nat /\ g2[c] \in Nat /\ g[c] <= g2[c] /\ s.gens[c] <= g[c]
    BY DEF IsSnapshot, Snapshots, Agrees, Evolution
  <1>2. ASSUME c \in DOMAIN t2, t2[c].gen = s.gens[c]
        PROVE  /\ s.revs[c] <= t2[c].rev
               /\ t2[c].rev = s.revs[c] => s.cells[c] \subseteq {g2[c]}
    <2>1. t2[c].gen \in Nat /\ t2[c].rev \in Nat
      BY <1>2 DEF IsTable, ChunkRecords
    <2>2. /\ c \in DOMAIN t /\ t2[c].gen = t[c].gen /\ t[c].rev <= t2[c].rev
          /\ t2[c].rev = t[c].rev => g2[c] = g[c]
      BY <1>1, <1>2, <2>1 DEF Evolution
    <2>3. t[c].rev \in Nat
      BY <2>2 DEF IsTable, ChunkRecords
    <2>4. s.revs[c] <= t[c].rev /\ (t[c].rev = s.revs[c] => s.cells[c] \subseteq {g[c]})
      BY <1>2, <2>2 DEF Agrees
    <2> QED BY <1>1, <2>1, <2>2, <2>3, <2>4
  <1> QED BY <1>1, <1>2

--------------------------------------------------------------------------------
(* Copying *)

\* The chunks that the copy has reached have something in it.
Covered(s) ==
  \A c \in DOMAIN s.tickets : Position(s.tickets, c) * Cells < s.copied => s.cells[c] # {}

Whole(s) == \A c \in DOMAIN s.tickets : s.cells[c] # {}

LEMMA PositionType ==
  ASSUME NEW t, DOMAIN t \subseteq 1..Line, NEW c \in DOMAIN t
  PROVE  /\ Position(t, c) \in Nat /\ Cardinality(DOMAIN t) \in Nat
         /\ Position(t, c) < Cardinality(DOMAIN t)
  <1>1. IsFiniteSet(1..Line)
    BY BoundsAssumption, FS_Interval
  <1>2. IsFiniteSet(DOMAIN t) /\ DOMAIN t \in SUBSET (1..Line)
    BY <1>1, FS_Subset
  <1> DEFINE before == {d \in DOMAIN t : d < c}
  <1>3. before \in SUBSET DOMAIN t /\ before # DOMAIN t
    BY BoundsAssumption
  <1>4. /\ IsFiniteSet(before)
        /\ Cardinality(before) < Cardinality(DOMAIN t)
    BY <1>2, <1>3, FS_Subset, FS_CardinalityType
  <1>5. Cardinality(before) \in Nat /\ Cardinality(DOMAIN t) \in Nat
    BY <1>2, <1>4, FS_CardinalityType
  <1> QED BY <1>4, <1>5 DEF Position

LEMMA ProductOrder ==
  ASSUME NEW a \in Nat, NEW b \in Nat, NEW m \in Nat \ {0}, a < b
  PROVE  a * m < b * m /\ a * m \in Nat /\ b * m \in Nat /\ (a + 1) * m = a * m + m
         /\ (a + 1) * m <= b * m
  OBVIOUS

\* Copying the next cells keeps a current snapshot typed, agreeing and covered; at the end it
\* is whole.
LEMMA CopiedType ==
  ASSUME NEW s, NEW t, IsSnapshot(s), IsTable(t), DOMAIN t = DOMAIN s.tickets,
         geometry \in [1..Line -> Nat], Agrees(s, t, geometry), Covered(s),
         \A c \in DOMAIN t : t[c].gen = s.gens[c] /\ t[c].rev = s.revs[c]
  PROVE  /\ IsSnapshot(Copied(s, t)) /\ Agrees(Copied(s, t), t, geometry)
         /\ Covered(Copied(s, t))
         /\ Copied(s, t).tickets = s.tickets /\ Copied(s, t).setting = s.setting
         /\ Copied(s, t).gens = s.gens /\ Copied(s, t).revs = s.revs
         /\ Complete(Copied(s, t)) => Whole(Copied(s, t))
  <1> DEFINE n == Copied(s, t)
             size == Cardinality(DOMAIN t) * Cells
             last == s.copied + Budget
             reached(c) == Position(t, c) * Cells < last /\ s.copied < (Position(t, c) + 1) * Cells
             more(c) == IF reached(c) THEN {geometry[c]} ELSE {}
  <1> USE BoundsAssumption
  <1>1. /\ n.stage = "copying" /\ n.tickets = s.tickets /\ n.gens = s.gens /\ n.revs = s.revs
        /\ n.setting = s.setting
        /\ n.copied = IF last < size THEN last ELSE size
        /\ n.cells = [c \in DOMAIN t |-> s.cells[c] \cup more(c)]
        /\ n = [n EXCEPT !.copied = n.copied]
    BY DEF Copied, IsSnapshot, Snapshots
  <1>2. \A c \in DOMAIN t : more(c) \subseteq {geometry[c]} /\ geometry[c] \in Nat
    BY DEF IsTable
  <1>3. size \in Nat
    <2>1. IsFiniteSet(DOMAIN t)
      <3>1. IsFiniteSet(1..Line) /\ DOMAIN t \in SUBSET (1..Line)
        BY FS_Interval DEF IsTable
      <3> QED BY <3>1, FS_Subset
    <2>2. Cardinality(DOMAIN t) \in Nat
      BY <2>1, FS_CardinalityType
    <2> QED BY <2>2
  <1>4. IsSnapshot(n)
    <2>1. n.copied \in Nat
      BY <1>1, <1>3 DEF IsSnapshot, Snapshots
    <2>2. n.cells \in [DOMAIN t -> SUBSET Nat]
      BY <1>1, <1>2 DEF IsSnapshot, Snapshots
    <2> HIDE DEF size, last, reached, more
    <2> QED BY <1>1, <2>1, <2>2 DEF Copied, IsSnapshot, Snapshots
  <1>5. Agrees(n, t, geometry)
    BY <1>1, <1>2 DEF Agrees, IsSnapshot, Snapshots
  <1>6. ASSUME NEW c \in DOMAIN t, Position(t, c) * Cells < last
        PROVE  n.cells[c] # {}
    <2>1. Position(t, c) \in Nat /\ Position(t, c) = Position(s.tickets, c)
      BY PositionType DEF Position, IsTable
    <2>2. (Position(t, c) + 1) * Cells = Position(t, c) * Cells + Cells
          /\ Position(t, c) * Cells \in Nat
      BY <2>1, ProductOrder
    <2>3. CASE Position(t, c) * Cells < s.copied
      BY <1>1, <2>1, <2>3 DEF Covered
    <2>4. CASE s.copied <= Position(t, c) * Cells
      <3>1. reached(c)
        BY <1>6, <2>2, <2>4 DEF IsSnapshot, Snapshots
      <3> QED BY <1>1, <3>1
    <2> QED BY <2>2, <2>3, <2>4 DEF IsSnapshot, Snapshots
  <1>7. \A c \in DOMAIN t : Position(n.tickets, c) = Position(t, c)
    BY <1>1 DEF Position
  <1>8. ASSUME NEW c \in DOMAIN t PROVE Position(t, c) * Cells < size /\ Position(t, c) * Cells \in Nat
    <2>1. Position(t, c) \in Nat /\ Cardinality(DOMAIN t) \in Nat
          /\ Position(t, c) < Cardinality(DOMAIN t)
      BY PositionType DEF IsTable
    <2> QED BY <2>1, ProductOrder
  <1>9. Covered(n)
    <2> SUFFICES ASSUME NEW c \in DOMAIN t, Position(t, c) * Cells < n.copied
                 PROVE  n.cells[c] # {}
      BY <1>1, <1>7 DEF Covered
    <2>1. last \in Nat
      BY DEF IsSnapshot, Snapshots
    <2> HIDE DEF n, size, last
    <2>2. Position(t, c) * Cells < last
      BY <1>1, <1>3, <1>8, <2>1
    <2> QED BY <1>6, <2>2
  <1>10. Complete(n) => Whole(n)
    <2> SUFFICES ASSUME Complete(n), NEW c \in DOMAIN t PROVE n.cells[c] # {}
      BY <1>1 DEF Whole
    <2>1. n.copied = size
      BY <1>1 DEF Complete
    <2>2. last \in Nat
      BY DEF IsSnapshot, Snapshots
    <2>3. Position(t, c) * Cells < last
      BY <1>1, <1>3, <1>8, <2>1, <2>2
    <2> QED BY <1>6, <2>3
  <1> QED BY <1>1, <1>4, <1>5, <1>9, <1>10

--------------------------------------------------------------------------------
(* Types and occupancy *)

Results == [outcome : {"succeeded", "failed", "cancelled"},
            snapshot : UNION {Snapshots(D) : D \in SUBSET (1..Line)}]

IsJob(j) == /\ j = None \/ j.stage \in {"queued", "solving", "finishing"}
            /\ j # None => j = [stage |-> j.stage, snapshot |-> j.snapshot]
                            /\ IsSnapshot(j.snapshot)

TypeInv ==
  /\ state \in {"running", "stopped", "pool_full", "solve_failed"}
  /\ phase \in {"idle", "refreshed", "applied"}
  /\ IsTable(chunks) /\ DOMAIN light = Resident
  /\ geometry \in [1..Line -> Nat]
  /\ setting \in Settings /\ adopted \in Settings
  /\ relight \in BOOLEAN
  /\ active \in {"none", "live", "cancelled"}
  /\ build # None => IsSnapshot(build)
  /\ IsJob(job)
  /\ mailbox \in Seq(Results) /\ Len(mailbox) <= 1

\* There is one field at a time: being copied, at work, or waiting to be applied.
OneField ==
  /\ build # None => active = "none"
  /\ job.stage \in {"queued", "solving"} => active # "none" /\ mailbox = <<>>
  /\ mailbox # <<>> => active # "none"

Shape == TypeInv /\ OneField

\* invalidate keeps identity and content revision.
LEMMA MarkType ==
  ASSUME NEW t, IsTable(t), NEW cs
  PROVE  /\ IsTable(Mark(t, cs)) /\ DOMAIN Mark(t, cs) = DOMAIN t
         /\ \A c \in DOMAIN t : /\ Mark(t, cs)[c].gen = t[c].gen
                               /\ Mark(t, cs)[c].rev = t[c].rev
                               /\ \/ Mark(t, cs)[c] = t[c]
                                  \/ Mark(t, cs)[c].dirty /\ Mark(t, cs)[c].stage = "requested"
  <1>1. ASSUME NEW r \in ChunkRecords
        PROVE  /\ Marked(r) \in ChunkRecords /\ Marked(r).gen = r.gen /\ Marked(r).rev = r.rev
               /\ Marked(r).dirty /\ Marked(r).stage = "requested"
    <2>1. r.ticket + 1 \in Nat /\ "requested" \in Stages
      BY DEF ChunkRecords, Stages
    <2>2. Marked(r) = [r EXCEPT !.dirty = TRUE, !.ticket = r.ticket + 1, !.stage = "requested"]
      BY DEF Marked
    <2> DEFINE M(x) == [r EXCEPT !.dirty = TRUE, !.ticket = x, !.stage = "requested"]
    <2>3. ASSUME NEW x \in Nat
          PROVE  /\ M(x) \in ChunkRecords
                 /\ M(x).gen = r.gen /\ M(x).rev = r.rev /\ M(x).dirty /\ M(x).stage = "requested"
      BY DEF ChunkRecords, Stages
    <2> HIDE DEF M
    <2>4. Marked(r) = M(r.ticket + 1)
      BY <2>2 DEF M
    <2> QED BY <2>1, <2>3, <2>4, Zenon
  <1>2. DOMAIN Mark(t, cs) = DOMAIN t
        /\ \A c \in DOMAIN t : Mark(t, cs)[c] = IF c \in cs THEN Marked(t[c]) ELSE t[c]
    BY DEF Mark
  <1>3. \A c \in DOMAIN t : t[c] \in ChunkRecords
    BY DEF IsTable
  <1>4. Mark(t, cs) \in [DOMAIN t -> ChunkRecords]
    BY <1>1, <1>3 DEF Mark
  <1> QED BY <1>1, <1>2, <1>3, <1>4 DEF IsTable

\* So does the new ticket for every chunk.
LEMMA RequestedType ==
  ASSUME NEW t, IsTable(t), NEW n \in Nat
  PROVE  /\ IsTable(Requested(t, n)) /\ DOMAIN Requested(t, n) = DOMAIN t
         /\ \A c \in DOMAIN t : /\ Requested(t, n)[c].gen = t[c].gen
                               /\ Requested(t, n)[c].rev = t[c].rev
                               /\ Requested(t, n)[c].dirty = t[c].dirty
                               /\ Requested(t, n)[c].stage = "requested"
  <1> DEFINE One(r) == [r EXCEPT !.ticket = @ + n, !.stage = "requested"]
  <1>1. ASSUME NEW r \in ChunkRecords
        PROVE  /\ One(r) \in ChunkRecords /\ One(r).gen = r.gen /\ One(r).rev = r.rev
               /\ One(r).dirty = r.dirty /\ One(r).stage = "requested"
    <2>1. r.ticket + n \in Nat /\ "requested" \in Stages
      BY DEF ChunkRecords, Stages
    <2>2. One(r) = [r EXCEPT !.ticket = r.ticket + n, !.stage = "requested"]
      OBVIOUS
    <2> HIDE DEF One
    <2> DEFINE M(x) == [r EXCEPT !.ticket = x, !.stage = "requested"]
    <2>3. ASSUME NEW x \in Nat
          PROVE  /\ M(x) \in ChunkRecords
                 /\ M(x).gen = r.gen /\ M(x).rev = r.rev
                 /\ M(x).dirty = r.dirty /\ M(x).stage = "requested"
      BY DEF ChunkRecords, Stages
    <2> HIDE DEF M
    <2>4. One(r) = M(r.ticket + n)
      BY <2>2 DEF M
    <2> QED BY <2>1, <2>3, <2>4, Zenon
  <1>2. Requested(t, n) = [c \in DOMAIN t |-> One(t[c])]
    BY DEF Requested
  <1>3. \A c \in DOMAIN t : t[c] \in ChunkRecords
    BY DEF IsTable
  <1> HIDE DEF One
  <1>4. Requested(t, n) \in [DOMAIN t -> ChunkRecords]
    BY <1>1, <1>2, <1>3
  <1> QED BY <1>1, <1>2, <1>3, <1>4 DEF IsTable

LEMMA ReasonCount == Cardinality(Reasons) \in Nat
  <1>1. IsFiniteSet({"sources"}) /\ IsFiniteSet({"palette"}) /\ IsFiniteSet({"dirty"})
    BY FS_Singleton
  <1>2. IsFiniteSet({"sources"} \cup {"palette"})
    BY <1>1, FS_Union
  <1>3. IsFiniteSet(({"sources"} \cup {"palette"}) \cup {"dirty"})
    BY <1>1, <1>2, FS_Union
  <1>4. Reasons \in SUBSET (({"sources"} \cup {"palette"}) \cup {"dirty"})
    BY DEF Reasons
  <1> QED BY <1>3, <1>4, FS_Subset, FS_CardinalityType

\* The union over all sets of chunks is a type of its own.
LEMMA SnapshotInUnion ==
  ASSUME NEW s
  PROVE  s \in UNION {Snapshots(D) : D \in SUBSET (1..Line)} <=> IsSnapshot(s)
  BY DEF IsSnapshot, Snapshots

\* The mailbox holds one result of a copied snapshot.
LEMMA HeadType ==
  ASSUME TypeInv, mailbox # <<>>
  PROVE  /\ Head(mailbox) = mailbox[1] /\ Tail(mailbox) = <<>>
         /\ IsSnapshot(mailbox[1].snapshot)
         /\ mailbox[1].outcome \in {"succeeded", "failed", "cancelled"}
  <1>1. mailbox[1] \in Results /\ Head(mailbox) = mailbox[1] /\ Tail(mailbox) = <<>>
    BY DEF TypeInv
  <1> QED BY <1>1, SnapshotInUnion DEF Results

--------------------------------------------------------------------------------
(* The invariant                                                                      *)

\* A chunk is not younger than the last version of its content.
Dated == \A c \in Resident : chunks[c].gen <= geometry[c]

\* A copy agrees with the world wherever the world has not moved on.
CopyInv ==
  /\ build # None => Agrees(build, chunks, geometry) /\ Covered(build)
  /\ job # None => Agrees(job.snapshot, chunks, geometry) /\ Whole(job.snapshot)
  /\ mailbox # <<>> => /\ Agrees(mailbox[1].snapshot, chunks, geometry)
                       /\ Whole(mailbox[1].snapshot)

\* What the system remembers is of the past, and between two steps of an update of today.
Watching ==
  /\ DOMAIN observed \subseteq 1..Line
  /\ \A c \in DOMAIN observed :
       /\ observed[c].gen \in Nat /\ observed[c].rev \in Nat /\ observed[c].gen <= geometry[c]
       /\ c \in Resident /\ chunks[c].gen = observed[c].gen => observed[c].rev <= chunks[c].rev
  /\ adopted.sources <= setting.sources /\ adopted.palette <= setting.palette
  /\ state = "running" /\ phase # "idle" =>
       /\ DOMAIN observed = Resident /\ adopted = setting
       /\ \A c \in Resident : observed[c].gen = chunks[c].gen

\* Nothing has happened to chunk c that collect_dirty would notice.
Quiet(c) ==
  /\ c \in Resident /\ chunks[c].gen = observed[c].gen
  /\ chunks[c].dirty => chunks[c].rev = observed[c].rev

Watched == [content |-> [c \in DOMAIN observed |-> {geometry[c]}], setting |-> adopted]

Pending == relight \/ build # None \/ active # "none"

\* Between updates: as long as the next one will notice nothing, StageTruth holds of what
\* the last one saw.
Promise ==
  state = "running" /\ phase = "idle" /\ setting = adopted
    /\ (\A c \in DOMAIN observed : Quiet(c)) =>
  \A c \in DOMAIN observed : light[c] = Watched \/ (chunks[c].stage # "resident" /\ Pending)

LightInv == Shape /\ Dated /\ CopyInv /\ Watching /\ Promise /\ StageTruth

--------------------------------------------------------------------------------
(* Steps of the world                                                                 *)

\* What an event does to a chunk that is resident after it.
Drift(c) ==
  \/ /\ c \in Resident /\ chunks'[c].gen = chunks[c].gen /\ light'[c] = light[c]
     /\ chunks[c].rev <= chunks'[c].rev
     /\ chunks'[c].rev = chunks[c].rev => geometry'[c] = geometry[c]
     /\ geometry'[c] = geometry[c] \/ chunks'[c].dirty
     /\ chunks[c].dirty => chunks'[c].dirty
     /\ chunks'[c].stage = chunks[c].stage \/ chunks'[c].stage = "requested"
  \/ chunks'[c].gen > geometry[c]

Drifted ==
  /\ IsTable(chunks') /\ DOMAIN light' = Resident'
  /\ geometry' \in [1..Line -> Nat] /\ \A c \in 1..Line : geometry[c] <= geometry'[c]
  /\ \A c \in Resident' : Drift(c) /\ chunks'[c].gen <= geometry'[c]

\* No event sets the sources or the palette back to what was adopted.
Changed ==
  /\ setting' \in Settings
  /\ adopted.sources <= setting'.sources /\ adopted.palette <= setting'.palette
  /\ setting' = setting \/ setting' # adopted

LEMMA RevisedType ==
  ASSUME NEW t, IsTable(t), NEW c \in DOMAIN t, NEW t2, t2 = [t EXCEPT ![c].rev = @ + 1]
  PROVE  /\ IsTable(t2) /\ DOMAIN t2 = DOMAIN t
         /\ \A d \in DOMAIN t : d # c => t2[d] = t[d]
         /\ t2[c].gen = t[c].gen /\ t2[c].rev = t[c].rev + 1
         /\ t2[c].dirty = t[c].dirty /\ t2[c].stage = t[c].stage
  <1>1. t[c] \in ChunkRecords
    BY DEF IsTable
  <1>2. t[c].rev + 1 \in Nat
    BY <1>1 DEF ChunkRecords
  <1> DEFINE R(x) == [t[c] EXCEPT !.rev = x]
  <1>3. ASSUME NEW x \in Nat
        PROVE  /\ R(x) \in ChunkRecords /\ R(x).gen = t[c].gen /\ R(x).rev = x
               /\ R(x).dirty = t[c].dirty /\ R(x).stage = t[c].stage
    BY <1>1 DEF ChunkRecords
  <1>4. t2 = [t EXCEPT ![c] = R(t[c].rev + 1)]
    OBVIOUS
  <1> HIDE DEF R
  <1>5. R(t[c].rev + 1) \in ChunkRecords /\ R(t[c].rev + 1).gen = t[c].gen
        /\ R(t[c].rev + 1).rev = t[c].rev + 1
        /\ R(t[c].rev + 1).dirty = t[c].dirty /\ R(t[c].rev + 1).stage = t[c].stage
    BY <1>2, <1>3, Zenon
  <1>6. t2 \in [DOMAIN t -> ChunkRecords]
    BY <1>4, <1>5 DEF IsTable
  <1> QED BY <1>4, <1>5, <1>6 DEF IsTable

\* The events of the world change chunks in no other way than Drift.
LEMMA EditDrifts ==
  ASSUME TypeInv, Dated, NEW c \in 1..Line, Edit(c)
  PROVE  Drifted
  <1> DEFINE t == [chunks EXCEPT ![c].rev = @ + 1]
  <1>1. c \in Resident /\ IsTable(chunks) /\ DOMAIN light = Resident
    BY DEF Edit, TypeInv
  <1>2. /\ IsTable(t) /\ DOMAIN t = Resident
        /\ \A d \in Resident : d # c => t[d] = chunks[d]
        /\ t[c].gen = chunks[c].gen /\ t[c].rev = chunks[c].rev + 1
        /\ t[c].dirty = chunks[c].dirty /\ t[c].stage = chunks[c].stage
    BY <1>1, RevisedType DEF Resident
  <1> HIDE DEF t
  <1>3. PICK cs : chunks' = Mark(t, cs) /\ c \in cs
    BY DEF Edit, t
  <1>4. /\ IsTable(chunks') /\ DOMAIN chunks' = Resident
        /\ \A d \in Resident : /\ chunks'[d].gen = t[d].gen /\ chunks'[d].rev = t[d].rev
                               /\ \/ chunks'[d] = t[d]
                                  \/ chunks'[d].dirty /\ chunks'[d].stage = "requested"
        /\ chunks'[c].dirty
    <2>1. chunks'[c] = Marked(t[c])
      BY <1>1, <1>2, <1>3 DEF Mark
    <2>2. t[c] \in ChunkRecords
      BY <1>1, <1>2 DEF IsTable
    <2>3. chunks'[c].dirty
      BY <2>1, <2>2 DEF Marked, ChunkRecords
    <2> QED BY <1>2, <1>3, <2>3, MarkType
  <1>5. geometry' = [geometry EXCEPT ![c] = @ + 1] /\ light' = light /\ setting' = setting
        /\ geometry \in [1..Line -> Nat]
    BY DEF Edit, TypeInv
  <1>6. \A d \in Resident : chunks[d] \in ChunkRecords
    BY <1>1 DEF IsTable, Resident
  <1>7. \A d \in Resident : chunks[d].rev \in Nat /\ chunks[d].gen \in Nat /\ d \in 1..Line
    BY <1>1, <1>6 DEF ChunkRecords, IsTable, Resident
  <1>8. geometry' \in [1..Line -> Nat] /\ \A d \in 1..Line : geometry[d] <= geometry'[d]
    BY <1>5
  <1>9. \A d \in 1..Line : d # c => geometry'[d] = geometry[d]
    BY <1>5
  <1>10. ASSUME NEW d \in Resident PROVE Drift(d)
    <2>1. CASE d = c
      BY <2>1, <1>2, <1>4, <1>5, <1>7 DEF Drift
    <2>2. CASE d # c
      <3>1. geometry'[d] = geometry[d] /\ t[d] = chunks[d]
        BY <1>2, <1>7, <1>9, <2>2
      <3> QED BY <3>1, <1>4, <1>5, <1>7 DEF Drift
    <2> QED BY <2>1, <2>2
  <1>11. ASSUME NEW d \in Resident PROVE chunks'[d].gen <= geometry'[d]
    BY <1>2, <1>4, <1>7, <1>8, <1>5 DEF Dated
  <1> QED BY <1>1, <1>4, <1>5, <1>8, <1>10, <1>11 DEF Drifted, Resident

LEMMA TouchDrifts ==
  ASSUME TypeInv, Dated, NEW c \in 1..Line, Touch(c)
  PROVE  Drifted
  <1> DEFINE t == [chunks EXCEPT ![c].rev = @ + 1]
  <1>1. c \in Resident /\ IsTable(chunks) /\ DOMAIN light = Resident
    BY DEF Touch, TypeInv
  <1>2. chunks' = t
    BY DEF Touch
  <1>3. /\ IsTable(t) /\ DOMAIN t = Resident
        /\ \A d \in Resident : d # c => t[d] = chunks[d]
        /\ t[c].gen = chunks[c].gen /\ t[c].rev = chunks[c].rev + 1
        /\ t[c].dirty = chunks[c].dirty /\ t[c].stage = chunks[c].stage
    BY <1>1, RevisedType DEF Resident
  <1> HIDE DEF t
  <1>4. geometry' = geometry /\ light' = light /\ setting' = setting
        /\ geometry \in [1..Line -> Nat]
    BY DEF Touch, TypeInv
  <1>5. \A d \in Resident : chunks[d] \in ChunkRecords
    BY <1>1 DEF IsTable, Resident
  <1>6. \A d \in Resident : chunks[d].rev \in Nat /\ chunks[d].gen \in Nat /\ d \in 1..Line
    BY <1>1, <1>5 DEF ChunkRecords, IsTable, Resident
  <1>7. ASSUME NEW d \in Resident PROVE Drift(d) /\ chunks'[d].gen <= geometry'[d]
    <2>1. CASE d = c
      BY <2>1, <1>2, <1>3, <1>4, <1>6 DEF Drift, Dated
    <2>2. CASE d # c
      BY <2>2, <1>2, <1>3, <1>4, <1>6 DEF Drift, Dated
    <2> QED BY <2>1, <2>2
  <1> QED BY <1>1, <1>2, <1>3, <1>4, <1>7 DEF Drifted, Resident

LEMMA LoadDrifts ==
  ASSUME TypeInv, Dated, NEW c \in 1..Line, Load(c)
  PROVE  Drifted
  <1> DEFINE t == With(chunks, c, NewChunk(geometry[c] + 1))
  <1>1. c \notin Resident /\ IsTable(chunks) /\ DOMAIN light = Resident
        /\ geometry \in [1..Line -> Nat] /\ geometry[c] + 1 \in Nat
    BY DEF Load, TypeInv
  <1>2. NewChunk(geometry[c] + 1) \in ChunkRecords
        /\ NewChunk(geometry[c] + 1).gen = geometry[c] + 1
    BY <1>1 DEF NewChunk, ChunkRecords, Stages
  <1>3. /\ DOMAIN t = Resident \cup {c} /\ t[c] = NewChunk(geometry[c] + 1)
        /\ \A d \in Resident : t[d] = chunks[d]
    BY <1>1 DEF With, Resident
  <1>4. \A d \in Resident : chunks[d] \in ChunkRecords
    BY <1>1 DEF IsTable, Resident
  <1>5. IsTable(t)
    <2>1. t = [d \in Resident \cup {c} |-> IF d = c THEN NewChunk(geometry[c] + 1) ELSE chunks[d]]
      BY DEF With, Resident
    <2> HIDE DEF t
    <2>2. t \in [DOMAIN t -> ChunkRecords]
      BY <1>2, <1>3, <1>4, <2>1
    <2>3. DOMAIN t \subseteq 1..Line
      BY <1>1, <1>3 DEF IsTable, Resident
    <2> QED BY <2>2, <2>3 DEF IsTable
  <1> HIDE DEF t
  <1>6. chunks' = Mark(t, Beside(c))
    BY DEF Load, t
  <1>7. /\ IsTable(chunks') /\ DOMAIN chunks' = Resident \cup {c}
        /\ \A d \in Resident \cup {c} :
             /\ chunks'[d].gen = t[d].gen /\ chunks'[d].rev = t[d].rev
             /\ \/ chunks'[d] = t[d]
                \/ chunks'[d].dirty /\ chunks'[d].stage = "requested"
    BY <1>3, <1>5, <1>6, MarkType
  <1>8. geometry' = [geometry EXCEPT ![c] = @ + 1] /\ setting' = setting
        /\ light' = With(light, c, <<>>)
    BY DEF Load
  <1>9. DOMAIN light' = Resident \cup {c} /\ \A d \in Resident : light'[d] = light[d]
    BY <1>1, <1>8 DEF With
  <1>10. \A d \in Resident : chunks[d].rev \in Nat /\ chunks[d].gen \in Nat /\ d \in 1..Line /\ d # c
    BY <1>1, <1>4 DEF ChunkRecords, IsTable, Resident
  <1>11. geometry' \in [1..Line -> Nat] /\ \A d \in 1..Line : geometry[d] <= geometry'[d]
    BY <1>1, <1>8
  <1>12. geometry'[c] = geometry[c] + 1 /\ \A d \in Resident : geometry'[d] = geometry[d]
    BY <1>1, <1>8, <1>10
  <1>13. ASSUME NEW d \in Resident PROVE Drift(d) /\ chunks'[d].gen <= geometry'[d]
    BY <1>3, <1>7, <1>9, <1>10, <1>12 DEF Drift, Dated
  <1>14. Drift(c) /\ chunks'[c].gen <= geometry'[c]
    <2>1. chunks'[c].gen = geometry[c] + 1
      BY <1>2, <1>3, <1>7
    <2> QED BY <1>1, <1>12, <2>1 DEF Drift
  <1> QED BY <1>7, <1>8, <1>9, <1>11, <1>13, <1>14 DEF Drifted, Resident

LEMMA UnloadDrifts ==
  ASSUME TypeInv, Dated, NEW c \in 1..Line, Unload(c)
  PROVE  Drifted
  <1> DEFINE rest == Resident \ {c}
             t == Restrict(chunks, rest)
  <1>1. IsTable(chunks) /\ DOMAIN light = Resident /\ geometry \in [1..Line -> Nat]
    BY DEF Unload, TypeInv
  <1>2. \A d \in Resident : chunks[d] \in ChunkRecords
    BY <1>1 DEF IsTable, Resident
  <1>3. /\ IsTable(t) /\ DOMAIN t = rest /\ \A d \in rest : t[d] = chunks[d]
    BY <1>1, <1>2 DEF Restrict, IsTable, Resident
  <1> HIDE DEF t
  <1>4. chunks' = Mark(t, Beside(c)) /\ light' = Restrict(light, rest)
        /\ geometry' = geometry /\ setting' = setting
    BY DEF Unload, t
  <1>5. /\ IsTable(chunks') /\ DOMAIN chunks' = rest
        /\ \A d \in rest :
             /\ chunks'[d].gen = t[d].gen /\ chunks'[d].rev = t[d].rev
             /\ \/ chunks'[d] = t[d]
                \/ chunks'[d].dirty /\ chunks'[d].stage = "requested"
    BY <1>3, <1>4, MarkType
  <1>6. DOMAIN light' = rest /\ \A d \in rest : light'[d] = light[d]
    BY <1>4 DEF Restrict
  <1>7. \A d \in Resident : chunks[d].rev \in Nat /\ chunks[d].gen \in Nat /\ d \in 1..Line
    BY <1>1, <1>2 DEF ChunkRecords, IsTable, Resident
  <1>8. ASSUME NEW d \in rest PROVE Drift(d) /\ chunks'[d].gen <= geometry'[d]
    <2>1. /\ d \in Resident /\ chunks[d].rev \in Nat /\ chunks[d].gen <= geometry[d]
          /\ t[d] = chunks[d] /\ light'[d] = light[d] /\ geometry'[d] = geometry[d]
          /\ chunks'[d].gen = chunks[d].gen /\ chunks'[d].rev = chunks[d].rev
      BY <1>3, <1>4, <1>5, <1>6, <1>7 DEF Dated
    <2>2. \/ chunks'[d] = chunks[d]
          \/ chunks'[d].dirty /\ chunks'[d].stage = "requested"
      BY <1>5, <2>1
    <2> QED BY <2>1, <2>2 DEF Drift
  <1> QED BY <1>1, <1>4, <1>5, <1>6, <1>7, <1>8 DEF Drifted, Resident

LEMMA ChangeDrifts ==
  ASSUME TypeInv, Dated, Watching, NEW what \in {"sources", "palette"}, Change(what)
  PROVE  Drifted /\ Changed
  <1>1. IsTable(chunks) /\ DOMAIN light = Resident /\ geometry \in [1..Line -> Nat]
        /\ setting \in Settings /\ adopted \in Settings
    BY DEF TypeInv
  <1>2. chunks' = chunks /\ geometry' = geometry /\ light' = light
        /\ setting' = [setting EXCEPT ![what] = @ + 1]
    BY DEF Change
  <1>3. \A d \in Resident : chunks[d] \in ChunkRecords /\ d \in 1..Line
    BY <1>1 DEF IsTable, Resident
  <1>4. \A d \in Resident : chunks[d].rev \in Nat
    BY <1>3 DEF ChunkRecords
  <1>5. Drifted
    BY <1>1, <1>2, <1>4 DEF Drifted, Drift, Dated, Resident
  <1>6. setting.sources \in Nat /\ setting.palette \in Nat
        /\ adopted.sources \in Nat /\ adopted.palette \in Nat
    BY <1>1 DEF Settings
  <1>7. adopted.sources <= setting.sources /\ adopted.palette <= setting.palette
    BY DEF Watching
  <1>8. CASE what = "sources"
    <2>1. setting'.sources = setting.sources + 1 /\ setting'.palette = setting.palette
          /\ setting' \in Settings
      BY <1>1, <1>2, <1>6, <1>8 DEF Settings
    <2> QED BY <1>5, <1>6, <1>7, <2>1 DEF Changed
  <1>9. CASE what = "palette"
    <2>1. setting'.palette = setting.palette + 1 /\ setting'.sources = setting.sources
          /\ setting' \in Settings
      BY <1>1, <1>2, <1>6, <1>9 DEF Settings
    <2> QED BY <1>5, <1>6, <1>7, <2>1 DEF Changed
  <1> QED BY <1>8, <1>9

LEMMA DriftEvolves ==
  ASSUME TypeInv, Drifted
  PROVE  Evolution(chunks, geometry, chunks', geometry')
  BY DEF Drifted, Drift, Evolution, Resident, TypeInv, IsTable

\* AgreesLasts for the three places a snapshot can be in.
LEMMA CopiesLast ==
  ASSUME TypeInv, CopyInv, IsTable(chunks'), geometry' \in [1..Line -> Nat],
         Evolution(chunks, geometry, chunks', geometry')
  PROVE  /\ build # None => Agrees(build, chunks', geometry') /\ Covered(build)
         /\ job # None => Agrees(job.snapshot, chunks', geometry') /\ Whole(job.snapshot)
         /\ mailbox # <<>> => /\ Agrees(mailbox[1].snapshot, chunks', geometry')
                              /\ Whole(mailbox[1].snapshot)
  <1>1. IsTable(chunks) /\ geometry \in [1..Line -> Nat]
    BY DEF TypeInv
  <1>2. build # None => IsSnapshot(build)
    BY DEF TypeInv
  <1>3. job # None => IsSnapshot(job.snapshot)
    BY DEF TypeInv, IsJob
  <1>4. mailbox # <<>> => IsSnapshot(mailbox[1].snapshot)
    BY HeadType
  <1>5. build # None => Agrees(build, chunks', geometry')
    BY <1>1, <1>2, AgreesLasts DEF CopyInv
  <1>6. job # None => Agrees(job.snapshot, chunks', geometry')
    BY <1>1, <1>3, AgreesLasts DEF CopyInv
  <1>7. mailbox # <<>> => Agrees(mailbox[1].snapshot, chunks', geometry')
    BY <1>1, <1>4, AgreesLasts DEF CopyInv
  <1> QED BY <1>5, <1>6, <1>7 DEF CopyInv

\* An event keeps the invariant: what it changes is either noticed, or changes no light.
LEMMA WorldKeeps ==
  ASSUME LightInv, phase = "idle", Drifted, Changed,
         UNCHANGED <<state, phase, systemVars, poolVars>>
  PROVE  LightInv'
  <1>1. TypeInv /\ OneField /\ Dated /\ CopyInv /\ Watching /\ Promise
    BY DEF LightInv, Shape
  <1>2. /\ state' = state /\ phase' = phase /\ adopted' = adopted /\ observed' = observed
        /\ relight' = relight /\ build' = build /\ active' = active
        /\ job' = job /\ mailbox' = mailbox
    BY DEF systemVars, poolVars
  <1>3. TypeInv'
    BY <1>1, <1>2 DEF TypeInv, Drifted, Changed, IsJob
  <1>4. OneField'
    BY <1>1, <1>2 DEF OneField
  <1>5. Dated'
    BY DEF Dated, Drifted, Resident
  <1>6. CopyInv'
    <2>1. Evolution(chunks, geometry, chunks', geometry')
      BY <1>1, DriftEvolves
    <2>2. IsTable(chunks') /\ geometry' \in [1..Line -> Nat]
      BY DEF Drifted
    <2> QED BY <1>1, <1>2, <2>1, <2>2, CopiesLast DEF CopyInv
  <1>7. ASSUME NEW c \in DOMAIN observed
        PROVE  /\ observed[c].gen \in Nat /\ observed[c].rev \in Nat
               /\ c \in 1..Line /\ geometry[c] \in Nat /\ geometry'[c] \in Nat
               /\ observed[c].gen <= geometry[c] /\ geometry[c] <= geometry'[c]
               /\ c \in Resident' => chunks'[c].gen \in Nat /\ chunks'[c].rev \in Nat
               /\ c \in Resident => chunks[c].gen \in Nat /\ chunks[c].rev \in Nat
    <2>1. \A d \in Resident : chunks[d] \in ChunkRecords
      BY <1>1 DEF TypeInv, IsTable, Resident
    <2>2. \A d \in Resident' : chunks'[d] \in ChunkRecords
      BY DEF Drifted, IsTable, Resident
    <2>3. observed[c].gen \in Nat /\ observed[c].rev \in Nat /\ c \in 1..Line
          /\ observed[c].gen <= geometry[c]
      BY <1>1 DEF Watching
    <2>4. geometry[c] \in Nat /\ geometry'[c] \in Nat /\ geometry[c] <= geometry'[c]
      BY <1>1, <2>3 DEF TypeInv, Drifted
    <2> QED BY <2>1, <2>2, <2>3, <2>4 DEF ChunkRecords
  <1>8. ASSUME NEW c \in DOMAIN observed, c \in Resident', chunks'[c].gen = observed[c].gen
        PROVE  /\ c \in Resident /\ chunks[c].gen = observed[c].gen /\ light'[c] = light[c]
               /\ observed[c].rev <= chunks[c].rev /\ chunks[c].rev <= chunks'[c].rev
               /\ chunks'[c].rev = chunks[c].rev => geometry'[c] = geometry[c]
               /\ geometry'[c] = geometry[c] \/ chunks'[c].dirty
               /\ chunks[c].dirty => chunks'[c].dirty
               /\ chunks'[c].stage = chunks[c].stage \/ chunks'[c].stage = "requested"
    <2>1. ~(chunks'[c].gen > geometry[c])
      BY <1>7, <1>8
    <2>2. Drift(c)
      BY <1>8 DEF Drifted
    <2> QED BY <1>1, <1>8, <2>1, <2>2 DEF Drift, Watching
  <1>9. Watching'
    <2>1. \A c \in DOMAIN observed :
            /\ observed[c].gen \in Nat /\ observed[c].rev \in Nat
            /\ observed[c].gen <= geometry'[c]
            /\ c \in Resident' /\ chunks'[c].gen = observed[c].gen =>
                 observed[c].rev <= chunks'[c].rev
      BY <1>7, <1>8
    <2>2. DOMAIN observed \subseteq 1..Line
      BY <1>1 DEF Watching
    <2> QED BY <1>2, <2>1, <2>2 DEF Watching, Changed
  <1>10. Promise'
    <2> SUFFICES ASSUME state = "running", setting' = adopted,
                        \A c \in DOMAIN observed : Quiet(c)',
                        NEW c \in DOMAIN observed
                 PROVE  light'[c] = Watched' \/ (chunks'[c].stage # "resident" /\ Pending')
      BY <1>2 DEF Promise
    <2>1. setting = adopted
      BY DEF Changed
    <2>2. ASSUME NEW d \in DOMAIN observed
          PROVE  /\ Quiet(d) /\ geometry'[d] = geometry[d]
                 /\ light'[d] = light[d]
                 /\ chunks'[d].stage = chunks[d].stage \/ chunks'[d].stage = "requested"
      <3>1. /\ d \in Resident' /\ chunks'[d].gen = observed[d].gen
            /\ chunks'[d].dirty => chunks'[d].rev = observed[d].rev
        BY <1>2 DEF Quiet
      <3> QED BY <1>7, <1>8, <3>1 DEF Quiet
    <2>3. light[c] = Watched \/ (chunks[c].stage # "resident" /\ Pending)
      BY <1>1, <2>1, <2>2 DEF Promise
    <2>4. Watched' = Watched
      BY <1>2, <2>2 DEF Watched
    <2>5. Pending' = Pending
      BY <1>2 DEF Pending
    <2> QED BY <2>2, <2>3, <2>4, <2>5
  <1>11. StageTruth'
    BY <1>2 DEF StageTruth
  <1> QED BY <1>3, <1>4, <1>5, <1>6, <1>9, <1>10, <1>11 DEF LightInv, Shape

--------------------------------------------------------------------------------
(* The first part of an update                                                        *)

\* A step of the system leaves the chunks in place and their revisions at least as high.
Later(t, t2) ==
  /\ IsTable(t2) /\ DOMAIN t2 = DOMAIN t
  /\ \A c \in DOMAIN t : t2[c].gen = t[c].gen /\ t[c].rev <= t2[c].rev

LEMMA LaterEvolves ==
  ASSUME NEW t, NEW t2, NEW g, IsTable(t), g \in [1..Line -> Nat], Later(t, t2)
  PROVE  Evolution(t, g, t2, g)
  BY DEF Later, Evolution, IsTable

LEMMA LaterSelf ==
  ASSUME NEW t, IsTable(t)
  PROVE  Later(t, t) /\ \A c \in DOMAIN t : t[c].gen \in Nat /\ t[c].rev \in Nat
  <1>1. \A c \in DOMAIN t : t[c] \in ChunkRecords
    BY DEF IsTable
  <1>2. \A c \in DOMAIN t : t[c].gen \in Nat /\ t[c].rev \in Nat
    BY <1>1 DEF ChunkRecords
  <1> QED BY <1>2 DEF Later

LEMMA RequestedLater ==
  ASSUME NEW t, IsTable(t), NEW n \in Nat
  PROVE  /\ Later(t, Requested(t, n))
         /\ \A c \in DOMAIN t : Requested(t, n)[c].stage = "requested"
  BY LaterSelf, RequestedType DEF Later

\* A step of the system, too, lets every copy agree.
LEMMA OwnerKeeps ==
  ASSUME LightInv, Later(chunks, chunks'), geometry' = geometry
  PROVE  /\ Dated'
         /\ IsTable(chunks') /\ Resident' = Resident
         /\ build # None => Agrees(build, chunks', geometry') /\ Covered(build)
         /\ job # None => Agrees(job.snapshot, chunks', geometry') /\ Whole(job.snapshot)
         /\ mailbox # <<>> => /\ Agrees(mailbox[1].snapshot, chunks', geometry')
                              /\ Whole(mailbox[1].snapshot)
  <1>1. TypeInv /\ Dated /\ CopyInv
    BY DEF LightInv, Shape
  <1>2. IsTable(chunks) /\ geometry \in [1..Line -> Nat]
    BY <1>1 DEF TypeInv
  <1>3. Evolution(chunks, geometry, chunks', geometry')
    BY <1>2, LaterEvolves
  <1>4. IsTable(chunks') /\ Resident' = Resident
    BY DEF Later, Resident
  <1>5. Dated'
    BY <1>1, <1>4 DEF Dated, Later, Resident
  <1> QED BY <1>1, <1>2, <1>3, <1>4, <1>5, CopiesLast

LEMMA WatchingKept ==
  ASSUME LightInv, Later(chunks, chunks'), geometry' = geometry, setting' = setting,
         adopted' = adopted, observed' = observed,
         state' = "running" /\ phase' # "idle" => state = "running" /\ phase # "idle"
  PROVE  Watching'
  <1>1. TypeInv /\ Watching /\ IsTable(chunks)
    BY DEF LightInv, Shape, TypeInv
  <1>2. \A c \in Resident : chunks[c].rev \in Nat /\ chunks'[c].rev \in Nat
        /\ chunks'[c].gen = chunks[c].gen /\ chunks[c].rev <= chunks'[c].rev
    BY <1>1, LaterSelf DEF Later, Resident
  <1>3. Resident' = Resident
    BY DEF Later, Resident
  <1> QED BY <1>1, <1>2, <1>3 DEF Watching

\* Without a reason to invalidate, the promise of the last update becomes StageTruth.
LEMMA RefreshKeeps ==
  ASSUME LightInv, Refresh
  PROVE  LightInv'
  <1>1. TypeInv /\ OneField /\ Dated /\ CopyInv /\ Watching /\ Promise
    BY DEF LightInv, Shape
  <1>2. /\ state = "running" /\ phase = "idle" /\ phase' = "refreshed" /\ adopted' = setting
        /\ observed' = [c \in Resident |-> Identity(c)]
        /\ state' = state /\ geometry' = geometry /\ light' = light /\ setting' = setting
        /\ job' = job /\ mailbox' = mailbox
    BY DEF Refresh, poolVars
  <1>3. IsTable(chunks) /\ DOMAIN light = Resident /\ setting \in Settings
    BY <1>1 DEF TypeInv
  <1>4. \/ /\ Reasons = {} /\ chunks' = chunks /\ build' = build /\ active' = active
           /\ relight' = relight
        \/ /\ chunks' = Requested(chunks, Cardinality(Reasons)) /\ build' = None
           /\ active' = (IF active = "none" THEN "none" ELSE "cancelled") /\ relight' = TRUE
    BY DEF Refresh, Invalidate
  <1>5. Later(chunks, chunks')
    BY <1>3, <1>4, LaterSelf, RequestedLater, ReasonCount
  <1>6. /\ Dated' /\ IsTable(chunks') /\ Resident' = Resident
        /\ build # None => Agrees(build, chunks', geometry') /\ Covered(build)
        /\ job # None => Agrees(job.snapshot, chunks', geometry') /\ Whole(job.snapshot)
        /\ mailbox # <<>> => /\ Agrees(mailbox[1].snapshot, chunks', geometry')
                             /\ Whole(mailbox[1].snapshot)
    BY <1>2, <1>5, OwnerKeeps
  <1>7. TypeInv'
    <2>1. build' # None => IsSnapshot(build')
      BY <1>1, <1>4 DEF TypeInv
    <2>2. active' \in {"none", "live", "cancelled"} /\ relight' \in BOOLEAN
      BY <1>1, <1>4 DEF TypeInv
    <2>3. IsJob(job')
      BY <1>1, <1>2 DEF TypeInv
    <2> QED BY <1>1, <1>2, <1>3, <1>6, <2>1, <2>2, <2>3 DEF TypeInv
  <1>8. OneField'
    BY <1>1, <1>2, <1>4 DEF OneField, TypeInv
  <1>9. CopyInv'
    BY <1>2, <1>4, <1>6 DEF CopyInv
  <1>10. \A c \in Resident : /\ chunks'[c].gen = chunks[c].gen /\ chunks[c].gen \in Nat
                             /\ chunks[c].rev <= chunks'[c].rev /\ chunks[c].rev \in Nat
                             /\ observed'[c].gen = chunks[c].gen
                             /\ observed'[c].rev = chunks[c].rev
                             /\ chunks[c].gen <= geometry[c]
    BY <1>1, <1>2, <1>3, <1>5, LaterSelf DEF Later, Resident, Identity, Dated
  <1>11. Watching'
    <2>1. setting.sources <= setting.sources /\ setting.palette <= setting.palette
      BY <1>3 DEF Settings
    <2>2. DOMAIN observed' = Resident /\ Resident \subseteq 1..Line
      BY <1>2, <1>3 DEF IsTable, Resident
    <2> QED BY <1>2, <1>6, <1>10, <2>1, <2>2 DEF Watching
  <1>12. Promise'
    BY <1>2 DEF Promise
  <1>13. StageTruth'
    <2>1. CASE Reasons = {} /\ chunks' = chunks /\ build' = build /\ active' = active
               /\ relight' = relight
      <3>1. ~FieldChanged /\ ~TopologyChanged /\ setting.sources = adopted.sources
            /\ setting.palette = adopted.palette
        <4>1. /\ "sources" \notin Reasons /\ "palette" \notin Reasons /\ "dirty" \notin Reasons
          BY <2>1
        <4> QED BY <4>1 DEF Reasons
      <3>2. setting = adopted
        BY <1>1, <3>1 DEF TypeInv, Settings
      <3>3. DOMAIN observed = Resident /\ \A c \in Resident : observed[c].gen = chunks[c].gen
        BY <3>1 DEF TopologyChanged
      <3>4. \A c \in Resident : chunks[c].dirty => observed[c] = Identity(c)
        BY <3>1, <3>3 DEF FieldChanged
      <3>5. \A c \in DOMAIN observed : Quiet(c)
        BY <3>3, <3>4 DEF Quiet, Identity
      <3>6. \A c \in Resident : light[c] = Watched \/ (chunks[c].stage # "resident" /\ Pending)
        BY <1>1, <1>2, <3>2, <3>3, <3>5 DEF Promise
      <3>7. Watched = Field /\ Field' = Field
        BY <1>2, <1>6, <3>2, <3>3 DEF Watched, Field
      <3> QED BY <1>2, <1>6, <2>1, <3>6, <3>7 DEF StageTruth, Fresh, Pending
    <2>2. CASE chunks' = Requested(chunks, Cardinality(Reasons)) /\ relight' = TRUE
      BY <1>3, <1>6, <2>2, RequestedType, ReasonCount DEF StageTruth, Resident
    <2> QED BY <1>4, <2>1, <2>2
  <1> QED BY <1>6, <1>7, <1>8, <1>9, <1>11, <1>12, <1>13 DEF LightInv, Shape

--------------------------------------------------------------------------------
(* The second part of an update                                                       *)

LEMMA StageType ==
  ASSUME NEW r \in ChunkRecords, NEW s \in Stages
  PROVE  LET q == [r EXCEPT !.stage = s]
         IN  q \in ChunkRecords /\ q.gen = r.gen /\ q.rev = r.rev /\ q.dirty = r.dirty /\ q.stage = s
  BY DEF ChunkRecords

LEMMA StampedLater ==
  ASSUME IsTable(chunks), NEW result, NEW s \in Stages
  PROVE  /\ Later(chunks, Stamped(result, s))
         /\ \A c \in Resident : \/ Stamped(result, s)[c].stage = s
                                \/ Stamped(result, s)[c].stage = chunks[c].stage
  <1> DEFINE t == Stamped(result, s)
             One(r) == [r EXCEPT !.stage = s]
  <1>1. \A c \in Resident : chunks[c] \in ChunkRecords /\ chunks[c].rev \in Nat
    BY LaterSelf DEF IsTable, Resident
  <1>2. \A r \in ChunkRecords : One(r) \in ChunkRecords /\ One(r).gen = r.gen /\ One(r).rev = r.rev
                                /\ One(r).stage = s
    BY StageType
  <1>3. t = [c \in Resident |-> IF c \in DOMAIN result.snapshot.tickets /\ Current(c, result.snapshot)
                                THEN One(chunks[c]) ELSE chunks[c]]
    BY DEF Stamped
  <1> HIDE DEF One, t
  <1>4. \A c \in Resident : t[c] = One(chunks[c]) \/ t[c] = chunks[c]
    BY <1>3
  <1>5. DOMAIN t = Resident /\ t \in [Resident -> ChunkRecords]
    BY <1>1, <1>2, <1>3
  <1>6. \A c \in Resident : /\ t[c].gen = chunks[c].gen /\ t[c].rev = chunks[c].rev
                            /\ t[c].stage = s \/ t[c].stage = chunks[c].stage
    BY <1>1, <1>2, <1>4
  <1>7. IsTable(t)
    BY <1>5 DEF IsTable, Resident
  <1>8. Later(chunks, t)
    BY <1>1, <1>5, <1>6, <1>7 DEF Later, Resident
  <1> QED BY <1>6, <1>8 DEF t

\* What an applicable result says of the field.
LEMMA ApplicableSolves ==
  ASSUME LightInv, state = "running", phase = "refreshed", mailbox # <<>>,
         mailbox[1].outcome = "succeeded", Applicable(mailbox[1])
  PROVE  Solved(mailbox[1].snapshot) = Field
  <1> DEFINE s == mailbox[1].snapshot
  <1>1. IsSnapshot(s) /\ Agrees(s, chunks, geometry) /\ Whole(s)
    BY HeadType DEF LightInv, Shape, CopyInv
  <1>2. adopted = setting
    BY DEF LightInv, Watching
  <1>3. /\ s.setting = setting /\ Resident = DOMAIN s.tickets
        /\ \A c \in Resident : chunks[c].gen = s.gens[c] /\ chunks[c].rev = s.revs[c]
    BY <1>2 DEF Applicable, SameChunks, SameRevisions, Current
  <1>4. s.cells \in [Resident -> SUBSET Nat]
    BY <1>1, <1>3 DEF IsSnapshot, Snapshots
  <1> HIDE DEF s
  <1>5. ASSUME NEW c \in Resident PROVE s.cells[c] = {geometry[c]}
    <2>1. s.cells[c] \subseteq {geometry[c]}
      BY <1>1, <1>3, <1>5 DEF Agrees, Resident
    <2>2. s.cells[c] # {}
      BY <1>1, <1>3, <1>5 DEF Whole
    <2> QED BY <2>1, <2>2
  <1>6. s.cells = [c \in Resident |-> {geometry[c]}]
    BY <1>4, <1>5
  <1> QED BY <1>3, <1>6 DEF Solved, Field, s

LEMMA PublishLater ==
  ASSUME LightInv, NEW result, Publish(result)
  PROVE  Later(chunks, chunks')
  <1> DEFINE One(r, x) == [r EXCEPT !.dirty = FALSE, !.stage = "resident", !.rev = x]
  <1>1. IsTable(chunks)
    BY DEF LightInv, Shape, TypeInv
  <1>2. \A c \in Resident : chunks[c] \in ChunkRecords /\ chunks[c].rev \in Nat
    BY <1>1, LaterSelf DEF IsTable, Resident
  <1>3. ASSUME NEW r \in ChunkRecords, NEW x \in Nat
        PROVE  One(r, x) \in ChunkRecords /\ One(r, x).gen = r.gen /\ One(r, x).rev = x
    BY DEF ChunkRecords, Stages
  <1>4. PICK changed : chunks' = [c \in Resident |->
                          One(chunks[c], IF c \in changed THEN chunks[c].rev + 1 ELSE chunks[c].rev)]
    BY DEF Publish
  <1> HIDE DEF One
  <1> DEFINE next(c) == IF c \in changed THEN chunks[c].rev + 1 ELSE chunks[c].rev
  <1>5. \A c \in Resident : next(c) \in Nat /\ chunks[c].rev <= next(c)
    BY <1>2
  <1>6. chunks' = [c \in Resident |-> One(chunks[c], next(c))]
    BY <1>4
  <1> HIDE DEF next
  <1>7. \A c \in Resident : /\ One(chunks[c], next(c)) \in ChunkRecords
                            /\ One(chunks[c], next(c)).gen = chunks[c].gen
                            /\ One(chunks[c], next(c)).rev = next(c)
    BY <1>2, <1>3, <1>5
  <1>8. DOMAIN chunks' = Resident /\ chunks' \in [Resident -> ChunkRecords]
    BY <1>6, <1>7
  <1>9. IsTable(chunks')
    BY <1>1, <1>8 DEF IsTable, Resident
  <1> QED BY <1>5, <1>6, <1>7, <1>8, <1>9 DEF Later, Resident

\* A result that is applied shows the field of today; any other leaves a request.
LEMMA ApplyKeeps ==
  ASSUME LightInv, Apply
  PROVE  /\ LightInv'
         /\ light' = light \/ \A c \in Resident : light'[c] = Field
  <1>1. TypeInv /\ OneField /\ Dated /\ CopyInv /\ Watching
    BY DEF LightInv, Shape
  <1>2. /\ state = "running" /\ phase = "refreshed" /\ phase' = "applied"
        /\ geometry' = geometry /\ setting' = setting /\ adopted' = adopted
        /\ observed' = observed /\ build' = build /\ job' = job
    BY DEF Apply, worldVars
  <1>3. IsTable(chunks) /\ DOMAIN light = Resident
    BY <1>1 DEF TypeInv
  <1>4. CASE mailbox = <<>>
    <2>1. /\ state' = state /\ chunks' = chunks /\ light' = light /\ relight' = relight
          /\ active' = active /\ mailbox' = mailbox
      BY <1>4 DEF Apply
    <2>2. Later(chunks, chunks')
      BY <1>3, <2>1, LaterSelf
    <2>3. Dated' /\ CopyInv'
      BY <1>2, <2>1, <2>2, OwnerKeeps DEF CopyInv
    <2>4. Shape'
      BY <1>1, <1>2, <2>1 DEF Shape, TypeInv, OneField, Resident, IsJob
    <2>5. Watching' /\ Promise'
      BY <1>2, <2>1, <2>2, WatchingKept DEF Promise
    <2>6. StageTruth'
      BY <1>2, <2>1 DEF LightInv, StageTruth, Resident, Fresh, Field
    <2> QED BY <2>1, <2>3, <2>4, <2>5, <2>6 DEF LightInv
  <1>5. CASE mailbox # <<>>
    <2> DEFINE r == mailbox[1]
    <2>1. /\ mailbox' = <<>> /\ active' = "none"
          /\ Discard(r) \/ Fail(r) \/ Publish(r)
      BY <1>1, <1>5, HeadType DEF Apply
    <2>2. build = None
      BY <1>1, <1>5 DEF OneField
    <2>3. job.stage \notin {"queued", "solving"}
      BY <1>1, <1>5 DEF OneField
    <2> HIDE DEF r
    <2>4. ASSUME Later(chunks, chunks'), DOMAIN light' = Resident, relight' \in BOOLEAN,
                 state' \in {"running", "solve_failed"}
          PROVE  Shape' /\ Dated' /\ CopyInv' /\ Watching' /\ Promise' /\ Resident' = Resident
      <3>1. /\ Dated' /\ IsTable(chunks') /\ Resident' = Resident
            /\ job # None => Agrees(job.snapshot, chunks', geometry') /\ Whole(job.snapshot)
        BY <1>2, <2>4, OwnerKeeps
      <3>2. TypeInv'
        <4>1. mailbox' \in Seq(Results) /\ Len(mailbox') <= 1
          BY <2>1
        <4> QED BY <1>1, <1>2, <2>1, <2>4, <3>1, <4>1 DEF TypeInv, IsJob
      <3>3. OneField'
        BY <1>2, <2>1, <2>2, <2>3 DEF OneField
      <3>4. CopyInv'
        BY <1>2, <2>1, <2>2, <3>1 DEF CopyInv
      <3> QED BY <1>2, <2>4, <3>1, <3>2, <3>3, <3>4, WatchingKept DEF Shape, Promise
    <2>5. CASE Discard(r)
      <3>1. PICK s \in {"cancelled", "stale"} : chunks' = Stamped(r, s)
        BY <2>5 DEF Discard
      <3>2. /\ Later(chunks, chunks')
            /\ \A c \in Resident : chunks'[c].stage = s \/ chunks'[c].stage = chunks[c].stage
        BY <1>3, <3>1, StampedLater DEF Stages
      <3>3. relight' = TRUE /\ state' = state /\ light' = light
        BY <2>5 DEF Discard
      <3>4. Shape' /\ Dated' /\ CopyInv' /\ Watching' /\ Promise' /\ Resident' = Resident
        BY <1>2, <1>3, <2>4, <3>2, <3>3
      <3>5. \A c \in Resident : Fresh(c) \/ chunks[c].stage # "resident"
        BY <1>2 DEF LightInv, StageTruth
      <3>6. Field' = Field
        BY <1>2, <3>4 DEF Field
      <3>7. StageTruth'
        BY <3>1, <3>2, <3>3, <3>4, <3>5, <3>6 DEF StageTruth, Fresh
      <3> QED BY <3>3, <3>4, <3>7 DEF LightInv
    <2>6. CASE Fail(r)
      <3>1. Later(chunks, chunks')
        BY <1>3, <2>6, StampedLater DEF Fail, Stages
      <3>2. relight' = TRUE /\ state' = "solve_failed" /\ light' = light
        BY <2>6 DEF Fail
      <3>3. Shape' /\ Dated' /\ CopyInv' /\ Watching' /\ Promise'
        BY <1>3, <2>4, <3>1, <3>2
      <3> QED BY <3>2, <3>3 DEF LightInv, StageTruth
    <2>7. CASE Publish(r)
      <3>1. Later(chunks, chunks')
        BY <2>7, PublishLater
      <3>2. /\ light' = [c \in Resident |-> Solved(r.snapshot)]
            /\ r.outcome = "succeeded" /\ Applicable(r)
            /\ state' = state /\ relight' = relight
        BY <2>7 DEF Publish
      <3>3. Solved(r.snapshot) = Field
        BY <1>2, <1>5, <3>2, ApplicableSolves DEF r
      <3>4. Shape' /\ Dated' /\ CopyInv' /\ Watching' /\ Promise' /\ Resident' = Resident
        BY <1>1, <1>2, <2>4, <3>1, <3>2 DEF TypeInv
      <3>5. Field' = Field
        BY <1>2, <3>4 DEF Field
      <3>6. StageTruth'
        BY <3>2, <3>3, <3>4, <3>5 DEF StageTruth, Fresh
      <3> QED BY <3>2, <3>3, <3>4, <3>6 DEF LightInv
    <2> QED BY <2>1, <2>5, <2>6, <2>7
  <1> QED BY <1>4, <1>5

--------------------------------------------------------------------------------
(* The last part of an update                                                         *)

LEMMA LaterTwice ==
  ASSUME NEW t, NEW t2, NEW t3, IsTable(t), Later(t, t2), Later(t2, t3)
  PROVE  Later(t, t3)
  <1>1. \A c \in DOMAIN t : /\ t[c].rev \in Nat /\ t2[c].rev \in Nat /\ t3[c].rev \in Nat
                            /\ t[c].rev <= t2[c].rev /\ t2[c].rev <= t3[c].rev
                            /\ t3[c].gen = t[c].gen
    BY LaterSelf DEF Later
  <1> QED BY <1>1 DEF Later

\* The steps that only move a lighting stage change neither identity nor revision.
LEMMA BegunLater ==
  ASSUME IsTable(chunks)
  PROVE  Later(chunks, Begun) /\ \A c \in Resident : Begun[c].stage = "requested"
  <1> DEFINE One(r, x) == [r EXCEPT !.ticket = x, !.stage = "requested"]
  <1>1. \A c \in Resident : chunks[c] \in ChunkRecords /\ chunks[c].rev \in Nat
    BY LaterSelf DEF IsTable, Resident
  <1>2. ASSUME NEW r \in ChunkRecords, NEW x \in Nat
        PROVE  /\ One(r, x) \in ChunkRecords /\ One(r, x).gen = r.gen /\ One(r, x).rev = r.rev
               /\ One(r, x).stage = "requested"
    BY DEF ChunkRecords, Stages
  <1>3. \A c \in Resident : chunks[c].ticket + 1 \in Nat
    BY <1>1 DEF ChunkRecords
  <1>4. Begun = [c \in Resident |-> IF chunks[c].stage = "requested" THEN chunks[c]
                                    ELSE One(chunks[c], chunks[c].ticket + 1)]
    BY DEF Begun
  <1> HIDE DEF One
  <1>5. \A c \in Resident : /\ Begun[c] \in ChunkRecords /\ Begun[c].gen = chunks[c].gen
                            /\ Begun[c].rev = chunks[c].rev /\ Begun[c].stage = "requested"
    BY <1>1, <1>2, <1>3, <1>4
  <1>6. DOMAIN Begun = Resident /\ Begun \in [Resident -> ChunkRecords]
    BY <1>4, <1>5
  <1>7. IsTable(Begun)
    BY <1>6 DEF IsTable, Resident
  <1> QED BY <1>1, <1>5, <1>6, <1>7 DEF Later, Resident

LEMMA NewBuildType ==
  ASSUME NEW t, IsTable(t), geometry \in [1..Line -> Nat], adopted \in Settings,
         \A c \in DOMAIN t : t[c].gen <= geometry[c]
  PROVE  /\ IsSnapshot(NewBuild(t)) /\ Agrees(NewBuild(t), t, geometry) /\ Covered(NewBuild(t))
         /\ DOMAIN NewBuild(t).tickets = DOMAIN t
         /\ \A c \in DOMAIN t : /\ t[c].gen = NewBuild(t).gens[c]
                                /\ t[c].rev = NewBuild(t).revs[c]
  <1> DEFINE n == NewBuild(t)
  <1>1. \A c \in DOMAIN t : t[c].gen \in Nat /\ t[c].rev \in Nat /\ t[c].ticket \in Nat
    <2>1. \A c \in DOMAIN t : t[c] \in ChunkRecords
      BY DEF IsTable
    <2> QED BY <2>1 DEF ChunkRecords
  <1>2. /\ n = [stage |-> "copying", setting |-> adopted, copied |-> 0, gens |-> n.gens,
                tickets |-> n.tickets, revs |-> n.revs, cells |-> n.cells]
        /\ n.copied = 0
        /\ n.gens = [c \in DOMAIN t |-> t[c].gen] /\ n.tickets = [c \in DOMAIN t |-> t[c].ticket]
        /\ n.revs = [c \in DOMAIN t |-> t[c].rev] /\ n.cells = [c \in DOMAIN t |-> {}]
    BY DEF NewBuild
  <1> HIDE DEF n
  <1>3. IsSnapshot(n)
    <2>1. /\ n.gens \in [DOMAIN t -> Nat] /\ n.tickets \in [DOMAIN t -> Nat]
          /\ n.revs \in [DOMAIN t -> Nat] /\ n.cells \in [DOMAIN t -> SUBSET Nat]
          /\ DOMAIN n.tickets = DOMAIN t
      BY <1>1, <1>2
    <2>2. DOMAIN t \subseteq 1..Line
      BY DEF IsTable
    <2>3. ASSUME NEW D, NEW g \in [D -> Nat], NEW k \in [D -> Nat], NEW r \in [D -> Nat],
                 NEW x \in [D -> SUBSET Nat]
          PROVE  [stage |-> "copying", setting |-> adopted, copied |-> 0, gens |-> g,
                  tickets |-> k, revs |-> r, cells |-> x] \in Snapshots(D)
      BY DEF Snapshots
    <2>4. n \in Snapshots(DOMAIN t)
      <3> DEFINE g == n.gens
                 k == n.tickets
                 r == n.revs
                 x == n.cells
      <3>1. n = [stage |-> "copying", setting |-> adopted, copied |-> 0, gens |-> g,
                 tickets |-> k, revs |-> r, cells |-> x]
        BY <1>2
      <3>2. g \in [DOMAIN t -> Nat] /\ k \in [DOMAIN t -> Nat] /\ r \in [DOMAIN t -> Nat]
            /\ x \in [DOMAIN t -> SUBSET Nat]
        BY <2>1
      <3> HIDE DEF g, k, r, x
      <3>3. [stage |-> "copying", setting |-> adopted, copied |-> 0, gens |-> g,
             tickets |-> k, revs |-> r, cells |-> x] \in Snapshots(DOMAIN t)
        BY <2>3, <3>2
      <3> QED BY <3>1, <3>3, Zenon
    <2> QED BY <2>1, <2>2, <2>4 DEF IsSnapshot
  <1>4. Agrees(n, t, geometry)
    BY <1>1, <1>2 DEF Agrees
  <1>5. Covered(n)
    <2> SUFFICES ASSUME NEW c \in DOMAIN t
                 PROVE  ~(Position(n.tickets, c) * Cells < 0)
      BY <1>2 DEF Covered
    <2>1. DOMAIN n.tickets = DOMAIN t /\ DOMAIN t \subseteq 1..Line
      BY <1>2 DEF IsTable
    <2>2. Position(n.tickets, c) \in Nat
      BY <2>1, PositionType
    <2> QED BY <2>2, BoundsAssumption
  <1> QED BY <1>2, <1>3, <1>4, <1>5 DEF n

LEMMA RunningLater ==
  ASSUME NEW t, IsTable(t)
  PROVE  LET t2 == [c \in DOMAIN t |-> [t[c] EXCEPT !.stage = "running"]]
         IN  Later(t, t2) /\ \A c \in DOMAIN t : t2[c].stage = "running"
  <1> DEFINE One(r) == [r EXCEPT !.stage = "running"]
             t2 == [c \in DOMAIN t |-> One(t[c])]
  <1>1. \A c \in DOMAIN t : t[c] \in ChunkRecords /\ t[c].rev \in Nat
    BY LaterSelf DEF IsTable
  <1>2. \A r \in ChunkRecords : One(r) \in ChunkRecords /\ One(r).gen = r.gen
                                /\ One(r).rev = r.rev /\ One(r).stage = "running"
    BY StageType DEF Stages
  <1> HIDE DEF One
  <1>3. \A c \in DOMAIN t : /\ t2[c] = One(t[c]) /\ t2[c] \in ChunkRecords
                            /\ t2[c].gen = t[c].gen /\ t2[c].rev = t[c].rev
                            /\ t2[c].stage = "running"
    BY <1>1, <1>2
  <1>4. DOMAIN t2 = DOMAIN t /\ t2 \in [DOMAIN t -> ChunkRecords]
    BY <1>3
  <1> HIDE DEF t2
  <1>5. Later(t, t2) /\ \A c \in DOMAIN t : t2[c].stage = "running"
    BY <1>1, <1>3, <1>4 DEF Later, IsTable
  <1> QED BY <1>5 DEF t2, One

\* A snapshot that agrees with the table is kept or submitted.
LEMMA AdvanceKeeps ==
  ASSUME LightInv, NEW s, NEW t, Later(chunks, t), active = "none",
         IsSnapshot(s), Agrees(s, t, geometry), Covered(s), Complete(s) => Whole(s),
         geometry' = geometry, Advance(s, t)
  PROVE  /\ Later(chunks, chunks')
         /\ \/ /\ build' = s /\ Agrees(build', chunks', geometry') /\ Covered(build')
               /\ state' = state /\ active' = active /\ job' = job /\ chunks' = t
            \/ /\ build' = None /\ state' = "pool_full" /\ active' = active /\ job' = job
            \/ /\ build' = None /\ state' = state /\ active' = "live"
               /\ mailbox = <<>> /\ IsJob(job') /\ job' # None
               /\ Agrees(job'.snapshot, chunks', geometry') /\ Whole(job'.snapshot)
               /\ \A c \in Resident : chunks'[c].stage = "running"
         /\ relight' \in BOOLEAN
  <1>1. TypeInv /\ OneField /\ IsTable(chunks) /\ IsTable(t) /\ geometry \in [1..Line -> Nat]
    BY DEF LightInv, Shape, TypeInv, Later
  <1>2. CASE ~Complete(s)
    BY <1>1, <1>2 DEF Advance
  <1>3. CASE Complete(s) /\ job # None
    <2>1. build' = None /\ state' = "pool_full" /\ chunks' = t /\ active' = active
          /\ job' = job /\ relight' = TRUE
      BY <1>3 DEF Advance, Submit
    <2> QED BY <2>1
  <1>4. CASE Complete(s) /\ job = None
    <2>1. /\ build' = None /\ state' = state /\ active' = "live" /\ relight' = FALSE
          /\ job' = [stage |-> "queued", snapshot |-> s]
          /\ chunks' = [c \in DOMAIN t |-> [t[c] EXCEPT !.stage = "running"]]
      BY <1>4 DEF Advance, Submit
    <2>2. Later(t, chunks') /\ \A c \in DOMAIN t : chunks'[c].stage = "running"
      BY <1>1, <2>1, RunningLater
    <2>3. Later(chunks, chunks')
      BY <1>1, <2>2, LaterTwice
    <2>4. Evolution(t, geometry, chunks', geometry)
      BY <1>1, <2>2, LaterEvolves
    <2>5. IsTable(chunks')
      BY <2>2 DEF Later
    <2>6. Agrees(s, chunks', geometry)
      BY <1>1, <2>4, <2>5, AgreesLasts
    <2>7. mailbox = <<>>
      BY <1>1 DEF OneField
    <2>8. job' # None /\ job'.snapshot = s /\ job'.stage = "queued"
      BY <2>1 DEF None
    <2>9. IsJob(job')
      BY <2>1, <2>8 DEF IsJob
    <2>10. DOMAIN t = Resident
      BY DEF Later, Resident
    <2> QED BY <1>4, <2>1, <2>2, <2>3, <2>6, <2>7, <2>8, <2>9, <2>10
  <1> QED BY <1>2, <1>3, <1>4

\* What the invariant asks for after the last part, whichever way it went.
LEMMA BuildEnds ==
  ASSUME LightInv, state = "running", phase = "applied", phase' = "idle",
         UNCHANGED <<worldVars, light, adopted, observed, mailbox>>,
         Later(chunks, chunks'), TypeInv', OneField', CopyInv',
         state' = "running" =>
           \A c \in Resident : Fresh(c) \/ (chunks'[c].stage # "resident" /\ Pending')
  PROVE  LightInv'
  <1>1. geometry' = geometry /\ setting' = setting /\ light' = light /\ adopted' = adopted
        /\ observed' = observed /\ Resident' = Resident
    BY DEF worldVars, Later, Resident
  <1>2. Dated' /\ Watching'
    BY <1>1, OwnerKeeps, WatchingKept
  <1>3. StageTruth'
    BY DEF StageTruth
  <1>4. DOMAIN observed = Resident /\ adopted = setting
    BY DEF LightInv, Watching
  <1>5. Watched' = Field
    BY <1>1, <1>4 DEF Watched, Field
  <1>6. Promise'
    BY <1>1, <1>4, <1>5 DEF Promise, Fresh
  <1> QED BY <1>2, <1>3, <1>6 DEF LightInv, Shape

LEMMA AdvanceEnds ==
  ASSUME LightInv, state = "running", phase = "applied", phase' = "idle",
         UNCHANGED <<worldVars, light, adopted, observed, mailbox>>,
         NEW s, NEW t, Later(chunks, t), active = "none",
         IsSnapshot(s), Agrees(s, t, geometry), Covered(s), Complete(s) => Whole(s),
         \A c \in Resident : Fresh(c) \/ t[c].stage # "resident",
         Advance(s, t)
  PROVE  LightInv'
  <1>1. geometry' = geometry /\ setting' = setting /\ light' = light /\ adopted' = adopted
        /\ observed' = observed /\ mailbox' = mailbox
    BY DEF worldVars
  <1>2. TypeInv /\ OneField /\ CopyInv
    BY DEF LightInv, Shape
  <1>3. /\ Later(chunks, chunks')
        /\ \/ /\ build' = s /\ Agrees(build', chunks', geometry') /\ Covered(build')
              /\ state' = state /\ active' = active /\ job' = job /\ chunks' = t
           \/ /\ build' = None /\ state' = "pool_full" /\ active' = active /\ job' = job
           \/ /\ build' = None /\ state' = state /\ active' = "live"
              /\ mailbox = <<>> /\ IsJob(job') /\ job' # None
              /\ Agrees(job'.snapshot, chunks', geometry') /\ Whole(job'.snapshot)
              /\ \A c \in Resident : chunks'[c].stage = "running"
        /\ relight' \in BOOLEAN
    BY <1>1, AdvanceKeeps
  <1>4. /\ IsTable(chunks') /\ Resident' = Resident
        /\ job # None => Agrees(job.snapshot, chunks', geometry') /\ Whole(job.snapshot)
        /\ mailbox # <<>> => /\ Agrees(mailbox[1].snapshot, chunks', geometry')
                             /\ Whole(mailbox[1].snapshot)
    BY <1>1, <1>3, OwnerKeeps
  <1>5. s # None
    <2>1. s.stage = "copying"
      BY DEF IsSnapshot, Snapshots
    <2> QED BY <2>1 DEF None
  <1>6. TypeInv'
    <2>1. IsJob(job')
      BY <1>2, <1>3 DEF TypeInv, IsJob
    <2>2. state' \in {"running", "stopped", "pool_full", "solve_failed"}
          /\ active' \in {"none", "live", "cancelled"}
          /\ (build' # None => IsSnapshot(build'))
      BY <1>2, <1>3
    <2> QED BY <1>1, <1>2, <1>3, <1>4, <2>1, <2>2 DEF TypeInv
  <1>7. OneField'
    BY <1>1, <1>2, <1>3 DEF OneField
  <1>8. CopyInv'
    BY <1>1, <1>3, <1>4 DEF CopyInv
  <1>9. ASSUME state' = "running", NEW c \in Resident
        PROVE  Fresh(c) \/ (chunks'[c].stage # "resident" /\ Pending')
    BY <1>3, <1>5, <1>9 DEF Pending
  <1> QED BY <1>3, <1>6, <1>7, <1>8, <1>9, BuildEnds

LEMMA BuildKeeps ==
  ASSUME LightInv, Build
  PROVE  LightInv' /\ light' = light
  <1>1. TypeInv /\ OneField /\ Dated /\ CopyInv /\ Watching /\ StageTruth
    BY DEF LightInv, Shape
  <1>2. /\ state = "running" /\ phase = "applied" /\ phase' = "idle"
        /\ UNCHANGED <<worldVars, light, adopted, observed, mailbox>>
        /\ geometry' = geometry /\ setting' = setting /\ light' = light
        /\ adopted' = adopted /\ observed' = observed /\ mailbox' = mailbox
    BY DEF Build, worldVars
  <1>3. IsTable(chunks) /\ geometry \in [1..Line -> Nat] /\ adopted \in Settings
    BY <1>1 DEF TypeInv
  <1>4. \A c \in Resident : Fresh(c) \/ (chunks[c].stage # "resident" /\ Pending)
    BY <1>1, <1>2 DEF StageTruth, Pending
  <1>5. CASE MayBegin /\ Advance(Copied(NewBuild(Begun), Begun), Begun)
    <2> DEFINE n == NewBuild(Begun)
               s == Copied(n, Begun)
    <2>1. Later(chunks, Begun) /\ \A c \in Resident : Begun[c].stage = "requested"
      BY <1>3, BegunLater
    <2>2. IsTable(Begun) /\ \A c \in DOMAIN Begun : Begun[c].gen <= geometry[c]
      BY <1>1, <2>1 DEF Later, Dated, Resident
    <2>3. /\ IsSnapshot(n) /\ Agrees(n, Begun, geometry) /\ Covered(n)
          /\ DOMAIN n.tickets = DOMAIN Begun
          /\ \A c \in DOMAIN Begun : Begun[c].gen = n.gens[c] /\ Begun[c].rev = n.revs[c]
      BY <1>3, <2>2, NewBuildType
    <2> HIDE DEF n
    <2>4. /\ IsSnapshot(s) /\ Agrees(s, Begun, geometry) /\ Covered(s)
          /\ Complete(s) => Whole(s)
      BY <1>3, <2>2, <2>3, CopiedType
    <2>5. Advance(s, Begun) /\ active = "none"
      BY <1>5 DEF MayBegin, n
    <2> HIDE DEF s
    <2>6. LightInv'
      BY <1>2, <2>1, <2>4, <2>5, AdvanceEnds
    <2> QED BY <1>2, <2>6
  <1>6. CASE build = None /\ UNCHANGED <<state, chunks, relight, build, active, job>>
    <2>1. Later(chunks, chunks')
      BY <1>3, <1>6, LaterSelf
    <2>2. TypeInv' /\ OneField'
      BY <1>1, <1>2, <1>6 DEF TypeInv, OneField, IsJob, Resident
    <2>3. CopyInv'
      BY <1>1, <1>2, <1>6 DEF CopyInv
    <2>4. LightInv'
      BY <1>2, <1>4, <1>6, <2>1, <2>2, <2>3, BuildEnds DEF Pending
    <2> QED BY <1>2, <2>4
  <1>7. CASE build # None /\ StillCurrent(build) /\ Advance(Copied(build, chunks), chunks)
    <2> DEFINE s == Copied(build, chunks)
    <2>1. IsSnapshot(build) /\ Agrees(build, chunks, geometry) /\ Covered(build)
      BY <1>1, <1>7 DEF TypeInv, CopyInv
    <2>2. DOMAIN chunks = DOMAIN build.tickets
          /\ \A c \in DOMAIN chunks : chunks[c].gen = build.gens[c] /\ chunks[c].rev = build.revs[c]
      BY <1>7 DEF StillCurrent, SameChunks, Current, Resident
    <2>3. /\ IsSnapshot(s) /\ Agrees(s, chunks, geometry) /\ Covered(s)
          /\ Complete(s) => Whole(s)
      BY <1>3, <2>1, <2>2, CopiedType
    <2>4. Advance(s, chunks) /\ active = "none" /\ Later(chunks, chunks)
      BY <1>1, <1>3, <1>7, LaterSelf DEF OneField
    <2> HIDE DEF s
    <2>5. \A c \in Resident : Fresh(c) \/ chunks[c].stage # "resident"
      BY <1>4
    <2>6. LightInv'
      BY <1>2, <2>3, <2>4, <2>5, AdvanceEnds
    <2> QED BY <1>2, <2>6
  <1>8. CASE build # None /\ Invalidate(1) /\ UNCHANGED <<state, job>>
    <2>1. /\ chunks' = Requested(chunks, 1) /\ build' = None /\ relight' = TRUE
          /\ active' = IF active = "none" THEN "none" ELSE "cancelled"
          /\ state' = state /\ job' = job
      BY <1>8 DEF Invalidate
    <2>2. Later(chunks, chunks') /\ \A c \in DOMAIN chunks : chunks'[c].stage = "requested"
      BY <1>3, <2>1, RequestedLater
    <2>3. /\ IsTable(chunks') /\ Resident' = Resident
          /\ job # None => Agrees(job.snapshot, chunks', geometry') /\ Whole(job.snapshot)
          /\ mailbox # <<>> => /\ Agrees(mailbox[1].snapshot, chunks', geometry')
                               /\ Whole(mailbox[1].snapshot)
      BY <1>2, <2>2, OwnerKeeps
    <2>4. active' \in {"none", "live", "cancelled"}
      BY <2>1
    <2>5. TypeInv'
      BY <1>1, <1>2, <2>1, <2>3, <2>4 DEF TypeInv, IsJob
    <2>6. OneField' /\ CopyInv'
      BY <1>1, <1>2, <2>1, <2>3 DEF OneField, CopyInv
    <2>7. LightInv'
      BY <1>2, <2>1, <2>2, <2>5, <2>6, BuildEnds DEF Resident, Pending
    <2> QED BY <1>2, <2>7
  <1> QED BY <1>5, <1>6, <1>7, <1>8 DEF Build

--------------------------------------------------------------------------------
(* The worker and the end                                                             *)

\* The worker touches nothing that the owner thread reads, except the mailbox.
LEMMA WorkerKeeps ==
  ASSUME LightInv, Worker, TypeInv', OneField', CopyInv'
  PROVE  LightInv' /\ light' = light
  <1>1. /\ state' = state /\ phase' = phase /\ chunks' = chunks /\ light' = light
        /\ geometry' = geometry /\ setting' = setting
        /\ adopted' = adopted /\ observed' = observed /\ relight' = relight
        /\ build' = build /\ active' = active
    BY DEF Worker, worldVars, systemVars
  <1>2. Dated' /\ Watching'
    BY <1>1 DEF LightInv, Dated, Watching, Resident
  <1>3. Promise'
    <2>1. Watched' = Watched /\ Pending' = Pending
      BY <1>1 DEF Watched, Pending
    <2>2. ASSUME NEW c \in DOMAIN observed PROVE Quiet(c)' <=> Quiet(c)
      BY <1>1 DEF Quiet, Resident
    <2> QED BY <1>1, <2>1, <2>2 DEF LightInv, Promise
  <1>4. StageTruth'
    BY <1>1 DEF LightInv, StageTruth, Fresh, Field, Resident
  <1> QED BY <1>1, <1>2, <1>3, <1>4 DEF LightInv, Shape

LEMMA DeliverKeeps ==
  ASSUME LightInv, job.stage \in {"queued", "solving"}, Worker,
         NEW o \in {"succeeded", "failed", "cancelled"}, Deliver(o)
  PROVE  LightInv' /\ light' = light
  <1>1. TypeInv /\ OneField /\ CopyInv
    BY DEF LightInv, Shape
  <1>2. /\ state' = state /\ phase' = phase /\ chunks' = chunks /\ light' = light
        /\ geometry' = geometry /\ setting' = setting
        /\ adopted' = adopted /\ observed' = observed /\ relight' = relight
        /\ build' = build /\ active' = active
    BY DEF Worker, worldVars, systemVars
  <1>3. /\ mailbox = <<>> /\ active # "none" /\ build = None
    BY <1>1 DEF OneField
  <1>4. job # None
    BY DEF None
  <1>5. job = [stage |-> job.stage, snapshot |-> job.snapshot] /\ IsSnapshot(job.snapshot)
    BY <1>1, <1>4 DEF TypeInv, IsJob
  <1>6. job' = [stage |-> "finishing", snapshot |-> job.snapshot]
    <2> DEFINE x == job.snapshot
               y == job.stage
    <2>1. job = [stage |-> y, snapshot |-> x]
      BY <1>5
    <2>2. job' = [job EXCEPT !.stage = "finishing"]
      BY DEF Deliver
    <2> HIDE DEF x, y
    <2>3. job' = [stage |-> "finishing", snapshot |-> x]
      BY <2>1, <2>2
    <2> QED BY <2>3 DEF x
  <1> DEFINE r == [outcome |-> o, snapshot |-> job.snapshot]
  <1>7. mailbox' = <<r>>
    BY <1>3 DEF Deliver, Delivered
  <1>8. r \in Results
    BY <1>5, SnapshotInUnion DEF Results
  <1>9. mailbox'[1].snapshot = job.snapshot /\ mailbox' # <<>>
    BY <1>7
  <1>10. job'.stage = "finishing" /\ job'.snapshot = job.snapshot /\ job' # None
    BY <1>6 DEF None
  <1>11. TypeInv'
    <2>1. IsJob(job')
      BY <1>5, <1>6, <1>10 DEF IsJob
    <2>2. mailbox' \in Seq(Results) /\ Len(mailbox') <= 1
      <3> HIDE DEF r
      <3> QED BY <1>7, <1>8
    <2> QED BY <1>1, <1>2, <2>1, <2>2 DEF TypeInv, Resident
  <1>12. OneField'
    BY <1>2, <1>3, <1>10 DEF OneField
  <1>13. CopyInv'
    BY <1>1, <1>2, <1>3, <1>4, <1>9, <1>10 DEF CopyInv
  <1> QED BY <1>11, <1>12, <1>13, WorkerKeeps

LEMMA TakeKeeps ==
  ASSUME LightInv, Take
  PROVE  LightInv' /\ light' = light
  <1>1. CASE Deliver("cancelled")
    BY <1>1, DeliverKeeps DEF Take
  <1>2. CASE job' = [job EXCEPT !.stage = "solving"] /\ UNCHANGED mailbox
    <2>1. TypeInv /\ OneField /\ CopyInv /\ Worker /\ job.stage = "queued"
      BY DEF LightInv, Shape, Take
    <2>2. /\ state' = state /\ phase' = phase /\ chunks' = chunks /\ light' = light
          /\ geometry' = geometry /\ setting' = setting
          /\ adopted' = adopted /\ observed' = observed /\ relight' = relight
          /\ build' = build /\ active' = active /\ mailbox' = mailbox
      BY <1>2, <2>1 DEF Worker, worldVars, systemVars
    <2>3. job # None
      BY <2>1 DEF None
    <2>4. job = [stage |-> job.stage, snapshot |-> job.snapshot] /\ IsSnapshot(job.snapshot)
      BY <2>1, <2>3 DEF TypeInv, IsJob
    <2>5. job' = [stage |-> "solving", snapshot |-> job.snapshot]
      <3> DEFINE x == job.snapshot
                 y == job.stage
      <3>1. job = [stage |-> y, snapshot |-> x]
        BY <2>4
      <3> HIDE DEF x, y
      <3>2. job' = [stage |-> "solving", snapshot |-> x]
        BY <1>2, <3>1
      <3> QED BY <3>2 DEF x
    <2>6. job'.stage = "solving" /\ job'.snapshot = job.snapshot /\ job' # None
      BY <2>5 DEF None
    <2>7. IsJob(job')
      BY <2>4, <2>5, <2>6 DEF IsJob
    <2>8. TypeInv'
      BY <2>1, <2>2, <2>7 DEF TypeInv, Resident
    <2>9. OneField' /\ CopyInv'
      BY <2>1, <2>2, <2>3, <2>6 DEF OneField, CopyInv
    <2> QED BY <2>1, <2>8, <2>9, WorkerKeeps
  <1> QED BY <1>1, <1>2 DEF Take

LEMMA RetireKeeps ==
  ASSUME LightInv, Retire
  PROVE  LightInv' /\ light' = light
  <1>1. TypeInv /\ OneField /\ CopyInv /\ Worker /\ job' = None /\ mailbox' = mailbox
    BY DEF LightInv, Shape, Retire
  <1>2. /\ state' = state /\ phase' = phase /\ chunks' = chunks /\ light' = light
        /\ geometry' = geometry /\ setting' = setting
        /\ adopted' = adopted /\ observed' = observed /\ relight' = relight
        /\ build' = build /\ active' = active
    BY <1>1 DEF Worker, worldVars, systemVars
  <1>3. TypeInv' /\ CopyInv'
    BY <1>1, <1>2 DEF TypeInv, IsJob, CopyInv, Resident
  <1>4. OneField'
    BY <1>1, <1>2 DEF OneField, None
  <1> QED BY <1>1, <1>3, <1>4, WorkerKeeps

LEMMA EmptyTuple == DOMAIN <<>> = {}
  OBVIOUS

LEMMA ShutdownKeeps ==
  ASSUME LightInv, Shutdown
  PROVE  LightInv' /\ light' = light
  <1>1. TypeInv /\ Dated /\ Watching
    BY DEF LightInv, Shape
  <1>2. /\ state' = "stopped" /\ phase' = phase /\ chunks' = chunks /\ light' = light
        /\ geometry' = geometry /\ setting' = setting /\ adopted' = adopted
        /\ build' = None /\ active' = "none" /\ relight' = FALSE /\ observed' = <<>>
        /\ job' = None /\ mailbox' = <<>>
    BY DEF Shutdown, worldVars
  <1>3. TypeInv'
    <2>1. mailbox' \in Seq(Results) /\ Len(mailbox') <= 1
      BY <1>2
    <2> QED BY <1>1, <1>2, <2>1 DEF TypeInv, IsJob, Resident
  <1>4. OneField'
    BY <1>2 DEF OneField, None
  <1>5. Dated' /\ CopyInv'
    BY <1>1, <1>2 DEF Dated, CopyInv, Resident
  <1>6. Watching'
    BY <1>1, <1>2, EmptyTuple DEF Watching
  <1>7. Promise' /\ StageTruth'
    BY <1>2 DEF Promise, StageTruth
  <1> QED BY <1>2, <1>3, <1>4, <1>5, <1>6, <1>7 DEF LightInv, Shape

--------------------------------------------------------------------------------
(* Theorems                                                                           *)

LEMMA LightInit == Init => LightInv
  <1> SUFFICES ASSUME Init PROVE LightInv
    OBVIOUS
  <1>1. /\ chunks = [c \in Start |-> NewChunk(1)] /\ geometry = [c \in 1..Line |-> 1]
        /\ light = [c \in Start |-> <<>>] /\ observed = <<>> /\ build = None /\ job = None
        /\ mailbox = <<>> /\ active = "none" /\ state = "running" /\ phase = "idle"
        /\ relight = FALSE /\ setting = [sources |-> 1, palette |-> 1] /\ adopted = setting
    BY DEF Init
  <1>2. NewChunk(1) \in ChunkRecords /\ NewChunk(1).gen = 1
    BY DEF NewChunk, ChunkRecords, Stages
  <1>3. IsTable(chunks) /\ DOMAIN light = Resident
    BY <1>1, <1>2, StartAssumption DEF IsTable, Resident
  <1>4. setting \in Settings /\ adopted.sources <= setting.sources
        /\ adopted.palette <= setting.palette
    BY <1>1 DEF Settings
  <1>5. Shape
    <2>1. mailbox \in Seq(Results) /\ Len(mailbox) <= 1
      BY <1>1
    <2>2. geometry \in [1..Line -> Nat]
      BY <1>1
    <2>3. TypeInv
      BY <1>1, <1>3, <1>4, <2>1, <2>2 DEF TypeInv, IsJob
    <2> QED BY <1>1, <2>3 DEF Shape, OneField, None
  <1>6. Dated /\ CopyInv
    <2>1. \A c \in Resident : chunks[c] = NewChunk(1) /\ geometry[c] = 1
      BY <1>1, StartAssumption DEF Resident
    <2>2. Dated
      BY <1>2, <2>1 DEF Dated
    <2>3. CopyInv
      BY <1>1 DEF CopyInv
    <2> QED BY <2>2, <2>3
  <1>7. Watching /\ Promise /\ StageTruth
    BY <1>1, <1>4, EmptyTuple DEF Watching, Promise, StageTruth
  <1> QED BY <1>5, <1>6, <1>7 DEF LightInv

LEMMA EventKeeps ==
  ASSUME LightInv, NEW c \in 1..Line, Edit(c) \/ Touch(c) \/ Load(c) \/ Unload(c)
  PROVE  LightInv'
  <1>1. TypeInv /\ Dated /\ Watching
    BY DEF LightInv, Shape
  <1>2. Drifted
    BY <1>1, EditDrifts, TouchDrifts, LoadDrifts, UnloadDrifts
  <1>3. phase = "idle" /\ setting' = setting /\ UNCHANGED <<state, phase, systemVars, poolVars>>
    BY DEF Edit, Touch, Load, Unload, Event
  <1>4. Changed
    BY <1>1, <1>3 DEF Changed, TypeInv, Watching
  <1> QED BY <1>2, <1>3, <1>4, WorldKeeps

LEMMA ChangeKeeps ==
  ASSUME LightInv, NEW what \in {"sources", "palette"}, Change(what)
  PROVE  LightInv'
  <1>1. Drifted /\ Changed
    BY ChangeDrifts DEF LightInv, Shape
  <1>2. phase = "idle" /\ UNCHANGED <<state, phase, systemVars, poolVars>>
    BY DEF Change, Event
  <1> QED BY <1>1, <1>2, WorldKeeps

LEMMA SolveKeeps ==
  ASSUME LightInv, Solve
  PROVE  LightInv' /\ light' = light
  <1>1. PICK o \in {"succeeded", "failed", "cancelled"} : Deliver(o)
    BY DEF Solve
  <1> QED BY <1>1, DeliverKeeps DEF Solve

LEMMA StutterKeeps ==
  ASSUME LightInv, UNCHANGED vars
  PROVE  LightInv'
  <1>1. /\ Worker /\ state' = state /\ phase' = phase /\ chunks' = chunks /\ light' = light
        /\ geometry' = geometry /\ setting' = setting /\ adopted' = adopted
        /\ observed' = observed /\ relight' = relight /\ build' = build /\ active' = active
        /\ job' = job /\ mailbox' = mailbox
    BY DEF vars, Worker, worldVars, systemVars, poolVars
  <1>2. TypeInv' /\ OneField' /\ CopyInv'
    BY <1>1 DEF LightInv, Shape, TypeInv, OneField, CopyInv, IsJob, Resident
  <1> QED BY <1>1, <1>2, WorkerKeeps

LEMMA LightStep == LightInv /\ [Next]_vars => LightInv'
  <1> SUFFICES ASSUME LightInv, [Next]_vars PROVE LightInv'
    OBVIOUS
  <1>1. CASE \E c \in 1..Line : Edit(c) \/ Touch(c) \/ Load(c) \/ Unload(c)
    BY <1>1, EventKeeps
  <1>2. CASE \E what \in {"sources", "palette"} : Change(what)
    BY <1>2, ChangeKeeps
  <1>3. CASE Update
    BY <1>3, RefreshKeeps, ApplyKeeps, BuildKeeps DEF Update
  <1>4. CASE Take \/ Solve \/ Retire
    BY <1>4, TakeKeeps, SolveKeeps, RetireKeeps
  <1>5. CASE Shutdown
    BY <1>5, ShutdownKeeps
  <1>6. CASE UNCHANGED vars
    BY <1>6, StutterKeeps
  <1> QED BY <1>1, <1>2, <1>3, <1>4, <1>5, <1>6 DEF Next

(* The inductive invariant: types, one field at a time, copies that agree with the world   *)
(* wherever it has not moved on, and the promise that links what the last update saw to    *)
(* the light and the stages of today.                                                      *)
THEOREM LightInvariant == Spec => []LightInv
  <1>1. LightInv /\ UNCHANGED vars => LightInv'
    BY StutterKeeps
  <1> QED BY LightInit, LightStep, PTL DEF Spec

(* A snapshot is built or a job is active, never both, so the scheduler never refuses a    *)
(* job as a second one: the state "scheduler_full" of Submit does not occur, a mailbox     *)
(* never holds two results, and the light table covers exactly the resident chunks         *)
(* (ChunkLightScheduler::submit, ChunkLightSystem::update).                                *)
THEOREM TypeCorrect == Spec => []TypeOK
  <1>1. LightInv => TypeOK
    <2> SUFFICES ASSUME LightInv PROVE TypeOK
      OBVIOUS
    <2>1. TypeInv
      BY DEF LightInv, Shape
    <2>2. \A c \in Resident : chunks[c].stage \in Stages
      <3>1. \A c \in Resident : chunks[c] \in ChunkRecords
        BY <2>1 DEF TypeInv, IsTable, Resident
      <3> QED BY <3>1 DEF ChunkRecords
    <2>3. job.stage \in {"none", "queued", "solving", "finishing"}
      BY <2>1 DEF TypeInv, IsJob, None
    <2> QED BY <2>1, <2>2, <2>3 DEF TypeOK, TypeInv, IsTable, Resident, Stages
  <1> QED BY LightInvariant, <1>1, PTL

(* After an update has looked, a chunk with other light than the world asks for does not   *)
(* claim a resident lighting stage and has a request, a snapshot or a job under way        *)
(* (ChunkLightSystem::collect_dirty, apply_completed, begin_snapshot).                     *)
THEOREM StagesAreTruthful == Spec => []StageTruth
  <1>1. LightInv => StageTruth
    BY DEF LightInv
  <1> QED BY LightInvariant, <1>1, PTL

LEMMA LightChanges ==
  ASSUME LightInv, Next, NEW c \in DOMAIN light \cap DOMAIN light', light'[c] # light[c]
  PROVE  light'[c] = Field
  <1>1. DOMAIN light = Resident
    BY DEF LightInv, Shape, TypeInv
  <1>2. CASE Apply
    BY <1>1, <1>2, ApplyKeeps
  <1>3. ASSUME NEW d \in 1..Line, Load(d) PROVE FALSE
    BY <1>1, <1>3 DEF Load, With
  <1>4. ASSUME NEW d \in 1..Line, Unload(d) PROVE FALSE
    BY <1>4 DEF Unload, Restrict
  <1>5. CASE \E d \in 1..Line : Edit(d) \/ Touch(d)
    BY <1>5 DEF Edit, Touch
  <1>6. CASE \E what \in {"sources", "palette"} : Change(what)
    BY <1>6 DEF Change
  <1>7. CASE Refresh \/ Build
    BY <1>7, BuildKeeps DEF Refresh
  <1>8. CASE Take \/ Solve \/ Retire \/ Shutdown
    BY <1>8, TakeKeeps, SolveKeeps, RetireKeeps, ShutdownKeeps
  <1> QED BY <1>2, <1>3, <1>4, <1>5, <1>6, <1>7, <1>8 DEF Next, Update

(* Light that appears in a chunk was solved from the world it appears in, whatever was     *)
(* edited, loaded, unloaded or set while the snapshot was copied over several ticks and    *)
(* the job ran (ChunkLightSystem::apply_completed).                                        *)
THEOREM LightIsNeverStale == Spec => NoStaleField
  <1> DEFINE P == \A c \in DOMAIN light \cap DOMAIN light' :
                    light'[c] # light[c] => light'[c] = Field
  <1>1. LightInv /\ [Next]_vars => [P]_vars
    BY LightChanges
  <1> QED BY LightInvariant, <1>1, PTL DEF Spec, NoStaleField
================================================================================

--------------------------- MODULE ChunkJournalProofs ---------------------------
(***************************************************************************)
(* Proofs about ChunkJournal, for any coordinates, writers, readers and     *)
(* bounds: what readers have pinned, what maintenance leaves as it is, and  *)
(* what a crash at any step may show.                                       *)
(***************************************************************************)
EXTENDS ChunkJournal, FiniteSetTheorems, WellFoundedInduction, TLAPS

--------------------------------------------------------------------------------
(* The invariant of the operations *)

\* A namespace in which some table can be read, and no journal is its own leftover.
Roots == {r \in [journal : 0..LastJournal, compacted : 0..LastJournal,
                 base : Tables \cup {NoTable}, backup : Tables \cup {NoTable, Broken}] :
            /\ r.base # NoTable \/ r.backup # Broken
            /\ r.compacted # 0 => r.compacted # r.journal}

Typed ==
  /\ root \in roots /\ roots \subseteq Roots
  /\ files \in [Journals -> [live : Entries, stable : Entries]]
  /\ generation \in 0..LastGeneration
  /\ pending \in Tables \cup {NoTable}
  /\ writers \in [Writers -> [open : BOOLEAN, generation : 0..LastGeneration,
                              highest : 0..LastSequence]]
  /\ pinned \in [Readers -> [open : BOOLEAN, generation : 0..LastGeneration, inline : BOOLEAN,
                             view : Tables \cup {NoTable}, source : [Coords -> 0..LastSequence]]]
  /\ pc \in Labels
  /\ local \in [writer : Writers \cup {NoOne}, coord : Coords \cup {NoOne},
                table : Tables \cup {NoTable}, next : Tables \cup {NoTable}, bulk : BOOLEAN]
  /\ written \in 0..LastValue
  /\ possible \subseteq Tables

Writing == {"created", "ready", "renamed"}
Replacing == {"stage", "backup", "restored", "displace", "displaced", "promote", "promoted", "cleanup"}
Retiring == {"retire", "retired", "discard", "discarded"}

\* The writer at work, which nobody can close.
Pen == writers[local.writer]

\* Where an operation is says what it may assume of the locks it holds, ...
Locked ==
  /\ pc # "idle" => pending = NoTable
  /\ pc = "idle" => local = NoLocal
  /\ pc \in Replacing \cup Retiring => Exclusive
  /\ local.bulk => pc \in Replacing
  /\ pending # NoTable => generation < LastGeneration

\* ... of the tables in the root, ...
Placed ==
  /\ pc \in Replacing \cup {"retire"} =>
       local.table \in Tables /\ (~local.bulk => local.table = Merged)
  /\ pc \in {"backup", "promote", "cleanup"} => roots = {root}
  /\ pc = "backup" => root.backup # NoTable
  /\ pc \in {"displaced", "promote"} => root.base = NoTable
  /\ pc \in {"restored", "displace"} => root.base # NoTable /\ root.backup = NoTable
  /\ pc \in {"promoted", "cleanup", "retire"} => root.base = local.table

\* ... and of the entry it writes, which comes after every other.
Penned ==
  /\ pc \in Writing =>
       /\ local.writer \in Writers /\ local.coord \in Coords /\ written \in 1..LastValue
       /\ Pen.open /\ Pen.generation = generation /\ Pen.highest < LastSequence
       /\ root.journal # 0
  /\ pc \in {"created", "ready"} => LiveEntries[Pen.highest + 1] = NoEntry
  /\ pc = "renamed" =>
       /\ LiveEntries[Pen.highest + 1] = <<local.coord, written>>
       /\ \A n \in Present(LiveEntries) : n <= Pen.highest + 1

\* A writer that may still write knows the last entry, whatever other writers did.
Pens ==
  \A w \in Writers : writers[w].open =>
    /\ writers[w].generation <= generation
    /\ writers[w].generation = generation =>
         /\ writers[w].highest \in Present(LiveEntries) \cup {0}
         /\ \A n \in Present(LiveEntries) :
              n > writers[w].highest => LiveEntries[writers[w].highest + 1] # NoEntry

Views ==
  \A r \in Readers : pinned[r].open => pinned[r].generation <= generation /\ pinned[r].view \in Tables

OperationInv == Typed /\ Locked /\ Placed /\ Penned /\ Pens /\ Views /\ PinnedViewsHold

--------------------------------------------------------------------------------
(* The invariant of what a crash may show *)

\* Two flushes have to succeed: that of the root after the journal directory was created
\* in it, and after the journal was renamed to its compacted name.  After the first fails the
\* next delta is acknowledged in a directory that may vanish; after the second, recovery
\* empties a journal that may get its name back.
Reliable == {"created", "retired"} \cap ErrorsAt = {}

\* The namespaces agree on the journal, and no leftover of one is the journal of another.
Shared ==
  /\ pc \notin {"created", "retired"} => \A r \in roots : r.journal = root.journal
  /\ pc # "retired" => \A r, s \in roots : r.compacted # 0 => r.compacted # s.journal

\* What is flushed of a journal is still there.
Kept == \A r \in roots : r.journal # 0 =>
          \A n \in Sequences : files[r.journal].stable[n] # NoEntry =>
                                 files[r.journal].live[n] = files[r.journal].stable[n]

Foreseen ==
  IF pending # NoTable THEN pending \in possible
  ELSE \A r \in roots : \A e \in Settled(r.journal) : Overlay(Base(r), e) \in possible

Attempted ==
  /\ pc \in {"created", "ready"} =>
       \A r \in roots : \A e \in Settled(r.journal) :
         [Overlay(Base(r), e) EXCEPT ![local.coord] = written] \in possible
  /\ local.bulk => local.table \in possible /\ LiveEntries = NoEntries
  /\ local.next # NoTable => local.next \in possible
  /\ local.next # NoTable /\ pc \in {"retired", "discard", "discarded"} => root.journal = 0

CrashInv == Shared /\ Kept /\ Foreseen /\ Attempted

--------------------------------------------------------------------------------
(* Sets of numbers, entries and tables *)

\* Max returns the largest member of a finite set.
LEMMA MaxOfFinite ==
  ASSUME NEW S, IsFiniteSet(S), S \subseteq Int, S # {}
  PROVE  Max(S) \in S /\ \A y \in S : y <= Max(S)
  <1> DEFINE above(x) == {y \in S : y > x}
             T == {above(x) : x \in S}
  <1>1. T \subseteq FiniteSubsetsOf(S) /\ T # {}
    <2>1. \A x \in S : above(x) \in SUBSET S
      OBVIOUS
    <2>2. \A x \in S : IsFiniteSet(above(x))
      BY <2>1, FS_Subset
    <2> QED BY <2>1, <2>2 DEF FiniteSubsetsOf
  <1>2. PICK U \in T : \A V \in T : ~ (<<V, U>> \in StrictSubsetOrdering(S))
    BY <1>1, FS_StrictSubsetOrderingWellFounded, WFMin
  <1>3. PICK x \in S : U = above(x)
    BY <1>2
  <1>4. ASSUME NEW y \in S, y > x PROVE FALSE
    <2>1. above(y) \in T
      OBVIOUS
    <2>2. ASSUME NEW z \in above(y) PROVE z \in above(x)
      <3>1. z \in S /\ z \in Int /\ y \in Int /\ x \in Int /\ z > y
        OBVIOUS
      <3> QED BY <1>4, <3>1
    <2>3. y \in above(x) /\ y \notin above(y)
      BY <1>4
    <2>4. <<above(y), above(x)>> \in StrictSubsetOrdering(S)
      BY <2>2, <2>3 DEF StrictSubsetOrdering
    <2> QED BY <1>2, <1>3, <2>1, <2>4
  <1>5. \A y \in S : x >= y
    BY <1>4
  <1> QED BY <1>5 DEF Max

\* Min returns a member of a finite set: it is minus the largest of the negatives.
LEMMA MinOfFinite ==
  ASSUME NEW S, IsFiniteSet(S), S \subseteq Int, S # {}
  PROVE  Min(S) \in S
  <1> DEFINE N == {-x : x \in S}
             f == [x \in S |-> -x]
  <1>1. f \in Surjection(S, N)
    BY DEF Surjection
  <1>2. IsFiniteSet(N)
    BY <1>1, FS_Surjection
  <1>3. N \subseteq Int /\ N # {}
    OBVIOUS
  <1>4. Max(N) \in N /\ \A y \in N : y <= Max(N)
    BY <1>2, <1>3, MaxOfFinite
  <1>5. PICK x \in S : Max(N) = -x
    BY <1>4
  <1>6. \A y \in S : x <= y
    <2> SUFFICES ASSUME NEW y \in S PROVE x <= y
      OBVIOUS
    <2>1. -y \in N
      OBVIOUS
    <2>2. -y <= -x
      BY <1>4, <1>5, <2>1
    <2>3. x \in Int /\ y \in Int
      OBVIOUS
    <2> QED BY <2>2, <2>3
  <1> QED BY <1>6 DEF Min

LEMMA NumbersAreFinite ==
  ASSUME NEW k \in Nat, NEW S, S \subseteq 0..k
  PROVE  IsFiniteSet(S)
  <1>1. IsFiniteSet(0..k)
    BY FS_Interval
  <1> QED BY <1>1, FS_Subset

\* There is a chunk, so the three kinds of directory differ.
LEMMA KindsDiffer == NoTable \notin Tables /\ Broken \notin Tables /\ NoTable # Broken
  <1>1. PICK c \in Coords : TRUE
    BY BoundsAssumption
  <1>2. NoTable[c] = -1 /\ Broken[c] = -2
    BY DEF NoTable, Broken
  <1>3. \A t \in Tables : t[c] >= 0
    BY DEF Tables
  <1> QED BY <1>2, <1>3

\* An entry that is there names a chunk and a value.
LEMMA EntryIs ==
  ASSUME NEW e \in Entries, NEW n \in Sequences
  PROVE  /\ e[n] # NoEntry => e[n] = <<e[n][1], e[n][2]>> /\ e[n][1] \in Coords /\ e[n][2] \in 1..LastValue
         /\ \A c \in Coords, v \in 1..LastValue : <<c, v>> # NoEntry
  <1>1. e[n] \in {NoEntry} \cup (Coords \X (1..LastValue))
    BY DEF Entries
  <1>2. \A c \in Coords, v \in 1..LastValue : <<c, v>> # NoEntry
    BY DEF NoEntry
  <1> QED BY <1>1, <1>2

LEMMA EmptyIsEntries == NoEntries \in Entries /\ Present(NoEntries) = {} /\ \A n \in Sequences : NoEntries[n] = NoEntry
  BY DEF NoEntries, Entries, Present

\* latest_chunk_delta_journal_entries finds the highest number, and 0 only if there is none.
LEMMA LatestIs ==
  ASSUME NEW c, NEW e
  PROVE  /\ Latest(c, e) \in EntriesOf(c, e) \cup {0}
         /\ Latest(c, e) \in 0..LastSequence
         /\ \A n \in EntriesOf(c, e) : n <= Latest(c, e)
         /\ Latest(c, e) = 0 <=> EntriesOf(c, e) = {}
  <1> DEFINE S == EntriesOf(c, e) \cup {0}
  <1>1. S \subseteq 0..LastSequence /\ S \subseteq Int /\ S # {} /\ LastSequence \in Nat
    BY BoundsAssumption DEF EntriesOf, Sequences
  <1>2. IsFiniteSet(S)
    BY <1>1, NumbersAreFinite
  <1>3. Max(S) \in S /\ \A y \in S : y <= Max(S)
    BY <1>1, <1>2, MaxOfFinite
  <1>4. \A n \in EntriesOf(c, e) : n >= 1
    BY DEF EntriesOf, Sequences
  <1>5. Latest(c, e) = Max(S)
    BY DEF Latest
  <1> QED BY <1>1, <1>3, <1>4, <1>5

LEMMA EntriesOfIs ==
  ASSUME NEW e \in Entries, NEW c, NEW n \in EntriesOf(c, e)
  PROVE  n \in Sequences /\ n \in Present(e) /\ e[n][1] = c /\ e[n][2] \in 1..LastValue
  BY EntryIs DEF EntriesOf, Present

\* The overlaid table is a table.
LEMMA OverlayIsTable ==
  ASSUME NEW t \in Tables, NEW e \in Entries
  PROVE  Overlay(t, e) \in Tables
  <1> SUFFICES ASSUME NEW c \in Coords PROVE Overlay(t, e)[c] \in 0..LastValue
    BY DEF Overlay, Tables
  <1>1. Overlay(t, e)[c] = IF Latest(c, e) = 0 THEN t[c] ELSE e[Latest(c, e)][2]
    BY DEF Overlay
  <1>2. t[c] \in 0..LastValue
    BY DEF Tables
  <1>3. ASSUME Latest(c, e) # 0 PROVE e[Latest(c, e)][2] \in 0..LastValue
    <2>1. Latest(c, e) \in EntriesOf(c, e)
      BY <1>3, LatestIs
    <2>2. e[Latest(c, e)][2] \in 1..LastValue
      BY <2>1, EntriesOfIs
    <2> QED BY <2>2
  <1> QED BY <1>1, <1>2, <1>3

\* What a chunk shows depends on the chunk's own entries.
LEMMA OverlayAt ==
  ASSUME NEW t, NEW c \in Coords, NEW e
  PROVE  EntriesOf(c, e) = {} => Overlay(t, e)[c] = t[c]
  <1>1. Overlay(t, e)[c] = IF Latest(c, e) = 0 THEN t[c] ELSE e[Latest(c, e)][2]
    BY DEF Overlay
  <1> QED BY <1>1, LatestIs

LEMMA OverlayAtLatest ==
  ASSUME NEW t, NEW c \in Coords, NEW e, EntriesOf(c, e) # {}
  PROVE  Latest(c, e) \in EntriesOf(c, e) /\ Overlay(t, e)[c] = e[Latest(c, e)][2]
  <1>1. Overlay(t, e)[c] = IF Latest(c, e) = 0 THEN t[c] ELSE e[Latest(c, e)][2]
    BY DEF Overlay
  <1>2. Latest(c, e) # 0 /\ Latest(c, e) \in EntriesOf(c, e) \cup {0}
    BY LatestIs
  <1> QED BY <1>1, <1>2

LEMMA TablesEqual ==
  ASSUME NEW s, NEW t, s = [c \in Coords |-> s[c]], t = [c \in Coords |-> t[c]],
         \A c \in Coords : s[c] = t[c]
  PROVE  s = t
  OBVIOUS

LEMMA OverlayIsFunction ==
  ASSUME NEW t, NEW e
  PROVE  Overlay(t, e) = [c \in Coords |-> Overlay(t, e)[c]]
  BY DEF Overlay

\* Without entries the table shows.
LEMMA OverlayOfNothing ==
  ASSUME NEW t \in Tables
  PROVE  Overlay(t, NoEntries) = t
  <1>1. \A c \in Coords : EntriesOf(c, NoEntries) = {}
    BY DEF EntriesOf, NoEntries
  <1>2. \A c \in Coords : Overlay(t, NoEntries)[c] = t[c]
    BY <1>1, OverlayAt
  <1>3. t = [c \in Coords |-> t[c]]
    BY DEF Tables
  <1> HIDE DEF Overlay
  <1>4. Overlay(t, NoEntries) = [c \in Coords |-> Overlay(t, NoEntries)[c]]
    BY OverlayIsFunction
  <1> QED BY <1>2, <1>3, <1>4

\* A checkpoint that is read together with the journal it was made of shows the same.
LEMMA OverlayTwice ==
  ASSUME NEW t, NEW e
  PROVE  Overlay(Overlay(t, e), e) = Overlay(t, e)
  <1>1. ASSUME NEW c \in Coords PROVE Overlay(Overlay(t, e), e)[c] = Overlay(t, e)[c]
    <2>1. EntriesOf(c, e) = {} => Overlay(Overlay(t, e), e)[c] = Overlay(t, e)[c]
      BY OverlayAt, OverlayAtLatest
    <2>2. EntriesOf(c, e) # {} => Overlay(Overlay(t, e), e)[c] = e[Latest(c, e)][2]
      BY OverlayAt, OverlayAtLatest
    <2>3. EntriesOf(c, e) # {} => Overlay(t, e)[c] = e[Latest(c, e)][2]
      BY OverlayAt, OverlayAtLatest
    <2> QED BY <2>1, <2>2, <2>3
  <1>2. Overlay(Overlay(t, e), e) = [c \in Coords |-> Overlay(Overlay(t, e), e)[c]]
    BY OverlayIsFunction
  <1>3. Overlay(t, e) = [c \in Coords |-> Overlay(t, e)[c]]
    BY OverlayIsFunction
  <1> QED BY <1>1, <1>2, <1>3

\* An entry above all others changes its own chunk and no other.
LEMMA OverlayAbove ==
  ASSUME NEW t \in Tables, NEW e \in Entries, NEW n \in Sequences, NEW k \in Coords,
         NEW v \in 1..LastValue, \A m \in Present(e) : m < n
  PROVE  /\ [e EXCEPT ![n] = <<k, v>>] \in Entries
         /\ Overlay(t, [e EXCEPT ![n] = <<k, v>>]) = [Overlay(t, e) EXCEPT ![k] = v]
  <1> DEFINE f == [e EXCEPT ![n] = <<k, v>>]
             s == Overlay(t, e)
  <1>1. /\ f \in Entries /\ f[n] = <<k, v>> /\ \A m \in Sequences : m # n => f[m] = e[m]
        /\ n \in Int
    BY DEF Entries, Sequences
  <1> HIDE DEF f
  <1>2. ASSUME NEW c \in Coords, c # k PROVE Overlay(t, f)[c] = s[c]
    <2>1. n \notin EntriesOf(c, f)
      BY <1>1, <1>2 DEF EntriesOf
    <2>2. n \notin Present(e)
      BY <1>1
    <2>3. n \notin EntriesOf(c, e)
      BY <2>2 DEF EntriesOf, Present
    <2>4. EntriesOf(c, f) = EntriesOf(c, e)
      BY <1>1, <2>1, <2>3 DEF EntriesOf
    <2>5. Latest(c, f) = Latest(c, e)
      BY <2>4 DEF Latest
    <2>6. EntriesOf(c, e) # {} => Latest(c, e) \in EntriesOf(c, e)
      BY OverlayAt, OverlayAtLatest
    <2>7. EntriesOf(c, e) # {} => f[Latest(c, f)] = e[Latest(c, e)]
      BY <1>1, <2>3, <2>5, <2>6, EntriesOfIs
    <2>8. EntriesOf(c, e) # {} => Overlay(t, f)[c] = f[Latest(c, f)][2]
      BY <2>4, OverlayAt, OverlayAtLatest
    <2>9. EntriesOf(c, e) # {} => s[c] = e[Latest(c, e)][2]
      BY OverlayAt, OverlayAtLatest
    <2>10. EntriesOf(c, e) = {} => Overlay(t, f)[c] = t[c] /\ s[c] = t[c]
      BY <2>4, OverlayAt, OverlayAtLatest
    <2> QED BY <2>7, <2>8, <2>9, <2>10
  <1>3. Overlay(t, f)[k] = v
    <2>1. n \in EntriesOf(k, f)
      BY <1>1, EntryIs DEF EntriesOf
    <2>2. Latest(k, f) \in EntriesOf(k, f) /\ Overlay(t, f)[k] = f[Latest(k, f)][2]
      BY <2>1, OverlayAt, OverlayAtLatest
    <2>3. n <= Latest(k, f)
      BY <2>1, LatestIs
    <2>4. ASSUME Latest(k, f) # n PROVE FALSE
      <3>1. Latest(k, f) \in Present(e)
        BY <1>1, <2>2, <2>4 DEF EntriesOf, Present
      <3>2. Latest(k, f) < n /\ Latest(k, f) \in Int
        BY <3>1 DEF Present, Sequences
      <3> QED BY <1>1, <2>3, <3>2
    <2> QED BY <1>1, <2>2, <2>4
  <1>4. s \in Tables
    BY OverlayIsTable
  <1> HIDE DEF s
  <1>5. [s EXCEPT ![k] = v] = [c \in Coords |-> IF c = k THEN v ELSE s[c]]
    BY <1>4 DEF Tables
  <1>6. Overlay(t, f) = [c \in Coords |-> Overlay(t, f)[c]]
    BY OverlayIsFunction
  <1>7. Overlay(t, f) = [s EXCEPT ![k] = v]
    BY <1>2, <1>3, <1>5, <1>6
  <1> QED BY <1>1, <1>7 DEF f, s

--------------------------------------------------------------------------------
(* What a crash leaves of one journal directory *)

Directories == [live : Entries, stable : Entries]
Chosen(d) == {[n \in Sequences |-> IF n \in kept THEN d.live[n] ELSE d.stable[n]] :
                kept \in SUBSET {n \in Sequences : d.live[n] # d.stable[n]}}
Agrees(d) == \A n \in Sequences : d.stable[n] # NoEntry => d.live[n] = d.stable[n]

\* Each name is as seen or as flushed.
LEMMA ChosenIs ==
  ASSUME NEW d \in Directories, NEW e
  PROVE  e \in Chosen(d) <=> e \in Entries /\ \A n \in Sequences : e[n] \in {d.live[n], d.stable[n]}
  <1>1. d.live \in Entries /\ d.stable \in Entries
    BY DEF Directories
  <1> DEFINE differ == {n \in Sequences : d.live[n] # d.stable[n]}
             of(kept) == [n \in Sequences |-> IF n \in kept THEN d.live[n] ELSE d.stable[n]]
  <1>2. ASSUME NEW kept \in SUBSET differ
        PROVE  of(kept) \in Entries /\ \A n \in Sequences : of(kept)[n] \in {d.live[n], d.stable[n]}
    BY <1>1 DEF Entries
  <1>3. ASSUME e \in Entries, \A n \in Sequences : e[n] \in {d.live[n], d.stable[n]}
        PROVE  \E kept \in SUBSET differ : e = of(kept)
    <2> DEFINE kept == {n \in differ : e[n] = d.live[n]}
    <2>1. \A n \in Sequences : e[n] = of(kept)[n]
      BY <1>3
    <2>2. e = [n \in Sequences |-> e[n]]
      BY <1>3 DEF Entries
    <2>3. e = of(kept)
      BY <2>1, <2>2
    <2> QED BY <2>3
  <1> QED BY <1>2, <1>3 DEF Chosen

LEMMA LiveIsChosen ==
  ASSUME NEW d \in Directories
  PROVE  d.live \in Chosen(d)
  <1>1. d.live \in Entries
    BY DEF Directories
  <1> QED BY <1>1, ChosenIs

LEMMA ChosenIsLive ==
  ASSUME NEW d \in Directories, NEW e \in Chosen(d), d.live = d.stable
  PROVE  e = d.live
  <1>1. e \in Entries /\ \A n \in Sequences : e[n] = d.live[n]
    BY ChosenIs
  <1>2. d.live \in Entries
    BY DEF Directories
  <1> QED BY <1>1, <1>2 DEF Entries

\* No entry reappears that is not seen.
LEMMA ChosenIsSeen ==
  ASSUME NEW d \in Directories, Agrees(d), NEW e \in Chosen(d), NEW n \in Sequences,
         e[n] # NoEntry
  PROVE  e[n] = d.live[n]
  BY ChosenIs DEF Agrees

LEMMA ChosenOfNothing ==
  ASSUME NEW d \in Directories, Agrees(d), d.live = NoEntries, NEW e \in Chosen(d)
  PROVE  e = NoEntries
  <1>1. \A n \in Sequences : e[n] = NoEntry
    BY ChosenIsSeen, EmptyIsEntries
  <1>2. e \in Entries
    BY ChosenIs
  <1> QED BY <1>1, <1>2 DEF Entries, NoEntries

\* Once one more entry is seen, a crash leaves what it could leave before, with or without it.
LEMMA ChosenAfterRename ==
  ASSUME NEW d \in Directories, NEW n \in Sequences, d.live[n] = NoEntry, Agrees(d),
         NEW x \in Coords \X (1..LastValue), NEW f \in Directories,
         f.live = [d.live EXCEPT ![n] = x], f.stable = d.stable,
         NEW e \in Chosen(f)
  PROVE  /\ e \notin Chosen(d) => \E g \in Chosen(d) : e = [g EXCEPT ![n] = x]
         /\ Agrees(f)
  <1>1. e \in Entries /\ \A m \in Sequences : e[m] \in {f.live[m], f.stable[m]}
    BY ChosenIs
  <1>2. d.live \in Entries /\ d.stable \in Entries
    BY DEF Directories
  <1>3. d.stable[n] = NoEntry
    BY DEF Agrees
  <1>4. f.live[n] = x /\ \A m \in Sequences : m # n => f.live[m] = d.live[m]
    BY <1>2 DEF Entries
  <1>5. CASE e[n] = NoEntry
    <2>1. \A m \in Sequences : e[m] \in {d.live[m], d.stable[m]}
      BY <1>1, <1>4, <1>5
    <2>2. e \in Chosen(d)
      BY <1>1, <2>1, ChosenIs
    <2> QED BY <2>2, <1>3, <1>4 DEF Agrees
  <1>6. CASE e[n] # NoEntry
    <2> DEFINE g == [e EXCEPT ![n] = NoEntry]
    <2>1. g \in Entries /\ g[n] = NoEntry /\ \A m \in Sequences : m # n => g[m] = e[m]
      BY <1>1 DEF Entries
    <2>2. e[n] = x
      BY <1>1, <1>3, <1>4, <1>6
    <2>3. e = [g EXCEPT ![n] = x]
      BY <1>1, <2>2 DEF Entries
    <2> HIDE DEF g
    <2>4. \A m \in Sequences : g[m] \in {d.live[m], d.stable[m]}
      BY <1>1, <1>4, <2>1
    <2>5. g \in Chosen(d)
      BY <2>1, <2>4, ChosenIs
    <2> QED BY <2>3, <2>5, <1>3, <1>4 DEF Agrees
  <1> QED BY <1>5, <1>6

\* The checkpoint was made from the journal as it is seen.  Read with what a crash leaves
\* of the journal, it shows a table that the crash could also have left without it.
LEMMA CheckpointIsForeseen ==
  ASSUME NEW d \in Directories, Agrees(d), NEW t \in Tables, NEW e \in Chosen(d)
  PROVE  \E g \in Chosen(d) : Overlay(Overlay(t, d.live), e) = Overlay(t, g)
  <1>1. d.live \in Entries /\ d.stable \in Entries /\ e \in Entries
    BY ChosenIs DEF Directories
  <1> DEFINE bare == {n \in Sequences : d.live[n] # NoEntry /\ EntriesOf(d.live[n][1], e) = {}}
             g == [n \in Sequences |-> IF n \in bare THEN d.live[n] ELSE e[n]]
  <1>2. \A n \in Sequences : g[n] = IF n \in bare THEN d.live[n] ELSE e[n]
    OBVIOUS
  <1>3. g \in Entries
    BY <1>1 DEF Entries
  <1> HIDE DEF g
  <1>4. \A n \in Sequences : e[n] \in {d.live[n], d.stable[n]}
    BY ChosenIs
  <1>5. g \in Chosen(d)
    BY <1>2, <1>3, <1>4, ChosenIs
  <1>6. ASSUME NEW c \in Coords
        PROVE  Overlay(Overlay(t, d.live), e)[c] = Overlay(t, g)[c]
    <2>1. CASE EntriesOf(c, e) = {}
      <3>1. \A n \in Sequences : d.live[n] # NoEntry /\ d.live[n][1] = c => n \in bare
        BY <2>1
      <3>2. \A n \in Sequences : g[n] # NoEntry /\ g[n][1] = c => n \in bare
        BY <1>2, <2>1 DEF EntriesOf
      <3>3. \A n \in bare : g[n] = d.live[n]
        BY <1>2
      <3>4. EntriesOf(c, g) = EntriesOf(c, d.live)
        BY <3>1, <3>2, <3>3 DEF EntriesOf
      <3>5. Latest(c, g) = Latest(c, d.live)
        BY <3>4 DEF Latest
      <3>6. Overlay(Overlay(t, d.live), e)[c] = Overlay(t, d.live)[c]
        BY <2>1, OverlayAt
      <3>7. CASE EntriesOf(c, g) = {}
        <4>1. Overlay(t, g)[c] = t[c]
          BY <3>7, OverlayAt
        <4>2. EntriesOf(c, d.live) = {}
          BY <3>4, <3>7
        <4>3. Overlay(t, d.live)[c] = t[c]
          BY <4>2, OverlayAt
        <4> QED BY <3>6, <4>1, <4>3
      <3>8. CASE EntriesOf(c, g) # {}
        <4>1. Latest(c, g) \in EntriesOf(c, g) /\ Overlay(t, g)[c] = g[Latest(c, g)][2]
          BY <3>8, OverlayAtLatest
        <4>2. EntriesOf(c, d.live) # {}
          BY <3>4, <3>8
        <4>3. Overlay(t, d.live)[c] = d.live[Latest(c, d.live)][2]
          BY <4>2, OverlayAtLatest
        <4>4. g[Latest(c, g)] = d.live[Latest(c, g)]
          BY <3>2, <3>3, <4>1 DEF EntriesOf
        <4> QED BY <3>5, <3>6, <4>1, <4>3, <4>4
      <3> QED BY <3>7, <3>8
    <2>2. CASE EntriesOf(c, e) # {}
      <3>1. \A n \in Sequences : e[n] # NoEntry => e[n] = d.live[n]
        BY ChosenIsSeen
      <3>2. \A n \in EntriesOf(c, e) : n \notin bare
        BY <2>2, <3>1 DEF EntriesOf
      <3>3. \A n \in Sequences : g[n] # NoEntry /\ g[n][1] = c => n \notin bare
        BY <1>2, <2>2
      <3>4. EntriesOf(c, g) = EntriesOf(c, e)
        BY <1>2, <3>2, <3>3 DEF EntriesOf
      <3>5. Latest(c, g) = Latest(c, e)
        BY <3>4 DEF Latest
      <3>6. Latest(c, e) \in EntriesOf(c, e)
        BY <2>2, OverlayAtLatest
      <3>7. Overlay(Overlay(t, d.live), e)[c] = e[Latest(c, e)][2]
        BY <2>2, OverlayAtLatest
      <3>8. EntriesOf(c, g) # {}
        BY <2>2, <3>4
      <3>9. Overlay(t, g)[c] = g[Latest(c, g)][2]
        BY <3>8, OverlayAtLatest
      <3>10. g[Latest(c, e)] = e[Latest(c, e)]
        BY <1>2, <3>2, <3>6 DEF EntriesOf
      <3> QED BY <3>5, <3>7, <3>9, <3>10
    <2> QED BY <2>1, <2>2
  <1>7. Overlay(Overlay(t, d.live), e) = [c \in Coords |-> Overlay(Overlay(t, d.live), e)[c]]
    BY OverlayIsFunction
  <1>8. Overlay(t, g) = [c \in Coords |-> Overlay(t, g)[c]]
    BY OverlayIsFunction
  <1>9. Overlay(Overlay(t, d.live), e) = Overlay(t, g)
    BY <1>6, <1>7, <1>8
  <1> QED BY <1>5, <1>9

--------------------------------------------------------------------------------
(* What is read in a namespace *)

LEMMA BaseIs ==
  ASSUME NEW r \in Roots
  PROVE  /\ Base(r) \in Tables
         /\ r.base # NoTable => Base(r) = r.base /\ r.base \in Tables
         /\ r.base = NoTable /\ r.backup # NoTable => Base(r) = r.backup /\ r.backup \in Tables
  <1>1. [c \in Coords |-> 0] \in Tables
    BY BoundsAssumption DEF Tables
  <1>2. r.base \in Tables \cup {NoTable} /\ r.backup \in Tables \cup {NoTable, Broken}
    BY DEF Roots
  <1>3. r.base # NoTable \/ r.backup # Broken
    BY DEF Roots
  <1> QED BY <1>1, <1>2, <1>3 DEF Base

LEMMA LiveIs ==
  ASSUME Typed
  PROVE  /\ root \in Roots /\ LiveEntries \in Entries
         /\ Base(root) \in Tables /\ Merged \in Tables
         /\ \A i \in Journals : files[i] \in Directories
         /\ root.journal # 0 => root.journal \in Journals /\ LiveEntries = files[root.journal].live
         /\ root.journal = 0 => LiveEntries = NoEntries
  <1>1. root \in Roots
    BY DEF Typed
  <1>2. root.journal \in 0..LastJournal
    BY <1>1 DEF Roots
  <1>3. root.journal # 0 => root.journal \in Journals
    BY <1>2, BoundsAssumption DEF Journals
  <1>4. \A i \in Journals : files[i] \in Directories
    BY DEF Typed, Directories
  <1>5. LiveEntries \in Entries
    <2>1. CASE root.journal = 0
      BY <2>1, EmptyIsEntries DEF LiveEntries
    <2>2. CASE root.journal # 0
      BY <2>2, <1>3, <1>4 DEF LiveEntries, Directories
    <2> QED BY <2>1, <2>2
  <1>6. Base(root) \in Tables
    BY <1>1, BaseIs
  <1>7. Merged \in Tables
    BY <1>5, <1>6, OverlayIsTable DEF Merged
  <1> QED BY <1>1, <1>3, <1>4, <1>5, <1>6, <1>7 DEF LiveEntries

LEMMA SettledIs ==
  ASSUME NEW i
  PROVE  Settled(i) = IF i = 0 THEN {NoEntries} ELSE Chosen(files[i])
  BY DEF Settled, Chosen

LEMMA SettledIsEntries ==
  ASSUME Typed, NEW i \in 0..LastJournal, NEW e \in Settled(i)
  PROVE  e \in Entries
  <1>1. CASE i = 0
    BY <1>1, SettledIs, EmptyIsEntries
  <1>2. CASE i # 0
    <2>1. i \in Journals
      BY <1>2, BoundsAssumption DEF Journals
    <2>2. files[i] \in Directories
      BY <2>1, LiveIs
    <2> QED BY <1>2, <2>2, SettledIs, ChosenIs
  <1> QED BY <1>1, <1>2

--------------------------------------------------------------------------------
(* Typing is kept *)

Locals == [writer : Writers \cup {NoOne}, coord : Coords \cup {NoOne},
           table : Tables \cup {NoTable}, next : Tables \cup {NoTable}, bulk : BOOLEAN]

LEMMA NoLocalIs ==
  NoLocal \in Locals /\ NoLocal.table = NoTable /\ NoLocal.next = NoTable /\ NoLocal.bulk = FALSE
  BY DEF NoLocal, Locals

\* One rename keeps the namespaces well formed.
LEMMA Renamed ==
  ASSUME Typed, NEW names \in Roots, Rename(names)
  PROVE  root' \in roots' /\ roots' \subseteq Roots
  BY DEF Typed, Rename

LEMMA Flushed ==
  ASSUME Typed, FlushRoot
  PROVE  root' \in roots' /\ roots' \subseteq Roots /\ root' = root /\ roots' \subseteq roots
  BY DEF Typed, FlushRoot

LEMMA OpenWriterTyped ==
  ASSUME OperationInv, NEW w \in Writers, OpenWriter(w)
  PROVE  Typed'
  <1> DEFINE last == Max(Present(LiveEntries) \cup {0})
             opened == [open |-> TRUE, generation |-> generation, highest |-> last]
  <1>1. Present(LiveEntries) \cup {0} \subseteq 0..LastSequence /\ LastSequence \in Nat
    BY BoundsAssumption DEF Present, Sequences
  <1>2. IsFiniteSet(Present(LiveEntries) \cup {0})
    BY <1>1, NumbersAreFinite
  <1>3. Present(LiveEntries) \cup {0} \subseteq Int
    BY <1>1
  <1>4. last \in 0..LastSequence
    BY <1>1, <1>2, <1>3, MaxOfFinite
  <1>5. generation \in 0..LastGeneration
    BY DEF OperationInv, Typed
  <1> HIDE DEF last
  <1>6. opened \in [open : BOOLEAN, generation : 0..LastGeneration, highest : 0..LastSequence]
    BY <1>4, <1>5
  <1>7. writers' = [writers EXCEPT ![w] = opened]
    BY DEF OpenWriter, last
  <1> HIDE DEF opened
  <1>8. writers' \in [Writers -> [open : BOOLEAN, generation : 0..LastGeneration,
                                  highest : 0..LastSequence]]
    BY <1>6, <1>7 DEF OperationInv, Typed
  <1> QED BY <1>8 DEF OperationInv, Typed, OpenWriter, Snapshots, History

LEMMA CloseWriterTyped ==
  ASSUME OperationInv, NEW w \in Writers, CloseWriter(w)
  PROVE  Typed'
  <1>1. Closed \in [open : BOOLEAN, generation : 0..LastGeneration, highest : 0..LastSequence]
    BY BoundsAssumption DEF Closed
  <1>2. writers' \in [Writers -> [open : BOOLEAN, generation : 0..LastGeneration,
                                  highest : 0..LastSequence]]
    BY <1>1 DEF OperationInv, Typed, CloseWriter
  <1> QED BY <1>2 DEF OperationInv, Typed, CloseWriter, Snapshots, History

LEMMA OpenReaderTyped ==
  ASSUME OperationInv, NEW r \in Readers, OpenReader(r)
  PROVE  Typed' /\ Current \in Tables
  <1> DEFINE sources == [c \in Coords |-> Latest(c, LiveEntries)]
             view == Current
             opened == [open |-> TRUE, generation |-> generation, inline |-> pending # NoTable,
                        view |-> view, source |-> sources]
             Pin == [open : BOOLEAN, generation : 0..LastGeneration, inline : BOOLEAN,
                     view : Tables \cup {NoTable}, source : [Coords -> 0..LastSequence]]
  <1>1. sources \in [Coords -> 0..LastSequence]
    BY LatestIs
  <1>2. generation \in 0..LastGeneration /\ pending \in Tables \cup {NoTable}
    BY DEF OperationInv, Typed
  <1>3. Merged \in Tables
    BY LiveIs DEF OperationInv
  <1>4. view \in Tables
    BY <1>2, <1>3 DEF Current
  <1>5. pinned' = [pinned EXCEPT ![r] = opened]
    BY DEF OpenReader
  <1> HIDE DEF sources, view
  <1>6. opened \in Pin
    BY <1>1, <1>2, <1>4
  <1> HIDE DEF opened
  <1>7. pinned' \in [Readers -> Pin]
    BY <1>5, <1>6 DEF OperationInv, Typed
  <1>8. Typed'
    BY <1>7 DEF OperationInv, Typed, OpenReader, Snapshots, History
  <1> QED BY <1>4, <1>8 DEF view

LEMMA UnpinnedIs ==
  Unpinned \in [open : BOOLEAN, generation : 0..LastGeneration, inline : BOOLEAN,
                view : Tables \cup {NoTable}, source : [Coords -> 0..LastSequence]]
  <1>1. [c \in Coords |-> 0] \in [Coords -> 0..LastSequence] /\ 0 \in 0..LastGeneration
    BY BoundsAssumption
  <1> QED BY <1>1 DEF Unpinned

LEMMA CloseReaderTyped ==
  ASSUME OperationInv, NEW r \in Readers, CloseReader(r)
  PROVE  Typed'
  <1>1. pinned' \in [Readers -> [open : BOOLEAN, generation : 0..LastGeneration, inline : BOOLEAN,
                view : Tables \cup {NoTable}, source : [Coords -> 0..LastSequence]]]
    BY UnpinnedIs DEF OperationInv, Typed, CloseReader
  <1> QED BY <1>1 DEF OperationInv, Typed, CloseReader, Snapshots, History

\* The directory of a new journal is none that a crash could bring back.
LEMMA UnusedIs ==
  ASSUME Unused # {}
  PROVE  /\ Min(Unused) \in Journals /\ Min(Unused) # 0
         /\ \A r \in roots : r.journal # Min(Unused) /\ r.compacted # Min(Unused)
  <1>1. Unused \subseteq Journals /\ Unused \subseteq Int /\ Unused \subseteq 0..LastJournal
        /\ LastJournal \in Nat
    BY BoundsAssumption DEF Unused, Journals
  <1>2. Min(Unused) \in Unused
    BY <1>1, NumbersAreFinite, MinOfFinite
  <1> QED BY <1>1, <1>2 DEF Unused, Journals

LEMMA NewestIs ==
  ASSUME Typed, NEW s, s \subseteq Coords
  PROVE  written < LastValue =>
           [c \in Coords |-> IF c \in s THEN written + 1 ELSE 0] \in Tables \ {NoTable}
  <1> SUFFICES ASSUME written < LastValue
               PROVE  [c \in Coords |-> IF c \in s THEN written + 1 ELSE 0] \in Tables \ {NoTable}
    OBVIOUS
  <1>1. written + 1 \in 0..LastValue /\ 0 \in 0..LastValue
    BY BoundsAssumption DEF Typed
  <1>2. [c \in Coords |-> IF c \in s THEN written + 1 ELSE 0] \in Tables
    BY <1>1 DEF Tables
  <1> QED BY <1>2, KindsDiffer

LEMMA AttemptedIs ==
  ASSUME Typed, NEW c \in Coords, written < LastValue
  PROVE  {[t EXCEPT ![c] = written + 1] : t \in possible} \subseteq Tables
  <1>1. written + 1 \in 0..LastValue /\ possible \subseteq Tables
    BY BoundsAssumption DEF Typed
  <1> QED BY <1>1 DEF Tables

LEMMA BeginWriteTyped ==
  ASSUME OperationInv, NEW w \in Writers, NEW c \in Coords, BeginWrite(w, c)
  PROVE  Typed'
  <1> DEFINE dir == [live |-> NoEntries, stable |-> NoEntries]
             names == [root EXCEPT !.journal = Min(Unused)]
  <1>1. written < LastValue /\ written' = written + 1 /\ written' \in 0..LastValue
    BY BoundsAssumption DEF OperationInv, Typed, BeginWrite
  <1>2. possible' \subseteq Tables
    BY <1>1, AttemptedIs DEF OperationInv, Typed, BeginWrite
  <1>3. local' \in Locals
    BY NoLocalIs DEF BeginWrite, Locals
  <1>4. pc' \in Labels
    BY DEF BeginWrite, Goto, Labels
  <1>5. root' \in roots' /\ roots' \subseteq Roots
        /\ files' \in [Journals -> [live : Entries, stable : Entries]]
    <2>1. CASE root.journal # 0
      BY <2>1 DEF OperationInv, Typed, BeginWrite
    <2>2. CASE root.journal = 0
      <3>1. Unused # {} /\ Rename(names) /\ files' = [files EXCEPT ![Min(Unused)] = dir]
        BY <2>2 DEF BeginWrite
      <3>2. Min(Unused) \in Journals
            /\ \A r \in roots : r.journal # Min(Unused) /\ r.compacted # Min(Unused)
        BY <3>1, UnusedIs
      <3>3. root \in Roots /\ root \in roots
        BY DEF OperationInv, Typed
      <3>4. Min(Unused) \in 0..LastJournal
        BY <3>2, BoundsAssumption DEF Journals
      <3>5. names \in Roots
        BY <3>2, <3>3, <3>4 DEF Roots
      <3> HIDE DEF names
      <3>6. dir \in [live : Entries, stable : Entries]
        BY EmptyIsEntries
      <3> HIDE DEF dir
      <3>7. files' \in [Journals -> [live : Entries, stable : Entries]]
        BY <3>1, <3>6 DEF OperationInv, Typed
      <3> QED BY <3>1, <3>5, <3>7, Renamed DEF OperationInv
    <2> QED BY <2>1, <2>2
  <1> QED BY <1>1, <1>2, <1>3, <1>4, <1>5 DEF OperationInv, Typed, BeginWrite, Snapshots, Leases, Locals

LEMMA FlushCreatedTyped ==
  ASSUME OperationInv, FlushCreated
  PROVE  Typed'
  <1>1. root' \in roots' /\ roots' \subseteq Roots
    BY Flushed DEF OperationInv, FlushCreated
  <1>2. pc' \in Labels
    BY DEF FlushCreated, Goto, Labels
  <1> QED BY <1>1, <1>2 DEF OperationInv, Typed, FlushCreated, Snapshots, Leases, History

\* The number of the next entry, and the entry.
LEMMA PenIs ==
  ASSUME Typed, Penned, pc \in Writing
  PROVE  /\ local.writer \in Writers /\ root.journal \in Journals
         /\ LiveEntries = files[root.journal].live
         /\ Pen.highest + 1 \in Sequences /\ Pen.highest \in Nat
         /\ <<local.coord, written>> \in Coords \X (1..LastValue)
         /\ Pen = writers[local.writer]
  <1>1. local.writer \in Writers /\ local.coord \in Coords /\ written \in 1..LastValue
        /\ Pen.highest < LastSequence /\ root.journal # 0
    BY DEF Penned
  <1>2. Pen.highest \in 0..LastSequence
    BY <1>1 DEF Typed, Pen
  <1>3. Pen.highest + 1 \in Sequences /\ Pen.highest \in Nat
    BY <1>1, <1>2, BoundsAssumption DEF Sequences
  <1> QED BY <1>1, <1>3, LiveIs DEF Pen

\* What RenameEntry does to the directory.
LEMMA EntryRenamed ==
  ASSUME Typed, Penned, RenameEntry
  PROVE  /\ files' \in [Journals -> Directories]
         /\ \A i \in Journals : i # root.journal => files'[i] = files[i]
         /\ files'[root.journal].stable = files[root.journal].stable
         /\ files'[root.journal].live =
              [LiveEntries EXCEPT ![Pen.highest + 1] = <<local.coord, written>>]
         /\ LiveEntries' = files'[root.journal].live
  <1>1. local.writer \in Writers /\ root.journal \in Journals /\ root.journal # 0
        /\ LiveEntries = files[root.journal].live
        /\ Pen.highest + 1 \in Sequences /\ <<local.coord, written>> \in Coords \X (1..LastValue)
    BY PenIs DEF RenameEntry, Writing, Penned
  <1> DEFINE n == Pen.highest + 1
             j == root.journal
             x == <<local.coord, written>>
             d == files[j]
  <1>2. d \in Directories /\ files \in [Journals -> Directories]
    BY <1>1, LiveIs DEF Typed, Directories
  <1>3. files' = [files EXCEPT ![j].live[n] = x]
    BY DEF RenameEntry, Pen
  <1>4. root' = root
    BY DEF RenameEntry
  <1>5. n \in Sequences /\ x \in Coords \X (1..LastValue) /\ j \in Journals
    BY <1>1
  <1> HIDE DEF n, x
  <1>6. [d.live EXCEPT ![n] = x] \in Entries
    BY <1>2, <1>5 DEF Directories, Entries
  <1>7. files' = [files EXCEPT ![j] = [d EXCEPT !.live = [d.live EXCEPT ![n] = x]]]
    BY <1>2, <1>3, <1>5
  <1>8. [d EXCEPT !.live = [d.live EXCEPT ![n] = x]] \in Directories
        /\ [d EXCEPT !.live = [d.live EXCEPT ![n] = x]].live = [d.live EXCEPT ![n] = x]
        /\ [d EXCEPT !.live = [d.live EXCEPT ![n] = x]].stable = d.stable
    BY <1>2, <1>6 DEF Directories
  <1>9. files' \in [Journals -> Directories]
    BY <1>2, <1>5, <1>7, <1>8
  <1>10. files'[j] = [d EXCEPT !.live = [d.live EXCEPT ![n] = x]]
         /\ \A i \in Journals : i # j => files'[i] = files[i]
    BY <1>2, <1>5, <1>7
  <1>11. LiveEntries' = files'[j].live
    BY <1>1, <1>4 DEF LiveEntries
  <1> QED BY <1>1, <1>8, <1>9, <1>10, <1>11 DEF n, x

LEMMA RenameEntryTyped ==
  ASSUME OperationInv, RenameEntry
  PROVE  Typed'
  <1>1. files' \in [Journals -> Directories]
    BY EntryRenamed DEF OperationInv
  <1>2. pc' \in Labels
    BY DEF RenameEntry, Goto, Labels
  <1> QED BY <1>1, <1>2 DEF OperationInv, Typed, RenameEntry, Snapshots, Leases, History, Directories

\* What FlushEntry does to the directory and to the writer's statistics.
LEMMA EntryFlushed ==
  ASSUME Typed, Penned, FlushEntry
  PROVE  /\ files' \in [Journals -> Directories]
         /\ \A i \in Journals : i # root.journal => files'[i] = files[i]
         /\ files'[root.journal].stable = files[root.journal].live
         /\ files'[root.journal].live = files[root.journal].live
         /\ LiveEntries' = LiveEntries
         /\ writers' \in [Writers -> [open : BOOLEAN, generation : 0..LastGeneration,
                                      highest : 0..LastSequence]]
         /\ \A w \in Writers : /\ writers'[w].open = writers[w].open
                               /\ writers'[w].generation = writers[w].generation
                               /\ w # local.writer => writers'[w].highest = writers[w].highest
         /\ writers'[local.writer].highest = Pen.highest + 1
  <1>1. local.writer \in Writers /\ root.journal \in Journals /\ root.journal # 0
        /\ LiveEntries = files[root.journal].live
        /\ Pen.highest + 1 \in Sequences /\ Pen = writers[local.writer]
    BY PenIs DEF FlushEntry, Writing, Penned
  <1> DEFINE j == root.journal
             d == files[j]
             p == writers[local.writer]
  <1>2. d \in Directories /\ files \in [Journals -> Directories]
    BY <1>1, LiveIs DEF Typed, Directories
  <1>3. files' = [files EXCEPT ![j].stable = d.live]
    BY DEF FlushEntry
  <1>4. files' = [files EXCEPT ![j] = [d EXCEPT !.stable = d.live]]
    BY <1>1, <1>2, <1>3
  <1>5. [d EXCEPT !.stable = d.live] \in Directories
        /\ [d EXCEPT !.stable = d.live].stable = d.live
        /\ [d EXCEPT !.stable = d.live].live = d.live
    BY <1>2 DEF Directories
  <1>6. files' \in [Journals -> Directories] /\ files'[j] = [d EXCEPT !.stable = d.live]
        /\ \A i \in Journals : i # j => files'[i] = files[i]
    BY <1>1, <1>2, <1>4, <1>5
  <1>7. LiveEntries' = LiveEntries
    BY <1>1, <1>5, <1>6 DEF LiveEntries, FlushEntry
  <1>8. writers' = [writers EXCEPT ![local.writer].highest = p.highest + 1]
    BY DEF FlushEntry
  <1>9. writers \in [Writers -> [open : BOOLEAN, generation : 0..LastGeneration,
                                 highest : 0..LastSequence]]
    BY DEF Typed
  <1>10. p.highest + 1 \in 0..LastSequence
    BY <1>1, BoundsAssumption DEF Sequences
  <1>11. writers' = [writers EXCEPT ![local.writer] = [p EXCEPT !.highest = p.highest + 1]]
    BY <1>1, <1>8, <1>9
  <1>12. [p EXCEPT !.highest = p.highest + 1] \in
           [open : BOOLEAN, generation : 0..LastGeneration, highest : 0..LastSequence]
    BY <1>1, <1>9, <1>10
  <1>13. writers' \in [Writers -> [open : BOOLEAN, generation : 0..LastGeneration,
                                   highest : 0..LastSequence]]
    BY <1>9, <1>11, <1>12
  <1>14. \A w \in Writers : /\ writers'[w].open = writers[w].open
                            /\ writers'[w].generation = writers[w].generation
                            /\ w # local.writer => writers'[w].highest = writers[w].highest
    BY <1>1, <1>9, <1>11
  <1>15. writers'[local.writer].highest = p.highest + 1
    BY <1>1, <1>9, <1>11
  <1> QED BY <1>1, <1>5, <1>6, <1>7, <1>13, <1>14, <1>15

LEMMA FlushEntryTyped ==
  ASSUME OperationInv, FlushEntry
  PROVE  Typed'
  <1>1. files' \in [Journals -> [live : Entries, stable : Entries]]
        /\ writers' \in [Writers -> [open : BOOLEAN, generation : 0..LastGeneration,
                                     highest : 0..LastSequence]]
    BY EntryFlushed DEF OperationInv, Directories
  <1>2. pc' \in Labels /\ local' \in Locals
    BY NoLocalIs DEF FlushEntry, Finish, Labels
  <1>3. possible' \subseteq Tables
    BY DEF FlushEntry, Acknowledged, OperationInv, Typed
  <1> QED BY <1>1, <1>2, <1>3 DEF OperationInv, Typed, FlushEntry, Snapshots, Locals

\* What removing a tree leaves of the journal directories.
LEMMA TreeEmptied ==
  ASSUME Typed, NEW i, EmptyTree(i)
  PROVE  /\ files' \in [Journals -> Directories]
         /\ \A k \in Journals : k # i => files'[k] = files[k]
  <1>1. files \in [Journals -> Directories]
    BY DEF Typed, Directories
  <1>2. CASE i \notin Journals
    <2>1. files' = files
      BY <1>1, <1>2 DEF EmptyTree
    <2> QED BY <1>1, <2>1
  <1>3. CASE i \in Journals
    <2> DEFINE d == [files[i] EXCEPT !.live = NoEntries]
    <2>1. d \in Directories
      BY <1>1, <1>3, EmptyIsEntries DEF Directories
    <2>2. files' = [files EXCEPT ![i] = d]
      BY <1>1, <1>3 DEF EmptyTree
    <2> HIDE DEF d
    <2> QED BY <1>1, <1>3, <2>1, <2>2
  <1> QED BY <1>2, <1>3

LEMMA BeginCompactionTyped ==
  ASSUME OperationInv, BeginCompaction
  PROVE  Typed'
  <1>1. Merged \in Tables
    BY LiveIs DEF OperationInv
  <1>2. local' \in Locals
    BY <1>1, NoLocalIs DEF BeginCompaction, Effective, Locals
  <1>3. pc' \in Labels
    BY DEF BeginCompaction, Goto, Labels
  <1> QED BY <1>2, <1>3 DEF OperationInv, Typed, BeginCompaction, Snapshots, Leases, History, Locals

\* The values BeginReplacement starts from.
LEMMA ReplacementBegun ==
  ASSUME Typed, NEW chunks \in SUBSET Coords, BeginReplacement(chunks)
  PROVE  \E table \in Tables \ {NoTable} :
           /\ possible' = possible \cup {table}
           /\ local' = IF Present(LiveEntries) = {}
                       THEN [NoLocal EXCEPT !.table = table, !.bulk = TRUE]
                       ELSE [NoLocal EXCEPT !.table = Merged, !.next = table]
  <1> DEFINE table == [c \in Coords |-> IF c \in chunks THEN written + 1 ELSE 0]
  <1>1. table \in Tables \ {NoTable}
    BY NewestIs DEF BeginReplacement
  <1>2. possible' = possible \cup {table}
    BY DEF BeginReplacement
  <1>3. local' = IF Present(LiveEntries) = {}
                 THEN [NoLocal EXCEPT !.table = table, !.bulk = TRUE]
                 ELSE [NoLocal EXCEPT !.table = Merged, !.next = table]
    BY DEF BeginReplacement, Effective
  <1> QED BY <1>1, <1>2, <1>3

LEMMA BeginReplacementTyped ==
  ASSUME OperationInv, NEW chunks \in SUBSET Coords, BeginReplacement(chunks)
  PROVE  Typed'
  <1>1. PICK table \in Tables \ {NoTable} :
           /\ possible' = possible \cup {table}
           /\ local' = IF Present(LiveEntries) = {}
                       THEN [NoLocal EXCEPT !.table = table, !.bulk = TRUE]
                       ELSE [NoLocal EXCEPT !.table = Merged, !.next = table]
    BY ReplacementBegun DEF OperationInv
  <1>2. Merged \in Tables
    BY LiveIs DEF OperationInv
  <1>3. local' \in Locals
    BY <1>1, <1>2, NoLocalIs DEF Locals
  <1>4. written' \in 0..LastValue
    BY BoundsAssumption DEF OperationInv, Typed, BeginReplacement
  <1>5. pc' \in Labels
    BY DEF BeginReplacement, Goto, Labels
  <1>6. possible' \subseteq Tables
    BY <1>1 DEF OperationInv, Typed
  <1> QED BY <1>3, <1>4, <1>5, <1>6 DEF OperationInv, Typed, BeginReplacement, Snapshots, Leases, Locals

LEMMA StageTableTyped ==
  ASSUME OperationInv, StageTable
  PROVE  Typed'
  <1>1. root' \in roots' /\ roots' \subseteq Roots
    BY Flushed DEF OperationInv, StageTable
  <1>2. pc' \in Labels
    BY DEF StageTable, Goto, Labels
  <1> QED BY <1>1, <1>2 DEF OperationInv, Typed, StageTable, Snapshots, Leases, History

LEMMA FlushingTyped ==
  ASSUME OperationInv, FlushRestored \/ FlushDisplaced \/ FlushPromoted \/ FlushRetired
  PROVE  Typed'
  <1>1. root' \in roots' /\ roots' \subseteq Roots
    BY Flushed DEF OperationInv, FlushRestored, FlushDisplaced, FlushPromoted, FlushRetired
  <1>2. pc' \in Labels
    BY DEF FlushRestored, FlushDisplaced, FlushPromoted, FlushRetired, Goto, Labels
  <1> QED BY <1>1, <1>2 DEF OperationInv, Typed, FlushRestored, FlushDisplaced, FlushPromoted,
                             FlushRetired, Snapshots, Leases, History

LEMMA RestoreBackupTyped ==
  ASSUME OperationInv, RestoreBackup
  PROVE  Typed' /\ root' \in Roots /\ Base(root') = Base(root) /\ root'.base # NoTable
  <1> DEFINE names == [root EXCEPT !.base = root.backup, !.backup = NoTable]
  <1>1. root \in Roots /\ root.base = NoTable /\ root.backup # NoTable
    BY DEF OperationInv, Typed, Placed, RestoreBackup
  <1>2. root.backup \in Tables
    BY <1>1, BaseIs
  <1>3. names \in Roots /\ names.base = root.backup
    BY <1>1, <1>2, KindsDiffer DEF Roots
  <1>4. Rename(names)
    BY DEF RestoreBackup
  <1>5. root' = names
    BY <1>4 DEF Rename
  <1>6. Base(root') = Base(root)
    BY <1>1, <1>3, <1>5 DEF Base
  <1> HIDE DEF names
  <1>7. root' \in roots' /\ roots' \subseteq Roots
    BY <1>3, <1>4, Renamed DEF OperationInv
  <1>8. pc' \in Labels
    BY DEF RestoreBackup, Goto, Labels
  <1>9. Typed'
    BY <1>7, <1>8 DEF OperationInv, Typed, RestoreBackup, Snapshots, Leases, History
  <1> QED BY <1>1, <1>3, <1>5, <1>6, <1>9

\* The base table is there while a backup is removed, so readers do not look at the backup.
LEMMA BackupDropped ==
  ASSUME Typed, roots = {root}, root.base # NoTable, NEW left \in {NoTable, Broken}, DropBackup(left)
  PROVE  /\ root' \in roots' /\ roots' \subseteq Roots
         /\ \A r \in roots' : /\ r.base = root.base /\ r.journal = root.journal
                              /\ r.compacted = root.compacted /\ Base(r) = Base(root)
         /\ root'.backup = left
  <1> DEFINE now == [root EXCEPT !.backup = left]
             torn == [root EXCEPT !.backup = Broken]
  <1>1. root \in Roots
    BY DEF Typed
  <1>2. now \in Roots /\ torn \in Roots
    BY <1>1 DEF Roots
  <1>3. /\ now.base = root.base /\ now.journal = root.journal /\ now.compacted = root.compacted
        /\ torn.base = root.base /\ torn.journal = root.journal /\ torn.compacted = root.compacted
        /\ now.backup = left
    BY <1>1 DEF Roots
  <1>4. root' = now /\ roots' \subseteq {root, now, torn} /\ root' \in roots'
    BY DEF DropBackup, RemovedBackups
  <1> HIDE DEF now, torn
  <1>5. \A r \in roots' : r.base = root.base /\ r.journal = root.journal /\ r.compacted = root.compacted
    BY <1>3, <1>4
  <1>6. \A r \in roots' : Base(r) = Base(root)
    BY <1>5 DEF Base
  <1> QED BY <1>1, <1>2, <1>3, <1>4, <1>5, <1>6

LEMMA RemoveOldBackupTyped ==
  ASSUME OperationInv, RemoveOldBackup
  PROVE  Typed'
  <1>1. roots = {root} /\ root.base # NoTable /\ DropBackup(NoTable)
    BY DEF OperationInv, Placed, RemoveOldBackup
  <1>2. root' \in roots' /\ roots' \subseteq Roots
    BY <1>1, BackupDropped DEF OperationInv
  <1>3. pc' \in Labels
    BY DEF RemoveOldBackup, Goto, Labels
  <1> QED BY <1>2, <1>3 DEF OperationInv, Typed, RemoveOldBackup, Snapshots, Leases, History

LEMMA DisplaceTableTyped ==
  ASSUME OperationInv, DisplaceTable
  PROVE  Typed' /\ root' \in Roots /\ Base(root') = Base(root)
  <1> DEFINE names == [root EXCEPT !.base = NoTable, !.backup = root.base]
  <1>1. root \in Roots /\ root.base # NoTable
    BY DEF OperationInv, Typed, Placed, DisplaceTable
  <1>2. root.base \in Tables
    BY <1>1, BaseIs
  <1>3. names \in Roots /\ names.base = NoTable /\ names.backup = root.base
    BY <1>1, <1>2, KindsDiffer DEF Roots
  <1>4. Rename(names)
    BY DEF DisplaceTable
  <1> HIDE DEF names
  <1>5. root' = names
    BY <1>4 DEF Rename
  <1>6. Base(root') = Base(root)
    BY <1>1, <1>3, <1>5 DEF Base
  <1>7. root' \in roots' /\ roots' \subseteq Roots
    BY <1>3, <1>4, Renamed DEF OperationInv
  <1>8. pc' \in Labels
    BY DEF DisplaceTable, Goto, Labels
  <1>9. Typed'
    BY <1>7, <1>8 DEF OperationInv, Typed, DisplaceTable, Snapshots, Leases, History
  <1> QED BY <1>3, <1>5, <1>6, <1>9

LEMMA PromoteTableTyped ==
  ASSUME OperationInv, PromoteTable
  PROVE  Typed' /\ root' \in Roots /\ local.table \in Tables /\ Base(root') = local.table
  <1> DEFINE names == [root EXCEPT !.base = local.table]
  <1>1. root \in Roots /\ local.table \in Tables
    BY DEF OperationInv, Typed, Placed, PromoteTable, Replacing
  <1>2. names \in Roots /\ names.base = local.table
    BY <1>1, KindsDiffer DEF Roots
  <1>3. Rename(names)
    BY DEF PromoteTable
  <1> HIDE DEF names
  <1>4. root' = names
    BY <1>3 DEF Rename
  <1>5. Base(root') = local.table
    BY <1>1, <1>2, <1>4, KindsDiffer DEF Base
  <1>6. root' \in roots' /\ roots' \subseteq Roots
    BY <1>2, <1>3, Renamed DEF OperationInv
  <1>7. pc' \in Labels
    BY DEF PromoteTable, Goto, Labels
  <1>8. Typed'
    BY <1>6, <1>7 DEF OperationInv, Typed, PromoteTable, Snapshots, Leases, History
  <1> QED BY <1>1, <1>2, <1>4, <1>5, <1>8

LEMMA RollBackTyped ==
  ASSUME OperationInv, RollBack
  PROVE  /\ Typed' /\ Base(root') = Base(root) /\ roots' \subseteq {root, root'}
         /\ root'.journal = root.journal /\ root'.compacted = root.compacted
  <1> DEFINE names == [root EXCEPT !.base = root.backup, !.backup = NoTable]
  <1>1. root \in Roots /\ root.base = NoTable /\ root.backup # NoTable /\ roots = {root}
    BY DEF OperationInv, Typed, Placed, RollBack
  <1>2. root.backup \in Tables
    BY <1>1, BaseIs
  <1>3. names \in Roots /\ names.base = root.backup
        /\ names.journal = root.journal /\ names.compacted = root.compacted
    BY <1>1, <1>2, KindsDiffer DEF Roots
  <1>4. root' = names /\ roots' \in {{names}, roots \cup {names}}
    BY DEF RollBack
  <1> HIDE DEF names
  <1>5. Base(root') = Base(root)
    BY <1>1, <1>3, <1>4 DEF Base
  <1>6. pc' \in Labels /\ local' \in Locals
    BY NoLocalIs DEF RollBack, Finish, Labels
  <1>7. root' \in roots' /\ roots' \subseteq Roots
    BY <1>1, <1>3, <1>4
  <1>8. Typed'
    BY <1>6, <1>7 DEF OperationInv, Typed, RollBack, Snapshots, Leases, History, Locals
  <1> QED BY <1>1, <1>3, <1>4, <1>5, <1>8

\* Cleaning up is invisible: the namespaces differ in the backup only.
LEMMA CleanedUp ==
  ASSUME OperationInv, CleanUp
  PROVE  /\ root' \in roots' /\ roots' \subseteq Roots
         /\ \A r \in roots' : /\ r.base = root.base /\ r.journal = root.journal
                              /\ r.compacted = root.compacted /\ Base(r) = Base(root)
         /\ root.base = local.table /\ Base(root) = local.table /\ local.table \in Tables
  <1>1. roots = {root} /\ root.base = local.table /\ local.table \in Tables /\ root \in Roots
        /\ root.base # NoTable
    BY KindsDiffer DEF OperationInv, Typed, Placed, CleanUp, Replacing
  <1>2. Base(root) = local.table
    BY <1>1 DEF Base
  <1>3. CASE UNCHANGED <<root, roots>>
    BY <1>1, <1>2, <1>3
  <1>4. ASSUME NEW left \in {NoTable, Broken}, DropBackup(left)
        PROVE  /\ root' \in roots' /\ roots' \subseteq Roots
               /\ \A r \in roots' : /\ r.base = root.base /\ r.journal = root.journal
                                    /\ r.compacted = root.compacted /\ Base(r) = Base(root)
    BY <1>1, <1>4, BackupDropped DEF OperationInv
  <1> QED BY <1>1, <1>2, <1>3, <1>4 DEF CleanUp

LEMMA CleanUpTyped ==
  ASSUME OperationInv, CleanUp
  PROVE  Typed'
  <1>1. root' \in roots' /\ roots' \subseteq Roots /\ local.table \in Tables
    BY CleanedUp
  <1>2. pc' \in Labels /\ local' \in Locals
    BY NoLocalIs DEF OperationInv, Typed, Locals, CleanUp, Finish, Goto, Labels
  <1>3. possible' \subseteq Tables
    BY <1>1 DEF OperationInv, Typed, CleanUp
  <1> QED BY <1>1, <1>2, <1>3 DEF OperationInv, Typed, CleanUp, Snapshots, Leases, Locals

\* Removing a leftover empties no journal that is in use.
LEMMA LeftoverRemoved ==
  ASSUME OperationInv, RemoveLeftover \/ DiscardJournal
  PROVE  /\ root' \in roots' /\ roots' \subseteq Roots /\ files' \in [Journals -> Directories]
         /\ root' = [root EXCEPT !.compacted = 0] /\ roots' = roots \cup {root'}
         /\ root'.base = root.base /\ root'.backup = root.backup /\ root'.journal = root.journal
         /\ root'.compacted = 0
         /\ \A k \in Journals : k # root.compacted => files'[k] = files[k]
         /\ LiveEntries' = LiveEntries /\ Base(root') = Base(root)
  <1> DEFINE names == [root EXCEPT !.compacted = 0]
  <1>1. root \in Roots
    BY DEF OperationInv, Typed
  <1>2. Rename(names) /\ EmptyTree(root.compacted)
    BY DEF RemoveLeftover, DiscardJournal
  <1>3. names \in Roots /\ names.base = root.base /\ names.backup = root.backup
        /\ names.journal = root.journal /\ names.compacted = 0
    BY <1>1, BoundsAssumption DEF Roots
  <1>4. names = [root EXCEPT !.compacted = 0]
    OBVIOUS
  <1> HIDE DEF names
  <1>5. root' = names /\ roots' = roots \cup {names}
    BY <1>2 DEF Rename
  <1>6. root' \in roots' /\ roots' \subseteq Roots
    BY <1>2, <1>3, Renamed DEF OperationInv
  <1>7. files' \in [Journals -> Directories]
        /\ \A k \in Journals : k # root.compacted => files'[k] = files[k]
    BY <1>2, TreeEmptied DEF OperationInv
  <1>8. root.journal # 0 => root.journal \in Journals /\ root.journal # root.compacted
    BY <1>1, LiveIs DEF OperationInv, Roots
  <1>9. LiveEntries' = LiveEntries
    BY <1>3, <1>5, <1>7, <1>8 DEF LiveEntries
  <1>10. Base(root') = Base(root)
    BY <1>3, <1>5 DEF Base
  <1> QED BY <1>3, <1>4, <1>5, <1>6, <1>7, <1>9, <1>10

LEMMA LeftoverTyped ==
  ASSUME OperationInv, RemoveLeftover \/ DiscardJournal
  PROVE  Typed'
  <1>1. root' \in roots' /\ roots' \subseteq Roots /\ files' \in [Journals -> Directories]
    BY LeftoverRemoved
  <1>2. pc' \in Labels
    BY DEF OperationInv, Typed, RemoveLeftover, DiscardJournal, Goto, Labels
  <1> QED BY <1>1, <1>2 DEF OperationInv, Typed, RemoveLeftover, DiscardJournal, Snapshots,
                             Leases, History, Directories

LEMMA RetireJournalTyped ==
  ASSUME OperationInv, RetireJournal
  PROVE  /\ Typed' /\ root' \in Roots /\ root'.journal = 0 /\ root'.compacted = root.journal
         /\ Base(root') = Base(root) /\ LiveEntries' = NoEntries
  <1> DEFINE names == [root EXCEPT !.journal = 0, !.compacted = root.journal]
  <1>1. root \in Roots
    BY DEF OperationInv, Typed
  <1>2. names \in Roots /\ names.base = root.base /\ names.backup = root.backup
        /\ names.journal = 0 /\ names.compacted = root.journal
    <2>1. root.journal \in 0..LastJournal /\ 0 \in 0..LastJournal
      BY <1>1, BoundsAssumption DEF Roots
    <2>2. /\ names.base = root.base /\ names.backup = root.backup
          /\ names.journal = 0 /\ names.compacted = root.journal
      BY <1>1 DEF Roots
    <2>3. names \in [journal : 0..LastJournal, compacted : 0..LastJournal,
                    base : Tables \cup {NoTable}, backup : Tables \cup {NoTable, Broken}]
      BY <1>1, <2>1 DEF Roots
    <2> HIDE DEF names
    <2>4. names.base # NoTable \/ names.backup # Broken
      BY <1>1, <2>2 DEF Roots
    <2> QED BY <2>2, <2>3, <2>4 DEF Roots
  <1>3. Rename(names)
    BY DEF RetireJournal
  <1> HIDE DEF names
  <1>4. root' = names
    BY <1>3 DEF Rename
  <1>5. Base(root') = Base(root) /\ LiveEntries' = NoEntries
    BY <1>2, <1>4 DEF Base, LiveEntries
  <1>6. root' \in roots' /\ roots' \subseteq Roots
    BY <1>2, <1>3, Renamed DEF OperationInv
  <1>7. pc' \in Labels
    BY DEF RetireJournal, Goto, Labels
  <1>8. Typed'
    BY <1>6, <1>7 DEF OperationInv, Typed, RetireJournal, Snapshots, Leases, History
  <1> QED BY <1>2, <1>4, <1>5, <1>8

LEMMA FlushDiscardedTyped ==
  ASSUME OperationInv, FlushDiscarded
  PROVE  Typed'
  <1>1. root' \in roots' /\ roots' \subseteq Roots
    BY Flushed DEF OperationInv, FlushDiscarded
  <1>2. local.next \in Tables \cup {NoTable}
    BY DEF OperationInv, Typed
  <1>3. pc' \in Labels /\ local' \in Locals
    BY <1>2, NoLocalIs DEF FlushDiscarded, Finish, Goto, Labels, Locals
  <1> QED BY <1>1, <1>3 DEF OperationInv, Typed, FlushDiscarded, Snapshots, Leases, History, Locals

LEMMA BeginRecoveryTyped ==
  ASSUME OperationInv, BeginRecovery
  PROVE  Typed'
  <1>1. pc' \in Labels
    BY DEF BeginRecovery, Goto, Labels
  <1> QED BY <1>1 DEF OperationInv, Typed, BeginRecovery, Snapshots, Leases, History

LEMMA AcceptSnapshotTyped ==
  ASSUME OperationInv, NEW chunks \in SUBSET Coords, AcceptSnapshot(chunks)
  PROVE  Typed' /\ pending' \in Tables \ {NoTable}
  <1>1. pending' \in Tables \ {NoTable}
    BY NewestIs DEF OperationInv, AcceptSnapshot
  <1>2. written' \in 0..LastValue
    BY BoundsAssumption DEF OperationInv, Typed, AcceptSnapshot
  <1>3. possible' \subseteq Tables
    BY <1>1 DEF AcceptSnapshot
  <1> QED BY <1>1, <1>2, <1>3 DEF OperationInv, Typed, AcceptSnapshot, Leases

LEMMA CompactSnapshotTyped ==
  ASSUME OperationInv, CompactSnapshot
  PROVE  /\ Typed' /\ roots' = {root'} /\ Base(root') = pending /\ LiveEntries' = NoEntries
         /\ root'.journal = 0 /\ root'.compacted = 0 /\ pending \in Tables
  <1> DEFINE names == [journal |-> 0, compacted |-> 0, base |-> pending, backup |-> NoTable]
  <1>1. pending \in Tables /\ pending # NoTable
    BY DEF OperationInv, Typed, CompactSnapshot
  <1>2. names \in Roots /\ names.base = pending /\ names.journal = 0 /\ names.compacted = 0
    BY <1>1, BoundsAssumption DEF Roots
  <1>3. root' = names /\ roots' = {root'}
    BY DEF CompactSnapshot
  <1> HIDE DEF names
  <1>4. generation' \in 0..LastGeneration
    BY <1>1, BoundsAssumption DEF OperationInv, Typed, Locked, CompactSnapshot
  <1>5. files' \in [Journals -> [live : Entries, stable : Entries]]
    BY EmptyIsEntries DEF CompactSnapshot
  <1>6. Base(root') = pending /\ LiveEntries' = NoEntries
    BY <1>1, <1>2, <1>3 DEF Base, LiveEntries
  <1>7. Typed'
    BY <1>2, <1>3, <1>4, <1>5 DEF OperationInv, Typed, CompactSnapshot, Leases, History
  <1> QED BY <1>1, <1>2, <1>3, <1>6, <1>7

LEMMA FailTyped ==
  ASSUME OperationInv, Fail
  PROVE  Typed'
  <1>1. pc' \in Labels /\ local' \in Locals
    BY NoLocalIs DEF Fail, Finish, Labels
  <1> QED BY <1>1 DEF OperationInv, Typed, Fail, Snapshots, Leases, History, Locals

\* What a crash leaves.
LEMMA Crashed ==
  ASSUME Typed, Crash
  PROVE  \E r \in roots : \E e \in Settled(r.journal) :
           /\ root' = r /\ roots' = {r} /\ r \in Roots /\ e \in Entries
           /\ files' \in [Journals -> Directories]
           /\ r.journal # 0 => r.journal \in Journals /\ files'[r.journal].live = e
                               /\ files'[r.journal].stable = e
           /\ possible' = {IF pending # NoTable THEN pending ELSE Overlay(Base(r), e)}
           /\ possible' \subseteq Tables
           /\ r.journal = 0 => e = NoEntries
  <1>1. PICK outcome \in CrashOutcomes :
           /\ root' = outcome.root
           /\ roots' = {outcome.root}
           /\ files' = [i \in Journals |->
                IF i = outcome.root.journal
                THEN [live |-> outcome.entries, stable |-> outcome.entries]
                ELSE [live |-> NoEntries, stable |-> NoEntries]]
           /\ possible' = {Shown(outcome)}
    BY DEF Crash
  <1>2. PICK r \in roots : outcome \in {[root |-> r, entries |-> e] : e \in Settled(r.journal)}
    BY DEF CrashOutcomes
  <1>3. PICK e \in Settled(r.journal) : outcome = [root |-> r, entries |-> e]
    BY <1>2
  <1>4. outcome.root = r /\ outcome.entries = e
    BY <1>3
  <1>5. r \in Roots
    BY DEF Typed
  <1>6. r.journal \in 0..LastJournal
    BY <1>5 DEF Roots
  <1>7. e \in Entries
    BY <1>6, SettledIsEntries
  <1>8. r.journal # 0 => r.journal \in Journals
    BY <1>6, BoundsAssumption DEF Journals
  <1>9. files' \in [Journals -> Directories]
    BY <1>1, <1>4, <1>7, EmptyIsEntries DEF Directories
  <1>10. r.journal # 0 => files'[r.journal].live = e /\ files'[r.journal].stable = e
    BY <1>1, <1>4, <1>8
  <1>11. Shown(outcome) = IF pending # NoTable THEN pending ELSE Overlay(Base(r), e)
    BY <1>4 DEF Shown
  <1>12. Overlay(Base(r), e) \in Tables
    BY <1>5, <1>7, BaseIs, OverlayIsTable
  <1>13. possible' \subseteq Tables
    BY <1>1, <1>11, <1>12 DEF Typed
  <1>14. r.journal = 0 => e = NoEntries
    BY SettledIs
  <1> QED BY <1>1, <1>4, <1>5, <1>7, <1>8, <1>9, <1>10, <1>11, <1>13, <1>14

LEMMA CrashTyped ==
  ASSUME OperationInv, Crash
  PROVE  Typed'
  <1>1. root' \in roots' /\ roots' \subseteq Roots /\ files' \in [Journals -> Directories]
        /\ possible' \subseteq Tables
    BY Crashed DEF OperationInv
  <1>2. pc' \in Labels /\ local' \in Locals
    BY NoLocalIs DEF Crash, Finish, Labels
  <1>3. Closed \in [open : BOOLEAN, generation : 0..LastGeneration, highest : 0..LastSequence]
    BY BoundsAssumption DEF Closed
  <1>4. writers' \in [Writers -> [open : BOOLEAN, generation : 0..LastGeneration,
                                  highest : 0..LastSequence]]
    BY <1>3 DEF Crash
  <1>5. pinned' \in [Readers -> [open : BOOLEAN, generation : 0..LastGeneration, inline : BOOLEAN,
                     view : Tables \cup {NoTable}, source : [Coords -> 0..LastSequence]]]
    BY UnpinnedIs DEF Crash
  <1> QED BY <1>1, <1>2, <1>4, <1>5 DEF OperationInv, Typed, Crash, Snapshots, Locals, Directories

LEMMA TypedKept ==
  ASSUME OperationInv, Next
  PROVE  Typed'
  <1>1. CASE Write
    BY <1>1, BeginWriteTyped, FlushCreatedTyped, RenameEntryTyped, FlushEntryTyped DEF Write
  <1>2. CASE Lease
    BY <1>2, OpenWriterTyped, CloseWriterTyped, OpenReaderTyped, CloseReaderTyped DEF Lease
  <1>3. CASE BeginCompaction \/ \E chunks \in SUBSET Coords : BeginReplacement(chunks)
    BY <1>3, BeginCompactionTyped, BeginReplacementTyped
  <1>4. CASE Replacement
    BY <1>4, StageTableTyped, RestoreBackupTyped, FlushingTyped, RemoveOldBackupTyped,
       DisplaceTableTyped, PromoteTableTyped, RollBackTyped, CleanUpTyped DEF Replacement
  <1>5. CASE Retirement
    BY <1>5, LeftoverTyped, RetireJournalTyped, FlushingTyped, FlushDiscardedTyped DEF Retirement
  <1>6. CASE BeginRecovery \/ CompactSnapshot \/ Fail \/ Crash
    BY <1>6, BeginRecoveryTyped, CompactSnapshotTyped, FailTyped, CrashTyped
  <1>7. CASE \E chunks \in SUBSET Coords : AcceptSnapshot(chunks)
    BY <1>7, AcceptSnapshotTyped
  <1> QED BY <1>1, <1>2, <1>3, <1>4, <1>5, <1>6, <1>7 DEF Next

--------------------------------------------------------------------------------
(* The locks, the tables in the root, and what maintenance leaves as it is *)

LEMMA SameJournal ==
  ASSUME files' = files, root'.journal = root.journal
  PROVE  LiveEntries' = LiveEntries
  BY DEF LiveEntries

LEMMA SameTable ==
  ASSUME Base(root') = Base(root), LiveEntries' = LiveEntries
  PROVE  Merged' = Merged
  BY DEF Merged

LEMMA SameRoot ==
  ASSUME files' = files, root' = root
  PROVE  LiveEntries' = LiveEntries /\ Merged' = Merged
  <1>1. LiveEntries' = LiveEntries
    BY DEF LiveEntries
  <1>2. Base(root') = Base(root)
    BY DEF Base
  <1> QED BY <1>1, <1>2, SameTable

\* A replacement touches neither journals nor leases, and a checkpoint shows what it was
\* made from.
LEMMA Replaced ==
  ASSUME OperationInv, Replacement
  PROVE  /\ files' = files /\ LiveEntries' = LiveEntries /\ root'.journal = root.journal
         /\ UNCHANGED <<writers, pinned, generation, pending, written>>
         /\ PromoteTable \/ Base(root') = Base(root)
         /\ ~local.bulk => Merged' = Merged
         /\ pc \in Replacing
  <1>1. files' = files /\ UNCHANGED <<writers, pinned, generation, pending, written>> /\ pc \in Replacing
    BY DEF Replacement, StageTable, RestoreBackup, FlushRestored, RemoveOldBackup, DisplaceTable,
           FlushDisplaced, PromoteTable, RollBack, FlushPromoted, CleanUp, Snapshots, Leases,
           History, Replacing
  <1>2. root \in Roots /\ root \in roots
    BY DEF OperationInv, Typed
  <1>3. root'.journal = root.journal /\ (PromoteTable \/ Base(root') = Base(root))
    <2>1. CASE StageTable \/ FlushRestored \/ FlushDisplaced \/ FlushPromoted
      BY <2>1 DEF StageTable, FlushRestored, FlushDisplaced, FlushPromoted, FlushRoot
    <2>2. CASE RestoreBackup
      <3>1. root'.journal = root.journal
        BY <1>2, <2>2 DEF RestoreBackup, Rename, Roots
      <3> QED BY <2>2, <3>1, RestoreBackupTyped
    <2>3. CASE RemoveOldBackup
      <3>1. roots = {root} /\ root.base # NoTable /\ DropBackup(NoTable)
        BY <2>3 DEF OperationInv, Placed, RemoveOldBackup
      <3> QED BY <3>1, BackupDropped DEF OperationInv
    <2>4. CASE DisplaceTable
      <3>1. root'.journal = root.journal
        BY <1>2, <2>4 DEF DisplaceTable, Rename, Roots
      <3> QED BY <2>4, <3>1, DisplaceTableTyped
    <2>5. CASE PromoteTable
      BY <1>2, <2>5 DEF PromoteTable, Rename, Roots
    <2>6. CASE RollBack
      BY <2>6, RollBackTyped
    <2>7. CASE CleanUp
      BY <2>7, CleanedUp
    <2> QED BY <2>1, <2>2, <2>3, <2>4, <2>5, <2>6, <2>7, Replacement DEF Replacement
  <1>4. LiveEntries' = LiveEntries
    BY <1>1, <1>3, SameJournal
  <1>5. ASSUME ~local.bulk PROVE Merged' = Merged
    <2>1. CASE Base(root') = Base(root)
      BY <2>1, <1>4, SameTable
    <2>2. CASE PromoteTable
      <3>1. Base(root') = local.table
        BY <2>2, PromoteTableTyped
      <3>2. local.table = Merged
        BY <1>1, <1>5 DEF OperationInv, Placed
      <3>3. Merged' = Overlay(Overlay(Base(root), LiveEntries), LiveEntries)
        BY <1>4, <3>1, <3>2 DEF Merged
      <3> QED BY <3>3, OverlayTwice DEF Merged
    <2> QED BY <1>3, <2>1, <2>2
  <1> QED BY <1>1, <1>3, <1>4, <1>5

\* Retiring the journal shows what the journal and the base showed together.
LEMMA Retired ==
  ASSUME OperationInv, Retirement
  PROVE  /\ UNCHANGED <<writers, pinned, generation, pending, written, possible>>
         /\ Base(root') = Base(root) /\ Merged' = Merged
         /\ pc \in Retiring
  <1>1. UNCHANGED <<writers, pinned, generation, pending, written, possible>> /\ pc \in Retiring
    BY DEF Retirement, RemoveLeftover, RetireJournal, FlushRetired, DiscardJournal, FlushDiscarded,
           Snapshots, Leases, History, Retiring
  <1>2. CASE RemoveLeftover \/ DiscardJournal
    <2>1. LiveEntries' = LiveEntries /\ Base(root') = Base(root)
      BY <1>2, LeftoverRemoved
    <2> QED BY <1>1, <2>1, SameTable
  <1>3. CASE FlushRetired \/ FlushDiscarded
    <2>1. root' = root /\ files' = files
      BY <1>3 DEF FlushRetired, FlushDiscarded, FlushRoot
    <2> QED BY <1>1, <2>1, SameRoot
  <1>4. CASE RetireJournal
    <2>1. Base(root') = Base(root) /\ LiveEntries' = NoEntries
      BY <1>4, RetireJournalTyped
    <2>2. pc = "retire" /\ ~local.bulk
      BY <1>4 DEF RetireJournal, OperationInv, Locked, Replacing
    <2>3. root \in Roots /\ root.base = local.table /\ local.table = Merged /\ Merged \in Tables
      BY <2>2, LiveIs DEF OperationInv, Placed
    <2>4. Base(root) = Merged
      BY <2>3, KindsDiffer DEF Base
    <2>5. Merged' = Overlay(Merged, NoEntries)
      BY <2>1, <2>4 DEF Merged
    <2> QED BY <1>1, <2>1, <2>3, <2>5, OverlayOfNothing
  <1> QED BY <1>2, <1>3, <1>4 DEF Retirement

LEMMA LockedKept ==
  ASSUME OperationInv, Next
  PROVE  Locked'
  <1> USE DEF OperationInv, Locked
  <1>1. CASE Write
    <2>1. CASE \E w \in Writers, c \in Coords : BeginWrite(w, c)
      <3>1. pc' \in {"ready", "created"} /\ pending' = NoTable
        BY <2>1 DEF BeginWrite, MayWrite, Goto, Snapshots
      <3>2. local'.bulk = FALSE
        BY <2>1 DEF BeginWrite, NoLocal
      <3> QED BY <3>1, <3>2 DEF Replacing, Retiring
    <2>2. CASE FlushCreated \/ RenameEntry
      BY <2>2 DEF FlushCreated, RenameEntry, Goto, Snapshots, Replacing, Retiring
    <2>3. CASE FlushEntry
      BY <2>3, NoLocalIs DEF FlushEntry, Finish, Snapshots, Replacing, Retiring
    <2> QED BY <1>1, <2>1, <2>2, <2>3 DEF Write
  <1>2. CASE \E w \in Writers : OpenWriter(w) \/ CloseWriter(w)
    <2>1. CASE \E w \in Writers : OpenWriter(w)
      BY <2>1 DEF OpenWriter, Snapshots, Replacing, Retiring
    <2>2. ASSUME NEW w \in Writers, CloseWriter(w) PROVE Locked'
      <3>1. UNCHANGED <<pc, local, generation, pending, pinned>>
        BY <2>2 DEF CloseWriter, Snapshots
      <3>2. \A v \in Writers : ~writers[v].open => ~writers'[v].open
        BY <2>2 DEF CloseWriter, Closed, Typed
      <3>3. Exclusive => Exclusive'
        BY <3>1, <3>2 DEF Exclusive
      <3> QED BY <3>1, <3>3
    <2> QED BY <1>2, <2>1, <2>2
  <1>3. CASE \E r \in Readers : OpenReader(r) \/ CloseReader(r)
    <2>1. CASE \E r \in Readers : OpenReader(r)
      BY <2>1 DEF OpenReader, Snapshots, Replacing, Retiring
    <2>2. ASSUME NEW r \in Readers, CloseReader(r) PROVE Locked'
      <3>1. UNCHANGED <<pc, local, generation, pending, writers>>
        BY <2>2 DEF CloseReader, Snapshots
      <3>2. \A v \in Readers : ~pinned[v].open => ~pinned'[v].open
        BY <2>2 DEF CloseReader, Unpinned, Typed
      <3>3. Exclusive => Exclusive'
        BY <3>1, <3>2 DEF Exclusive
      <3> QED BY <3>1, <3>3
    <2> QED BY <1>3, <2>1, <2>2
  <1>4. CASE BeginCompaction \/ BeginRecovery \/ \E chunks \in SUBSET Coords : BeginReplacement(chunks)
    <2>1. Exclusive' /\ pending' = NoTable /\ pc' \in {"stage", "discard"} /\ generation' = generation
      BY <1>4 DEF BeginCompaction, BeginRecovery, BeginReplacement, Exclusive, Leases, Snapshots, Goto
    <2>2. CASE BeginCompaction \/ BeginRecovery
      <3>1. local'.bulk = FALSE
        BY <2>2, NoLocalIs DEF BeginCompaction, BeginRecovery, NoLocal
      <3> QED BY <2>1, <3>1
    <2>3. CASE \E chunks \in SUBSET Coords : BeginReplacement(chunks)
      <3>1. pc' = "stage"
        BY <2>3 DEF BeginReplacement, Goto
      <3> QED BY <2>1, <3>1 DEF Replacing
    <2> QED BY <1>4, <2>2, <2>3
  <1>5. CASE Replacement \/ Retirement
    <2>1. UNCHANGED <<writers, pinned, generation, pending>> /\ pc \in Replacing \cup Retiring
      BY <1>5, Replaced, Retired
    <2>2. Exclusive' /\ pending' = NoTable
      BY <2>1 DEF Exclusive, Replacing, Retiring
    <2>3. pc' = "idle" => local' = NoLocal
      BY <1>5 DEF Replacement, StageTable, RestoreBackup, FlushRestored, RemoveOldBackup,
           DisplaceTable, FlushDisplaced, PromoteTable, RollBack, FlushPromoted, CleanUp,
           Retirement, RemoveLeftover, RetireJournal, FlushRetired, DiscardJournal,
           FlushDiscarded, Goto, Finish
    <2>4. local'.bulk => pc' \in Replacing
      BY <1>5, NoLocalIs DEF Replacement, StageTable, RestoreBackup, FlushRestored, RemoveOldBackup,
           DisplaceTable, FlushDisplaced, PromoteTable, RollBack, FlushPromoted, CleanUp,
           Retirement, RemoveLeftover, RetireJournal, FlushRetired, DiscardJournal,
           FlushDiscarded, Goto, Finish, Replacing
    <2> QED BY <2>1, <2>2, <2>3, <2>4
  <1>6. CASE CompactSnapshot \/ Fail \/ Crash
    BY <1>6, NoLocalIs DEF CompactSnapshot, Fail, Crash, Finish, Snapshots, Replacing, Retiring
  <1>7. CASE \E chunks \in SUBSET Coords : AcceptSnapshot(chunks)
    BY <1>7, NoLocalIs DEF AcceptSnapshot, Leases, Replacing, Retiring
  <1> QED BY <1>1, <1>2, <1>3, <1>4, <1>5, <1>6, <1>7 DEF Next, Lease

LEMMA PlacedKept ==
  ASSUME OperationInv, Next
  PROVE  Placed'
  <1>1. CASE pc' \notin Replacing \cup {"retire"}
    BY <1>1 DEF Placed, Replacing
  <1>2. CASE Lease
    <2>1. UNCHANGED <<root, roots, files, pc, local>>
      BY <1>2 DEF Lease, OpenWriter, CloseWriter, OpenReader, CloseReader
    <2>2. Merged' = Merged
      BY <2>1, SameRoot
    <2> QED BY <2>1, <2>2 DEF OperationInv, Placed
  <1>3. CASE BeginCompaction
    <2>1. root' = root /\ files' = files /\ pc' = "stage" /\ local'.table = Merged
      BY <1>3 DEF BeginCompaction, Effective, Goto, NoLocal
    <2>2. Merged' = Merged /\ Merged \in Tables
      BY <2>1, SameRoot, LiveIs DEF OperationInv
    <2> QED BY <2>1, <2>2 DEF Placed
  <1>4. ASSUME NEW chunks \in SUBSET Coords, BeginReplacement(chunks) PROVE Placed'
    <2>1. PICK table \in Tables \ {NoTable} :
            local' = IF Present(LiveEntries) = {}
                     THEN [NoLocal EXCEPT !.table = table, !.bulk = TRUE]
                     ELSE [NoLocal EXCEPT !.table = Merged, !.next = table]
      BY <1>4, ReplacementBegun DEF OperationInv
    <2>2. root' = root /\ files' = files /\ pc' = "stage"
      BY <1>4 DEF BeginReplacement, Goto
    <2>3. Merged' = Merged /\ Merged \in Tables
      BY <2>2, SameRoot, LiveIs DEF OperationInv
    <2>4. local'.table \in Tables /\ (~local'.bulk => local'.table = Merged)
      BY <2>1, <2>3 DEF NoLocal
    <2> QED BY <2>2, <2>3, <2>4 DEF Placed
  <1>5. CASE Replacement /\ pc' # "idle"
    <2>1. pc \in Replacing /\ (~local.bulk => Merged' = Merged)
      BY <1>5, Replaced
    <2>2. local' = local
      BY <1>5 DEF Replacement, StageTable, RestoreBackup, FlushRestored, RemoveOldBackup,
           DisplaceTable, FlushDisplaced, PromoteTable, RollBack, FlushPromoted, CleanUp, Finish
    <2>3. local'.table \in Tables /\ (~local'.bulk => local'.table = Merged')
      BY <2>1, <2>2 DEF OperationInv, Placed
    <2>4. root \in Roots
      BY DEF OperationInv, Typed
    <2>5. CASE StageTable
      BY <2>3, <2>5 DEF Placed, StageTable, FlushRoot, Goto
    <2>6. CASE RestoreBackup
      <3>1. root'.base # NoTable /\ pc' = "restored" /\ root'.backup = NoTable
        BY <2>4, <2>6, RestoreBackupTyped DEF RestoreBackup, Rename, Goto, Roots
      <3> QED BY <2>3, <3>1 DEF Placed
    <2>7. CASE FlushRestored
      BY <2>3, <2>7 DEF OperationInv, Placed, FlushRestored, FlushRoot, Goto
    <2>8. CASE RemoveOldBackup
      <3>1. roots = {root} /\ root.base # NoTable /\ DropBackup(NoTable) /\ pc' = "displace"
        BY <2>8 DEF OperationInv, Placed, RemoveOldBackup, Goto
      <3>2. root'.base = root.base /\ root'.backup = NoTable
        BY <3>1, BackupDropped DEF OperationInv
      <3> QED BY <2>3, <3>1, <3>2 DEF Placed
    <2>9. CASE DisplaceTable
      <3>1. root'.base = NoTable /\ pc' = "displaced"
        BY <2>4, <2>9 DEF DisplaceTable, Rename, Goto, Roots
      <3> QED BY <2>3, <3>1 DEF Placed
    <2>10. CASE FlushDisplaced
      BY <2>3, <2>10 DEF OperationInv, Placed, FlushDisplaced, FlushRoot, Goto
    <2>11. CASE PromoteTable
      <3>1. root'.base = local'.table /\ pc' = "promoted"
        BY <2>2, <2>4, <2>11 DEF PromoteTable, Rename, Goto, Roots
      <3> QED BY <2>3, <3>1 DEF Placed
    <2>12. CASE FlushPromoted
      BY <2>2, <2>3, <2>12 DEF OperationInv, Placed, FlushPromoted, FlushRoot, Goto
    <2>13. CASE CleanUp
      <3>1. root'.base = local'.table /\ pc' = "retire"
        BY <1>5, <2>2, <2>13, CleanedUp DEF CleanUp, Finish, Goto
      <3> QED BY <2>3, <3>1 DEF Placed
    <2>14. CASE RollBack
      BY <1>5, <2>14 DEF RollBack, Finish
    <2> QED BY <1>5, <2>5, <2>6, <2>7, <2>8, <2>9, <2>10, <2>11, <2>12, <2>13, <2>14 DEF Replacement
  <1>6. CASE RemoveLeftover
    <2>1. pc = "retire" /\ pc' = pc /\ local' = local
      BY <1>6 DEF RemoveLeftover
    <2>2. root'.base = root.base /\ Merged' = Merged
      BY <1>6, LeftoverRemoved, Retired DEF Retirement
    <2> QED BY <2>1, <2>2 DEF OperationInv, Placed
  <1>7. CASE FlushDiscarded /\ pc' # "idle"
    <2>1. pc' = "stage" /\ local'.table = local.next /\ local'.bulk /\ local.next # NoTable
      BY <1>7 DEF FlushDiscarded, Goto, Finish, NoLocal
    <2>2. local.next \in Tables
      BY <2>1 DEF OperationInv, Typed
    <2> QED BY <2>1, <2>2 DEF Placed
  <1>8. pc' \in {"idle", "created", "ready", "renamed", "retired", "discard", "discarded"}
          => pc' \notin Replacing \cup {"retire"}
    BY DEF Replacing
  <1>9. CASE Write \/ RetireJournal \/ FlushRetired \/ DiscardJournal \/ BeginRecovery
             \/ CompactSnapshot \/ Fail \/ Crash
             \/ \E chunks \in SUBSET Coords : AcceptSnapshot(chunks)
    <2>1. pc' \in {"idle", "created", "ready", "renamed", "retired", "discard", "discarded"}
      BY <1>9 DEF Write, BeginWrite, FlushCreated, RenameEntry, FlushEntry, RetireJournal,
           FlushRetired, DiscardJournal, BeginRecovery, CompactSnapshot, Fail, Crash,
           AcceptSnapshot, Goto, Finish
    <2> QED BY <1>1, <1>8, <2>1
  <1> QED BY <1>1, <1>2, <1>3, <1>4, <1>5, <1>6, <1>7, <1>8, <1>9 DEF Next, Retirement

--------------------------------------------------------------------------------
(* The writer at work, the other writers and the readers *)

\* What BeginWrite does to the journal.
LEMMA WriteBegun ==
  ASSUME OperationInv, NEW w \in Writers, NEW c \in Coords, BeginWrite(w, c)
  PROVE  /\ root' \in Roots /\ root'.journal # 0 /\ LiveEntries' = LiveEntries
         /\ root'.base = root.base /\ root'.backup = root.backup /\ Base(root') = Base(root)
         /\ \/ root.journal # 0 /\ pc' = "ready" /\ UNCHANGED <<root, roots, files>>
            \/ /\ root.journal = 0 /\ pc' = "created" /\ roots' = roots \cup {root'}
               /\ root' = [root EXCEPT !.journal = Min(Unused)] /\ root'.journal = Min(Unused)
               /\ Unused # {}
               /\ files' = [files EXCEPT ![Min(Unused)] = [live |-> NoEntries, stable |-> NoEntries]]
  <1>1. root \in Roots
    BY DEF OperationInv, Typed
  <1>2. CASE root.journal # 0
    <2>1. pc' = "ready" /\ UNCHANGED <<root, roots, files>>
      BY <1>2 DEF BeginWrite, Goto
    <2>2. LiveEntries' = LiveEntries
      BY <2>1, SameRoot
    <2> QED BY <1>1, <1>2, <2>1, <2>2
  <1>3. CASE root.journal = 0
    <2> DEFINE names == [root EXCEPT !.journal = Min(Unused)]
               dir == [live |-> NoEntries, stable |-> NoEntries]
    <2>1. /\ pc' = "created" /\ Unused # {} /\ Rename(names)
          /\ files' = [files EXCEPT ![Min(Unused)] = dir]
      BY <1>3 DEF BeginWrite, Goto
    <2>2. Min(Unused) \in Journals /\ Min(Unused) # 0
      BY <2>1, UnusedIs
    <2>3. names.journal = Min(Unused) /\ names.base = root.base /\ names.backup = root.backup
      BY <1>1 DEF Roots
    <2>4. root' = names /\ roots' = roots \cup {root'}
      BY <2>1 DEF Rename
    <2>5. files'[Min(Unused)] = dir
      BY <2>1, <2>2 DEF OperationInv, Typed
    <2>6. LiveEntries' = NoEntries
      BY <2>2, <2>3, <2>4, <2>5 DEF LiveEntries
    <2>7. LiveEntries = NoEntries
      BY <1>3 DEF LiveEntries
    <2>8. root' \in Roots
      BY BeginWriteTyped DEF Typed
    <2>9. Base(root') = Base(root)
      BY <2>3, <2>4 DEF Base
    <2> QED BY <1>3, <2>1, <2>2, <2>3, <2>4, <2>6, <2>7, <2>8, <2>9
  <1> QED BY <1>2, <1>3

\* Nothing comes after the entry about to be written.
LEMMA NothingBehind ==
  ASSUME OperationInv, pc = "ready"
  PROVE  \A n \in Present(LiveEntries) : n < Pen.highest + 1
  <1>1. local.writer \in Writers /\ Pen = writers[local.writer] /\ Pen.highest \in Nat
    BY PenIs DEF OperationInv, Writing
  <1>2. Pen.open /\ Pen.generation = generation /\ LiveEntries[Pen.highest + 1] = NoEntry
    BY DEF OperationInv, Penned, Writing
  <1>3. \A n \in Present(LiveEntries) : ~(n > Pen.highest)
    BY <1>1, <1>2 DEF OperationInv, Pens
  <1>4. \A n \in Present(LiveEntries) : n \in Int
    BY DEF Present, Sequences
  <1> QED BY <1>1, <1>3, <1>4

LEMMA PennedKept ==
  ASSUME OperationInv, Next
  PROVE  Penned'
  <1>1. CASE pc' \notin Writing
    BY <1>1 DEF Penned, Writing
  <1>2. ASSUME NEW w \in Writers, NEW c \in Coords, BeginWrite(w, c) PROVE Penned'
    <2>1. pc' \in {"ready", "created"} /\ root'.journal # 0 /\ LiveEntries' = LiveEntries
      BY <1>2, WriteBegun
    <2>2. local'.writer = w /\ local'.coord = c /\ writers' = writers /\ generation' = generation
      BY <1>2 DEF BeginWrite, NoLocal, Leases, Snapshots
    <2>3. written' \in 1..LastValue
      BY <1>2, BoundsAssumption DEF BeginWrite, OperationInv, Typed
    <2>4. Pen' = writers[w]
      BY <2>2 DEF Pen
    <2>5. writers[w].open /\ writers[w].generation = generation /\ writers[w].highest < LastSequence
          /\ LiveEntries[writers[w].highest + 1] = NoEntry
      BY <1>2 DEF BeginWrite, MayWrite
    <2> QED BY <2>1, <2>2, <2>3, <2>4, <2>5 DEF Penned
  <1>3. CASE FlushCreated
    <2>1. pc = "created" /\ pc' = "ready" /\ root' = root
          /\ UNCHANGED <<files, generation, writers, local, written>>
      BY <1>3 DEF FlushCreated, FlushRoot, Goto, Snapshots, Leases, History
    <2>2. LiveEntries' = LiveEntries /\ Pen' = Pen
      BY <2>1, SameRoot DEF Pen
    <2> QED BY <2>1, <2>2 DEF OperationInv, Penned, Writing
  <1>4. CASE RenameEntry
    <2>1. pc = "ready" /\ pc' = "renamed" /\ root' = root
          /\ UNCHANGED <<generation, writers, local, written>>
      BY <1>4 DEF RenameEntry, Goto, Snapshots, Leases, History
    <2>2. Pen' = Pen
      BY <2>1 DEF Pen
    <2>3. LiveEntries' = [LiveEntries EXCEPT ![Pen.highest + 1] = <<local.coord, written>>]
      BY <1>4, EntryRenamed DEF OperationInv
    <2>4. Pen.highest + 1 \in Sequences /\ LiveEntries \in Entries /\ Pen.highest \in Nat
      BY <2>1, PenIs, LiveIs DEF OperationInv, Writing
    <2> DEFINE n == Pen.highest + 1
    <2>5. \A m \in Present(LiveEntries) : m < n
      BY <2>1, NothingBehind
    <2>6. n \in Int /\ LiveEntries'[n] = <<local.coord, written>>
          /\ \A m \in Sequences : m # n => LiveEntries'[m] = LiveEntries[m]
      BY <2>3, <2>4 DEF Entries
    <2>7. \A m \in Present(LiveEntries') : m = n \/ m \in Present(LiveEntries)
      BY <2>6 DEF Present
    <2>8. \A m \in Present(LiveEntries') : m \in Int
      BY DEF Present, Sequences
    <2> HIDE DEF n
    <2>9. \A m \in Present(LiveEntries') : m <= n
      BY <2>5, <2>6, <2>7, <2>8
    <2>10. \A m \in Present(LiveEntries)' : m <= Pen.highest + 1
      BY <2>9 DEF n, Present
    <2> QED BY <2>1, <2>2, <2>6, <2>10 DEF OperationInv, Penned, Writing, n
  <1>5. CASE Lease /\ pc # "idle"
    <2>1. UNCHANGED <<root, files, generation, pc, local, written>>
      BY <1>5 DEF Lease, OpenWriter, CloseWriter, OpenReader, CloseReader, Snapshots, History
    <2>2. LiveEntries' = LiveEntries
      BY <2>1, SameRoot
    <2>3. CASE pc \in Writing
      <3>1. writers'[local.writer] = writers[local.writer]
        BY <1>5, <2>3 DEF Lease, OpenWriter, CloseWriter, OpenReader, CloseReader, OperationInv,
                          Typed, Penned
      <3>2. Pen' = Pen
        BY <2>1, <3>1 DEF Pen
      <3> QED BY <2>1, <2>2, <3>2 DEF OperationInv, Penned
    <2> QED BY <1>1, <2>1, <2>3
  <1>6. CASE Lease /\ pc = "idle"
    BY <1>1, <1>6 DEF Lease, OpenWriter, CloseWriter, OpenReader, CloseReader, Writing
  <1>7. CASE FlushEntry \/ BeginCompaction \/ BeginRecovery \/ CompactSnapshot \/ Fail \/ Crash
             \/ \E chunks \in SUBSET Coords : AcceptSnapshot(chunks)
    BY <1>1, <1>7 DEF FlushEntry, BeginCompaction, BeginRecovery, CompactSnapshot, Fail, Crash,
                      AcceptSnapshot, Goto, Finish, Writing
  <1>8. CASE \E chunks \in SUBSET Coords : BeginReplacement(chunks)
    BY <1>1, <1>8 DEF BeginReplacement, Goto, Writing
  <1>9. CASE Replacement \/ Retirement
    BY <1>1, <1>9 DEF Replacement, StageTable, RestoreBackup, FlushRestored, RemoveOldBackup,
       DisplaceTable, FlushDisplaced, PromoteTable, RollBack, FlushPromoted, CleanUp,
       Retirement, RemoveLeftover, RetireJournal, FlushRetired, DiscardJournal,
       FlushDiscarded, Goto, Finish, Writing
  <1> QED BY <1>2, <1>3, <1>4, <1>5, <1>6, <1>7, <1>8, <1>9 DEF Next, Write

\* Operations that hold the leases for themselves have no writer and no reader to disturb.
LEMMA ExclusiveSteps ==
  ASSUME OperationInv,
         \/ BeginCompaction \/ BeginRecovery \/ Replacement \/ Retirement
         \/ \E chunks \in SUBSET Coords : BeginReplacement(chunks)
  PROVE  Pens' /\ Views' /\ PinnedViewsHold'
  <1>1. Exclusive /\ UNCHANGED <<writers, pinned>>
    <2>1. CASE Replacement \/ Retirement
      BY <2>1, Replaced, Retired DEF OperationInv, Locked
    <2>2. CASE BeginCompaction \/ BeginRecovery \/ \E chunks \in SUBSET Coords : BeginReplacement(chunks)
      BY <2>2 DEF BeginCompaction, BeginRecovery, BeginReplacement, Leases
    <2> QED BY <2>1, <2>2
  <1>2. (\A w \in Writers : ~writers'[w].open) /\ (\A r \in Readers : ~pinned'[r].open)
    BY <1>1 DEF Exclusive
  <1> QED BY <1>2 DEF Pens, Views, PinnedViewsHold

\* Steps that leave journal, table and generation as they are.
LEMMA PensUnchanged ==
  ASSUME Pens, LiveEntries' = LiveEntries, writers' = writers, generation' = generation
  PROVE  Pens'
  BY DEF Pens, Present

LEMMA PensKept ==
  ASSUME OperationInv, Next
  PROVE  Pens'
  <1> USE DEF OperationInv
  <1>1. ASSUME NEW w \in Writers, OpenWriter(w) PROVE Pens'
    <2> DEFINE S == Present(LiveEntries) \cup {0}
    <2>1. S \subseteq 0..LastSequence /\ S \subseteq Int /\ S # {} /\ LastSequence \in Nat
      BY BoundsAssumption DEF Present, Sequences
    <2>2. Max(S) \in S /\ \A n \in S : n <= Max(S)
      BY <2>1, NumbersAreFinite, MaxOfFinite
    <2>3. writers'[w].open /\ writers'[w].generation = generation /\ writers'[w].highest = Max(S)
          /\ \A v \in Writers : v # w => writers'[v] = writers[v]
      BY <1>1 DEF OpenWriter, Typed
    <2>4. root' = root /\ files' = files /\ generation' = generation /\ generation \in Int
      BY <1>1 DEF OpenWriter, Snapshots, Typed
    <2>5. LiveEntries' = LiveEntries
      BY <2>4, SameRoot
    <2>6. \A n \in Present(LiveEntries) : ~(n > Max(S))
      BY <2>1, <2>2
    <2> HIDE DEF S
    <2> SUFFICES ASSUME NEW v \in Writers, writers'[v].open
                 PROVE  /\ writers'[v].generation <= generation
                        /\ writers'[v].generation = generation =>
                             /\ writers'[v].highest \in Present(LiveEntries) \cup {0}
                             /\ \A n \in Present(LiveEntries) :
                                  n > writers'[v].highest => LiveEntries[writers'[v].highest + 1] # NoEntry
      BY <2>4, <2>5 DEF Pens, Present
    <2>7. CASE v = w
      BY <2>2, <2>3, <2>4, <2>6, <2>7 DEF S
    <2>8. CASE v # w
      BY <2>3, <2>8 DEF Pens
    <2> QED BY <2>7, <2>8
  <1>2. ASSUME NEW w \in Writers, CloseWriter(w) PROVE Pens'
    <2>1. root' = root /\ files' = files /\ generation' = generation
      BY <1>2 DEF CloseWriter, Snapshots
    <2>2. LiveEntries' = LiveEntries
      BY <2>1, SameRoot
    <2>3. \A v \in Writers : writers'[v].open => writers'[v] = writers[v]
      BY <1>2 DEF CloseWriter, Closed, Typed
    <2> QED BY <2>1, <2>2, <2>3 DEF Pens, Present
  <1>3. CASE (\E r \in Readers : OpenReader(r) \/ CloseReader(r)) \/ FlushCreated \/ Fail
             \/ \E chunks \in SUBSET Coords : AcceptSnapshot(chunks)
    <2>1. root' = root /\ files' = files /\ generation' = generation /\ writers' = writers
      BY <1>3 DEF OpenReader, CloseReader, FlushCreated, FlushRoot, Fail, AcceptSnapshot, Snapshots, Leases
    <2> QED BY <2>1, SameRoot, PensUnchanged
  <1>4. ASSUME NEW w \in Writers, NEW c \in Coords, BeginWrite(w, c) PROVE Pens'
    <2>1. LiveEntries' = LiveEntries
      BY <1>4, WriteBegun
    <2>2. writers' = writers /\ generation' = generation
      BY <1>4 DEF BeginWrite, Leases, Snapshots
    <2> QED BY <2>1, <2>2, PensUnchanged
  <1>5. CASE RenameEntry
    <2> DEFINE n == Pen.highest + 1
    <2>1. pc = "ready" /\ generation' = generation /\ writers' = writers
      BY <1>5 DEF RenameEntry, Snapshots, Leases
    <2>2. LiveEntries' = [LiveEntries EXCEPT ![n] = <<local.coord, written>>]
      BY <1>5, EntryRenamed
    <2>3. n \in Sequences /\ Pen.highest \in Nat /\ LiveEntries \in Entries
          /\ <<local.coord, written>> \in Coords \X (1..LastValue) /\ local.writer \in Writers
          /\ Pen = writers[local.writer]
      BY <2>1, PenIs, LiveIs DEF Writing
    <2>4. \A m \in Present(LiveEntries) : m < n
      BY <2>1, NothingBehind
    <2>5. n \in Int /\ LiveEntries'[n] # NoEntry
          /\ \A m \in Sequences : m # n => LiveEntries'[m] = LiveEntries[m]
      BY <2>2, <2>3, EntryIs DEF Entries
    <2>6. Pen.generation = generation /\ Pen.open
      BY <2>1 DEF Penned, Writing
    <2>7. Pen.highest = n - 1 /\ Pen.highest \in Present(LiveEntries) \cup {0}
      BY <2>3, <2>6 DEF Pens
    <2> HIDE DEF n
    <2>8. Present(LiveEntries') = Present(LiveEntries) \cup {n}
      BY <2>3, <2>5 DEF Present
    <2> SUFFICES ASSUME NEW v \in Writers, writers[v].open
                 PROVE  /\ writers[v].generation <= generation
                        /\ writers[v].generation = generation =>
                             /\ writers[v].highest \in Present(LiveEntries') \cup {0}
                             /\ \A m \in Present(LiveEntries') :
                                  m > writers[v].highest => LiveEntries'[writers[v].highest + 1] # NoEntry
      BY <2>1 DEF Pens, Present
    <2> DEFINE h == writers[v].highest
    <2>9. writers[v].generation <= generation
      BY DEF Pens
    <2>10. ASSUME writers[v].generation = generation
           PROVE  /\ h \in Present(LiveEntries') \cup {0}
                  /\ \A m \in Present(LiveEntries') : m > h => LiveEntries'[h + 1] # NoEntry
      <3>1. h \in Present(LiveEntries) \cup {0} /\ h \in 0..LastSequence
        BY <2>10 DEF Pens, Typed
      <3>2. \A m \in Present(LiveEntries) : m > h => LiveEntries[h + 1] # NoEntry
        BY <2>10 DEF Pens
      <3> HIDE DEF h
      <3>3. \A m \in Present(LiveEntries) : m > h => LiveEntries'[h + 1] # NoEntry
        <4> SUFFICES ASSUME NEW m \in Present(LiveEntries), m > h PROVE LiveEntries'[h + 1] # NoEntry
          OBVIOUS
        <4>1. m \in Sequences
          BY DEF Present
        <4>2. h + 1 \in Sequences
          BY <3>1, <4>1, BoundsAssumption DEF Sequences
        <4> QED BY <2>5, <3>2, <4>2
      <3>4. ASSUME n > h PROVE LiveEntries'[h + 1] # NoEntry
        <4>1. CASE h + 1 = n
          BY <2>5, <4>1
        <4>2. CASE h + 1 # n
          <5>1. Pen.highest > h /\ Pen.highest # 0
            BY <2>3, <2>5, <2>7, <3>1, <3>4, <4>2
          <5> QED BY <2>7, <3>3, <5>1
        <4> QED BY <4>1, <4>2
      <3> QED BY <2>8, <3>1, <3>3, <3>4
    <2> QED BY <2>9, <2>10
  <1>6. CASE FlushEntry
    <2>1. pc = "renamed" /\ generation' = generation
      BY <1>6 DEF FlushEntry, Snapshots
    <2>2. LiveEntries' = LiveEntries
          /\ \A w \in Writers : /\ writers'[w].open = writers[w].open
                                /\ writers'[w].generation = writers[w].generation
                                /\ w # local.writer => writers'[w].highest = writers[w].highest
          /\ writers'[local.writer].highest = Pen.highest + 1
      BY <1>6, EntryFlushed
    <2>3. Pen.highest + 1 \in Sequences /\ Pen.highest \in Nat
          /\ <<local.coord, written>> \in Coords \X (1..LastValue)
      BY <2>1, PenIs DEF Writing
    <2>4. LiveEntries[Pen.highest + 1] = <<local.coord, written>>
          /\ \A n \in Present(LiveEntries) : n <= Pen.highest + 1
      BY <2>1 DEF Penned
    <2>5. Pen.highest + 1 \in Present(LiveEntries)
      BY <2>3, <2>4, LiveIs, EntryIs DEF Present
    <2>6. \A n \in Present(LiveEntries) : ~(n > Pen.highest + 1)
      <3>1. \A n \in Present(LiveEntries) : n \in Int
        BY DEF Present, Sequences
      <3> QED BY <2>3, <2>4, <3>1
    <2> SUFFICES ASSUME NEW v \in Writers, writers'[v].open
                 PROVE  /\ writers'[v].generation <= generation
                        /\ writers'[v].generation = generation =>
                             /\ writers'[v].highest \in Present(LiveEntries) \cup {0}
                             /\ \A m \in Present(LiveEntries) :
                                  m > writers'[v].highest => LiveEntries[writers'[v].highest + 1] # NoEntry
      BY <2>1, <2>2 DEF Pens, Present
    <2>7. CASE v = local.writer
      BY <2>2, <2>5, <2>6, <2>7 DEF Pens
    <2>8. CASE v # local.writer
      BY <2>2, <2>8 DEF Pens
    <2> QED BY <2>7, <2>8
  <1>7. CASE CompactSnapshot
    <2>1. generation' = generation + 1 /\ writers' = writers /\ generation \in Int
      BY <1>7 DEF CompactSnapshot, Leases, Typed
    <2>2. \A w \in Writers : writers[w].generation \in Int
      BY DEF Typed
    <2>3. \A w \in Writers : writers[w].open =>
            writers[w].generation <= generation + 1 /\ writers[w].generation # generation + 1
      BY <2>1, <2>2 DEF Pens
    <2> QED BY <2>1, <2>3 DEF Pens
  <1>8. CASE Crash
    BY <1>8 DEF Crash, Pens, Closed
  <1> QED BY <1>1, <1>2, <1>3, <1>4, <1>5, <1>6, <1>7, <1>8, ExclusiveSteps DEF Next, Write, Lease

LEMMA ViewsKept ==
  ASSUME OperationInv, Next
  PROVE  Views'
  <1> USE DEF OperationInv
  <1>1. ASSUME NEW r \in Readers, OpenReader(r) PROVE Views'
    <2>1. Current \in Tables
      BY <1>1, OpenReaderTyped
    <2>2. generation' = generation /\ generation \in Int /\ \A s \in Readers : s # r => pinned'[s] = pinned[s]
      BY <1>1 DEF OpenReader, Snapshots, Typed
    <2>3. pinned'[r].generation = generation /\ pinned'[r].view = Current
      BY <1>1 DEF OpenReader, Typed
    <2> QED BY <2>1, <2>2, <2>3 DEF Views
  <1>2. ASSUME NEW r \in Readers, CloseReader(r) PROVE Views'
    <2>1. generation' = generation /\ \A s \in Readers : pinned'[s].open => pinned'[s] = pinned[s]
      BY <1>2 DEF CloseReader, Snapshots, Unpinned, Typed
    <2> QED BY <2>1 DEF Views
  <1>3. CASE Write \/ Fail \/ (\E w \in Writers : OpenWriter(w) \/ CloseWriter(w))
             \/ \E chunks \in SUBSET Coords : AcceptSnapshot(chunks)
    <2>1. generation' = generation /\ pinned' = pinned
      BY <1>3 DEF Write, BeginWrite, FlushCreated, RenameEntry, FlushEntry, Fail, OpenWriter, CloseWriter,
                  AcceptSnapshot, Snapshots, Leases
    <2> QED BY <2>1 DEF Views
  <1>4. CASE CompactSnapshot
    <2>1. generation' = generation + 1 /\ pinned' = pinned /\ generation \in Int
          /\ \A r \in Readers : pinned[r].generation \in Int
      BY <1>4 DEF CompactSnapshot, Leases, Typed
    <2> QED BY <2>1 DEF Views
  <1>5. CASE Crash
    BY <1>5 DEF Crash, Views, Unpinned
  <1> QED BY <1>1, <1>2, <1>3, <1>4, <1>5, ExclusiveSteps DEF Next, Lease

\* Steps that leave the base table, the journal, the readers and the generation as they are.
LEMMA PinnedUnchanged ==
  ASSUME PinnedViewsHold, LiveEntries' = LiveEntries, Base(root') = Base(root),
         generation' = generation,
         \A r \in Readers : pinned'[r].open => pinned'[r] = pinned[r]
  PROVE  PinnedViewsHold'
  <1> SUFFICES ASSUME NEW r \in Readers, pinned'[r].open, pinned'[r].generation = generation,
                      NEW c \in Coords
               PROVE  ReadPinned(r, c)' = pinned'[r].view[c]
    BY DEF PinnedViewsHold
  <1>1. pinned'[r] = pinned[r]
    OBVIOUS
  <1>2. ReadPinned(r, c) = pinned[r].view[c]
    BY <1>1 DEF PinnedViewsHold
  <1>3. ReadPinned(r, c)' = ReadPinned(r, c)
    BY <1>1 DEF ReadPinned
  <1> QED BY <1>1, <1>2, <1>3

LEMMA PinnedKept ==
  ASSUME OperationInv, Next
  PROVE  PinnedViewsHold'
  <1> USE DEF OperationInv
  <1>1. ASSUME NEW r \in Readers, OpenReader(r) PROVE PinnedViewsHold'
    <2>1. root' = root /\ files' = files /\ generation' = generation
      BY <1>1 DEF OpenReader, Snapshots
    <2>2. LiveEntries' = LiveEntries /\ Base(root') = Base(root) /\ LiveEntries \in Entries
      BY <2>1, SameRoot, LiveIs DEF Base
    <2>3. pinned'[r] = [open |-> TRUE, generation |-> generation, inline |-> pending # NoTable,
                        view |-> Current, source |-> [c \in Coords |-> Latest(c, LiveEntries)]]
          /\ \A s \in Readers : s # r => pinned'[s] = pinned[s]
      BY <1>1 DEF OpenReader, Typed
    <2> SUFFICES ASSUME NEW s \in Readers, pinned'[s].open, pinned'[s].generation = generation,
                        NEW c \in Coords
                 PROVE  ReadPinned(s, c)' = pinned'[s].view[c]
      BY <2>1 DEF PinnedViewsHold
    <2>4. CASE s # r
      <3>1. ReadPinned(s, c) = pinned[s].view[c] /\ pinned'[s] = pinned[s]
        BY <2>3, <2>4 DEF PinnedViewsHold
      <3>2. ReadPinned(s, c)' = ReadPinned(s, c)
        BY <2>2, <3>1 DEF ReadPinned
      <3> QED BY <3>1, <3>2
    <2>5. CASE s = r
      <3> DEFINE n == Latest(c, LiveEntries)
      <3>1. pinned'[r].view = Current /\ pinned'[r].inline = (pending # NoTable)
            /\ pinned'[r].source[c] = n
        BY <2>3
      <3>2. CASE pending # NoTable
        BY <2>5, <3>1, <3>2 DEF ReadPinned
      <3>3. CASE pending = NoTable
        <4>1. Current[c] = IF n = 0 THEN Base(root)[c] ELSE LiveEntries[n][2]
          BY <3>3 DEF Current, Merged, Overlay
        <4>2. n # 0 => LiveEntries[n] # NoEntry
          <5>1. n \in EntriesOf(c, LiveEntries) \cup {0}
            BY LatestIs
          <5> QED BY <5>1 DEF EntriesOf
        <4> HIDE DEF n
        <4>3. ReadPinned(r, c)' = IF n = 0 THEN Base(root)[c]
                                  ELSE IF LiveEntries[n] = NoEntry THEN -1 ELSE LiveEntries[n][2]
          BY <2>2, <3>1, <3>3 DEF ReadPinned
        <4> QED BY <2>5, <3>1, <4>1, <4>2, <4>3
      <3> QED BY <3>2, <3>3
    <2> QED BY <2>4, <2>5
  <1>2. ASSUME NEW r \in Readers, CloseReader(r) PROVE PinnedViewsHold'
    <2>1. root' = root /\ files' = files /\ generation' = generation
          /\ \A s \in Readers : pinned'[s].open => pinned'[s] = pinned[s]
      BY <1>2 DEF CloseReader, Snapshots, Unpinned, Typed
    <2>2. LiveEntries' = LiveEntries /\ Base(root') = Base(root)
      BY <2>1, SameRoot DEF Base
    <2> QED BY <2>1, <2>2, PinnedUnchanged
  <1>3. CASE FlushCreated \/ Fail \/ (\E w \in Writers : OpenWriter(w) \/ CloseWriter(w))
             \/ \E chunks \in SUBSET Coords : AcceptSnapshot(chunks)
    <2>1. root' = root /\ files' = files /\ generation' = generation /\ pinned' = pinned
      BY <1>3 DEF FlushCreated, FlushRoot, Fail, OpenWriter, CloseWriter, AcceptSnapshot, Snapshots, Leases
    <2>2. LiveEntries' = LiveEntries /\ Base(root') = Base(root)
      BY <2>1, SameRoot DEF Base
    <2> QED BY <2>1, <2>2, PinnedUnchanged
  <1>4. ASSUME NEW w \in Writers, NEW c \in Coords, BeginWrite(w, c) PROVE PinnedViewsHold'
    <2>1. LiveEntries' = LiveEntries /\ Base(root') = Base(root)
      BY <1>4, WriteBegun
    <2>2. generation' = generation /\ pinned' = pinned
      BY <1>4 DEF BeginWrite, Snapshots, Leases
    <2> QED BY <2>1, <2>2, PinnedUnchanged
  <1>5. CASE RenameEntry
    <2> DEFINE n == Pen.highest + 1
    <2>1. pc = "ready" /\ generation' = generation /\ pinned' = pinned /\ root' = root
      BY <1>5 DEF RenameEntry, Snapshots, Leases
    <2>2. LiveEntries' = [LiveEntries EXCEPT ![n] = <<local.coord, written>>]
      BY <1>5, EntryRenamed
    <2>3. n \in Sequences /\ LiveEntries \in Entries
      BY <2>1, PenIs, LiveIs DEF Writing
    <2>4. LiveEntries[n] = NoEntry
      BY <2>1 DEF Penned
    <2> HIDE DEF n
    <2>5. \A m \in Sequences : m # n => LiveEntries'[m] = LiveEntries[m]
      BY <2>2, <2>3 DEF Entries
    <2>6. Base(root') = Base(root)
      BY <2>1 DEF Base
    <2> SUFFICES ASSUME NEW r \in Readers, pinned[r].open, pinned[r].generation = generation,
                        NEW c \in Coords
                 PROVE  ReadPinned(r, c)' = pinned[r].view[c]
      BY <2>1 DEF PinnedViewsHold
    <2>7. ReadPinned(r, c) = pinned[r].view[c]
      BY DEF PinnedViewsHold
    <2>8. pinned[r].view[c] # -1
      <3>1. pinned[r].view[c] \in 0..LastValue
        BY DEF Views, Tables
      <3> QED BY <3>1, BoundsAssumption
    <2> DEFINE m == pinned[r].source[c]
    <2>9. m \in 0..LastSequence
      BY DEF Typed
    <2>10. CASE pinned[r].inline \/ m = 0
      BY <2>1, <2>6, <2>7, <2>10 DEF ReadPinned
    <2>11. CASE ~pinned[r].inline /\ m # 0
      <3>1. m \in Sequences
        BY <2>9, <2>11, BoundsAssumption DEF Sequences
      <3>2. LiveEntries[m] # NoEntry
        BY <2>7, <2>8, <2>11 DEF ReadPinned
      <3>3. LiveEntries'[m] = LiveEntries[m]
        BY <2>4, <2>5, <3>1, <3>2
      <3> QED BY <2>1, <2>7, <2>11, <3>3 DEF ReadPinned
    <2> QED BY <2>10, <2>11
  <1>6. CASE FlushEntry
    <2>1. generation' = generation /\ pinned' = pinned /\ root' = root
      BY <1>6 DEF FlushEntry, Snapshots
    <2>2. LiveEntries' = LiveEntries /\ Base(root') = Base(root)
      BY <1>6, <2>1, EntryFlushed DEF Base
    <2> QED BY <2>1, <2>2, PinnedUnchanged
  <1>7. CASE CompactSnapshot
    <2>1. generation' = generation + 1 /\ pinned' = pinned /\ generation \in Int
          /\ \A r \in Readers : pinned[r].generation \in Int
      BY <1>7 DEF CompactSnapshot, Leases, Typed
    <2>2. \A r \in Readers : pinned[r].open => pinned[r].generation # generation + 1
      BY <2>1 DEF Views
    <2> QED BY <2>1, <2>2 DEF PinnedViewsHold
  <1>8. CASE Crash
    BY <1>8 DEF Crash, PinnedViewsHold, Unpinned
  <1> QED BY <1>1, <1>2, <1>3, <1>4, <1>5, <1>6, <1>7, <1>8, ExclusiveSteps DEF Next, Write, Lease

--------------------------------------------------------------------------------
(* The operations *)

LEMMA InitialRoot ==
  ASSUME Init
  PROVE  /\ root \in Roots /\ roots = {root} /\ root.journal = 0 /\ root.compacted = 0
         /\ Base(root) = [c \in Coords |-> 0] /\ [c \in Coords |-> 0] \in Tables
         /\ LiveEntries = NoEntries
  <1>1. root = [journal |-> 0, compacted |-> 0, base |-> NoTable, backup |-> NoTable] /\ roots = {root}
    BY DEF Init
  <1>2. root \in Roots
    BY <1>1, KindsDiffer, BoundsAssumption DEF Roots
  <1>3. [c \in Coords |-> 0] \in Tables
    BY BoundsAssumption DEF Tables
  <1> QED BY <1>1, <1>2, <1>3 DEF Base, LiveEntries

LEMMA InitOperation ==
  ASSUME Init
  PROVE  OperationInv
  <1>1. root \in roots /\ roots \subseteq Roots /\ possible \subseteq Tables /\ LiveEntries = NoEntries
    BY InitialRoot DEF Init
  <1>2. files \in [Journals -> [live : Entries, stable : Entries]]
    BY EmptyIsEntries DEF Init
  <1>3. generation \in 0..LastGeneration /\ written \in 0..LastValue
    BY BoundsAssumption DEF Init
  <1>4. writers \in [Writers -> [open : BOOLEAN, generation : 0..LastGeneration,
                                 highest : 0..LastSequence]]
    BY BoundsAssumption DEF Init, Closed
  <1>5. pinned \in [Readers -> [open : BOOLEAN, generation : 0..LastGeneration, inline : BOOLEAN,
                     view : Tables \cup {NoTable}, source : [Coords -> 0..LastSequence]]]
    BY UnpinnedIs DEF Init
  <1>6. pc \in Labels /\ local \in Locals /\ pending \in Tables \cup {NoTable}
    BY NoLocalIs DEF Init, Labels
  <1>7. Typed
    BY <1>1, <1>2, <1>3, <1>4, <1>5, <1>6 DEF Typed, Locals
  <1>8. Locked /\ Placed /\ Penned
    BY NoLocalIs DEF Init, Locked, Placed, Penned, Replacing, Retiring, Writing
  <1>9. Pens /\ Views /\ PinnedViewsHold
    BY DEF Init, Closed, Unpinned, Pens, Views, PinnedViewsHold
  <1> QED BY <1>7, <1>8, <1>9 DEF OperationInv

LEMMA StutterOperation ==
  ASSUME OperationInv, UNCHANGED vars
  PROVE  OperationInv'
  <1>1. root' = root /\ files' = files
    BY DEF vars
  <1>2. LiveEntries' = LiveEntries /\ Merged' = Merged /\ Base(root') = Base(root) /\ Pen' = Pen
    BY <1>1, SameRoot DEF Base, Pen, vars
  <1>3. Typed' /\ Locked' /\ Placed' /\ Penned'
    BY <1>2 DEF OperationInv, vars, Typed, Locked, Placed, Penned, Exclusive, Present
  <1>4. Pens' /\ Views'
    BY <1>2 DEF OperationInv, vars, Pens, Views, Present
  <1>5. PinnedViewsHold'
    BY <1>2, PinnedUnchanged DEF OperationInv, vars
  <1> QED BY <1>3, <1>4, <1>5 DEF OperationInv

LEMMA OperationKept ==
  ASSUME OperationInv, [Next]_vars
  PROVE  OperationInv'
  <1>1. CASE Next
    BY <1>1, TypedKept, LockedKept, PlacedKept, PennedKept, PensKept, ViewsKept, PinnedKept DEF OperationInv
  <1>2. CASE UNCHANGED vars
    BY <1>2, StutterOperation
  <1> QED BY <1>1, <1>2

\* What each operation may assume of the root, the journal and the leases.
THEOREM OperationInvariant == Spec => []OperationInv
  <1> QED BY InitOperation, OperationKept, PTL DEF Spec

\* Types are kept by every step, errors and crashes included.
THEOREM TypeCorrect == Spec => []TypeOK
  <1>1. OperationInv => TypeOK
    BY DEF OperationInv, Typed, TypeOK, Roots
  <1> QED BY <1>1, OperationInvariant, PTL

\* While a reader's lease lasts, what its index names is there and reads as it did when the
\* index was validated, whatever writers, checkpoints and snapshots do meanwhile.
THEOREM PinnedViewsAreKept == Spec => []PinnedViewsHold
  <1>1. OperationInv => PinnedViewsHold
    BY DEF OperationInv
  <1> QED BY <1>1, OperationInvariant, PTL

LEMMA MaintenanceStep ==
  ASSUME OperationInv, Maintenance
  PROVE  Current' = Current
  <1>1. CASE ~local.bulk /\ Replacement
    <2>1. Merged' = Merged /\ pending' = pending
      BY <1>1, Replaced
    <2> QED BY <2>1 DEF Current
  <1>2. CASE Retirement
    <2>1. Merged' = Merged /\ pending' = pending
      BY <1>2, Retired
    <2> QED BY <2>1 DEF Current
  <1>3. CASE BeginRecovery \/ Fail
    <2>1. root' = root /\ files' = files /\ pending' = pending
      BY <1>3 DEF BeginRecovery, Fail, Snapshots
    <2> QED BY <2>1, SameRoot DEF Current
  <1>4. CASE CompactSnapshot
    <2>1. Base(root') = pending /\ LiveEntries' = NoEntries /\ pending \in Tables
      BY <1>4, CompactSnapshotTyped
    <2>2. Merged' = Overlay(pending, NoEntries)
      BY <2>1 DEF Merged
    <2>3. Merged' = pending
      BY <2>1, <2>2, OverlayOfNothing
    <2>4. pending' = NoTable /\ pending # NoTable
      BY <1>4 DEF CompactSnapshot
    <2> QED BY <2>3, <2>4 DEF Current
  <1> QED BY <1>1, <1>2, <1>3, <1>4 DEF Maintenance

\* No step of a checkpoint, of a recovery or of a snapshot's compaction, and no failure,
\* changes what a reader opened at that moment would be shown.
THEOREM MaintenanceIsInvisible == Spec => MaintenanceInvisible
  <1>1. OperationInv /\ [Next]_vars => [Maintenance => Current' = Current]_vars
    BY MaintenanceStep
  <1> QED BY <1>1, OperationInvariant, PTL DEF Spec, MaintenanceInvisible

--------------------------------------------------------------------------------
(* The namespaces a crash may leave *)

LEMMA OneRoot ==
  ASSUME root' \in Roots, roots' = {root'}
  PROVE  Shared'
  BY DEF Shared, Roots

\* Renames that leave the names of the journals alone.
LEMMA SharedAlike ==
  ASSUME Shared, pc \notin {"created", "retired"}, root \in roots, root'.journal = root.journal,
         \A r \in roots' : r \in roots
                           \/ (r.journal = root.journal /\ r.compacted \in {0, root.compacted})
  PROVE  Shared'
  BY DEF Shared

\* The journals' names as a replacement leaves them.
LEMMA RootsReplaced ==
  ASSUME OperationInv, Replacement
  PROVE  /\ \A r \in roots' : r \in roots
                              \/ (r.journal = root.journal /\ r.compacted = root.compacted)
         /\ \A r \in roots' : r \in roots \/ Base(r) = Base(root) \/ PromoteTable
         /\ PromoteTable => roots = {root} /\ roots' = {root, root'}
  <1>1. root \in Roots /\ root \in roots
    BY DEF OperationInv, Typed
  <1>2. CASE StageTable \/ FlushRestored \/ FlushDisplaced \/ FlushPromoted
    <2>1. \A r \in roots' : r \in roots
      BY <1>1, <1>2 DEF StageTable, FlushRestored, FlushDisplaced, FlushPromoted, FlushRoot
    <2>2. ~PromoteTable
      BY <1>2 DEF StageTable, FlushRestored, FlushDisplaced, FlushPromoted, PromoteTable, Goto
    <2> QED BY <2>1, <2>2
  <1>3. CASE RestoreBackup
    <2>1. roots' = roots \cup {root'} /\ root'.journal = root.journal /\ root'.compacted = root.compacted
      BY <1>1, <1>3 DEF RestoreBackup, Rename, Roots
    <2>2. Base(root') = Base(root) /\ ~PromoteTable
      BY <1>3, RestoreBackupTyped DEF RestoreBackup, PromoteTable
    <2> QED BY <2>1, <2>2
  <1>4. CASE RemoveOldBackup
    <2>1. roots = {root} /\ root.base # NoTable /\ DropBackup(NoTable) /\ ~PromoteTable
      BY <1>4 DEF OperationInv, Placed, RemoveOldBackup, PromoteTable
    <2>2. \A r \in roots' : r.journal = root.journal /\ r.compacted = root.compacted
                            /\ Base(r) = Base(root)
      BY <2>1, BackupDropped DEF OperationInv
    <2> QED BY <2>1, <2>2
  <1>5. CASE DisplaceTable
    <2>1. roots' = roots \cup {root'} /\ root'.journal = root.journal /\ root'.compacted = root.compacted
      BY <1>1, <1>5 DEF DisplaceTable, Rename, Roots
    <2>2. Base(root') = Base(root) /\ ~PromoteTable
      BY <1>5, DisplaceTableTyped DEF DisplaceTable, PromoteTable
    <2> QED BY <2>1, <2>2
  <1>6. CASE PromoteTable
    <2>1. roots' = roots \cup {root'} /\ root'.journal = root.journal /\ root'.compacted = root.compacted
      BY <1>1, <1>6 DEF PromoteTable, Rename, Roots
    <2>2. roots = {root}
      BY <1>6 DEF PromoteTable, OperationInv, Placed
    <2> QED BY <1>6, <2>1, <2>2
  <1>7. CASE RollBack
    <2>1. roots' \subseteq {root, root'} /\ root'.journal = root.journal
          /\ root'.compacted = root.compacted /\ Base(root') = Base(root)
      BY <1>7, RollBackTyped
    <2>2. ~PromoteTable
      BY <1>7 DEF RollBack, PromoteTable, Finish, Goto
    <2> QED BY <1>1, <2>1, <2>2
  <1>8. CASE CleanUp
    <2>1. \A r \in roots' : r.journal = root.journal /\ r.compacted = root.compacted
                            /\ Base(r) = Base(root)
      BY <1>8, CleanedUp
    <2>2. ~PromoteTable
      BY <1>8 DEF CleanUp, PromoteTable
    <2> QED BY <2>1, <2>2
  <1> QED BY <1>2, <1>3, <1>4, <1>5, <1>6, <1>7, <1>8 DEF Replacement

LEMMA SharedKept ==
  ASSUME Reliable, OperationInv, Shared, Next
  PROVE  Shared'
  <1>1. root \in roots /\ root \in Roots /\ root' \in Roots
    BY TypedKept DEF OperationInv, Typed
  <1>2. CASE Lease
    BY <1>2 DEF Lease, OpenWriter, CloseWriter, OpenReader, CloseReader, Shared
  <1>3. ASSUME NEW w \in Writers, NEW c \in Coords, BeginWrite(w, c) PROVE Shared'
    <2>1. pc = "idle"
      BY <1>3 DEF BeginWrite
    <2>2. CASE UNCHANGED <<root, roots>>
      BY <2>1, <2>2 DEF Shared
    <2>3. CASE /\ root.journal = 0 /\ pc' = "created" /\ roots' = roots \cup {root'} /\ Unused # {}
               /\ root' = [root EXCEPT !.journal = Min(Unused)] /\ root'.journal = Min(Unused)
      <3>1. root'.compacted = root.compacted
        BY <1>1, <2>3 DEF Roots
      <3>2. \A r \in roots : r.compacted # Min(Unused)
        BY <2>3, UnusedIs
      <3>3. \A r, s \in roots : r.compacted # 0 => r.compacted # s.journal
        BY <2>1 DEF Shared
      <3>4. \A r \in roots', s \in roots' : r.compacted # 0 => r.compacted # s.journal
        <4> SUFFICES ASSUME NEW r \in roots', NEW s \in roots', r.compacted # 0
                     PROVE  r.compacted # s.journal
          OBVIOUS
        <4>1. PICK p \in roots : p.compacted = r.compacted
          BY <1>1, <2>3, <3>1
        <4>2. s \in roots \/ s.journal = Min(Unused)
          BY <2>3
        <4> QED BY <3>2, <3>3, <4>1, <4>2
      <3> QED BY <2>3, <3>4 DEF Shared
    <2> QED BY <1>3, <2>2, <2>3, WriteBegun
  <1>4. CASE RenameEntry \/ FlushEntry \/ BeginCompaction \/ BeginRecovery
             \/ (\E chunks \in SUBSET Coords : BeginReplacement(chunks) \/ AcceptSnapshot(chunks))
    <2>1. UNCHANGED <<root, roots>> /\ pc \notin {"created", "retired"}
      BY <1>4 DEF RenameEntry, FlushEntry, BeginCompaction, BeginRecovery, BeginReplacement, AcceptSnapshot
    <2> QED BY <2>1 DEF Shared
  <1>5. CASE Fail
    <2>1. UNCHANGED <<root, roots>> /\ pc \notin {"created", "retired"}
      BY <1>5 DEF Fail, Reliable
    <2> QED BY <2>1 DEF Shared
  <1>6. CASE FlushCreated \/ FlushRetired \/ FlushDiscarded \/ CompactSnapshot \/ Crash
    <2>1. roots' = {root'}
      BY <1>6 DEF FlushCreated, FlushRetired, FlushDiscarded, CompactSnapshot, Crash, FlushRoot
    <2> QED BY <1>1, <2>1, OneRoot
  <1>7. CASE Replacement
    <2>1. pc \in Replacing /\ root'.journal = root.journal
      BY <1>7, Replaced
    <2>2. pc \notin {"created", "retired"}
      BY <2>1 DEF Replacing
    <2> QED BY <1>1, <1>7, <2>1, <2>2, RootsReplaced, SharedAlike
  <1>8. CASE RemoveLeftover \/ DiscardJournal
    <2>1. roots' = roots \cup {root'} /\ root'.journal = root.journal /\ root'.compacted = 0
      BY <1>8, LeftoverRemoved
    <2>2. pc \notin {"created", "retired"}
      BY <1>8 DEF RemoveLeftover, DiscardJournal
    <2> QED BY <1>1, <2>1, <2>2, SharedAlike
  <1>9. CASE RetireJournal
    BY <1>9 DEF RetireJournal, Goto, Shared
  <1> QED BY <1>2, <1>3, <1>4, <1>5, <1>6, <1>7, <1>8, <1>9 DEF Next, Write, Retirement

--------------------------------------------------------------------------------
(* What is flushed of a journal stays *)

LEMMA KeptIs == Kept <=> \A r \in roots : r.journal # 0 => Agrees(files[r.journal])
  BY DEF Kept, Agrees

LEMMA KeptThen == Kept' <=> \A r \in roots' : r.journal # 0 => Agrees(files'[r.journal])
  BY DEF Kept, Agrees

LEMMA JournalOf ==
  ASSUME Typed, NEW r \in roots, r.journal # 0
  PROVE  r.journal \in Journals /\ files[r.journal] \in Directories
  <1>1. r.journal \in 0..LastJournal
    BY DEF Typed, Roots
  <1>2. r.journal \in Journals
    BY <1>1, BoundsAssumption DEF Journals
  <1> QED BY <1>2, LiveIs

\* The journals that a crash may bring back are left alone.
LEMMA KeptSame ==
  ASSUME Kept,
         \A r \in roots' : r.journal # 0 =>
           \E s \in roots : s.journal = r.journal /\ files'[r.journal] = files[r.journal]
  PROVE  Kept'
  BY KeptIs, KeptThen

\* Every step but the four that write to a journal or bring it back leaves the journals as
\* they are in every namespace.
Quiet == \/ Lease \/ FlushCreated \/ BeginCompaction \/ BeginRecovery \/ Replacement \/ Retirement
         \/ (\E chunks \in SUBSET Coords : BeginReplacement(chunks) \/ AcceptSnapshot(chunks))
         \/ Fail

LEMMA QuietJournals ==
  ASSUME OperationInv, Shared, Quiet
  PROVE  \A r \in roots' : r.journal # 0 =>
           \E s \in roots : s.journal = r.journal /\ files'[r.journal] = files[r.journal]
  <1>1. root \in roots
    BY DEF OperationInv, Typed
  <1>2. CASE Replacement
    <2>1. files' = files /\ \A r \in roots' : r \in roots \/ r.journal = root.journal
      BY <1>2, Replaced, RootsReplaced
    <2> QED BY <1>1, <2>1
  <1>3. CASE RemoveLeftover \/ DiscardJournal
    <2>1. roots' = roots \cup {root'} /\ root'.journal = root.journal
          /\ \A k \in Journals : k # root.compacted => files'[k] = files[k]
      BY <1>3, LeftoverRemoved
    <2>2. \A s \in roots : root.compacted # 0 => root.compacted # s.journal
      BY <1>1, <1>3 DEF Shared, RemoveLeftover, DiscardJournal
    <2>3. \A s \in roots : s.journal # 0 => s.journal \in Journals
      BY JournalOf DEF OperationInv
    <2> QED BY <1>1, <2>1, <2>2, <2>3
  <1>4. CASE RetireJournal
    <2>1. roots' = roots \cup {root'} /\ files' = files
      BY <1>4 DEF RetireJournal, Rename
    <2>2. root'.journal = 0
      BY <1>4, RetireJournalTyped
    <2> QED BY <2>1, <2>2
  <1>5. CASE Lease \/ FlushCreated \/ BeginCompaction \/ BeginRecovery \/ FlushRetired \/ FlushDiscarded
             \/ (\E chunks \in SUBSET Coords : BeginReplacement(chunks) \/ AcceptSnapshot(chunks))
             \/ Fail
    <2>1. files' = files /\ roots' \subseteq roots
      BY <1>1, <1>5 DEF Lease, OpenWriter, CloseWriter, OpenReader, CloseReader, FlushCreated,
           BeginCompaction, BeginRecovery, FlushRetired, FlushDiscarded, BeginReplacement,
           AcceptSnapshot, Fail, FlushRoot
    <2> QED BY <2>1
  <1> QED BY <1>2, <1>3, <1>4, <1>5 DEF Quiet, Retirement

LEMMA KeptKept ==
  ASSUME OperationInv, Shared, Kept, Next
  PROVE  Kept'
  <1>1. CASE Quiet
    BY <1>1, QuietJournals, KeptSame
  <1>2. ASSUME NEW w \in Writers, NEW c \in Coords, BeginWrite(w, c) PROVE Kept'
    <2>1. CASE UNCHANGED <<root, roots, files>>
      BY <2>1, KeptIs, KeptThen
    <2>2. CASE /\ roots' = roots \cup {root'} /\ root'.journal = Min(Unused) /\ Unused # {}
               /\ files' = [files EXCEPT ![Min(Unused)] = [live |-> NoEntries, stable |-> NoEntries]]
      <3>1. Min(Unused) \in Journals /\ \A r \in roots : r.journal # Min(Unused)
        BY <2>2, UnusedIs
      <3>2. files'[Min(Unused)] = [live |-> NoEntries, stable |-> NoEntries]
            /\ \A k \in Journals : k # Min(Unused) => files'[k] = files[k]
        BY <2>2, <3>1 DEF OperationInv, Typed
      <3>3. Agrees(files'[Min(Unused)])
        BY <3>2 DEF Agrees
      <3>4. \A r \in roots : r.journal # 0 => files'[r.journal] = files[r.journal]
        BY <3>1, <3>2, JournalOf DEF OperationInv
      <3> QED BY <2>2, <3>3, <3>4, KeptIs, KeptThen
    <2> QED BY <1>2, <2>1, <2>2, WriteBegun
  <1>3. CASE RenameEntry
    <2> DEFINE n == Pen.highest + 1
               j == root.journal
               x == <<local.coord, written>>
    <2>1. pc = "ready" /\ roots' = roots
      BY <1>3 DEF RenameEntry
    <2>2. files' \in [Journals -> Directories] /\ files'[j].stable = files[j].stable
          /\ files'[j].live = [LiveEntries EXCEPT ![n] = x]
      BY <1>3, EntryRenamed DEF OperationInv
    <2>3. j \in Journals /\ n \in Sequences /\ x \in Coords \X (1..LastValue)
          /\ LiveEntries = files[j].live /\ files[j] \in Directories
      BY <2>1, PenIs, LiveIs DEF OperationInv, Writing
    <2>4. LiveEntries[n] = NoEntry
      BY <2>1 DEF OperationInv, Penned
    <2>5. \A r \in roots : r.journal = j
      BY <2>1 DEF Shared
    <2>6. j # 0 /\ root \in roots
      BY <2>1 DEF OperationInv, Typed, Penned, Writing
    <2>7. Agrees(files[j])
      BY <2>6, KeptIs
    <2> HIDE DEF n, x, j
    <2> DEFINE d == files[j]
               f == files'[j]
    <2>8. d \in Directories /\ f \in Directories /\ f.live = [d.live EXCEPT ![n] = x]
          /\ f.stable = d.stable /\ d.live[n] = NoEntry /\ Agrees(d)
      BY <2>2, <2>3, <2>4, <2>7
    <2> HIDE DEF d, f
    <2>9. f.live \in Chosen(f)
      BY <2>8, LiveIsChosen
    <2>10. Agrees(f)
      BY <2>3, <2>8, <2>9, ChosenAfterRename
    <2> QED BY <2>1, <2>5, <2>10, KeptThen DEF f
  <1>4. CASE FlushEntry
    <2>1. roots' = roots /\ pc = "renamed"
      BY <1>4 DEF FlushEntry
    <2>2. \A i \in Journals : i # root.journal => files'[i] = files[i]
      BY <1>4, EntryFlushed DEF OperationInv
    <2>3. files'[root.journal].stable = files'[root.journal].live
      BY <1>4, EntryFlushed DEF OperationInv
    <2>4. Agrees(files'[root.journal])
      BY <2>3 DEF Agrees
    <2>5. \A r \in roots : r.journal = root.journal
      BY <2>1 DEF Shared
    <2> QED BY <2>1, <2>4, <2>5, KeptThen
  <1>5. CASE CompactSnapshot
    <2>1. roots' = {root'} /\ root'.journal = 0
      BY <1>5, CompactSnapshotTyped
    <2> QED BY <2>1, KeptThen
  <1>6. CASE Crash
    <2>1. PICK r \in roots : \E e \in Settled(r.journal) :
            /\ roots' = {r}
            /\ r.journal # 0 => files'[r.journal].live = e /\ files'[r.journal].stable = e
      BY <1>6, Crashed DEF OperationInv
    <2>2. r.journal # 0 => Agrees(files'[r.journal])
      BY <2>1 DEF Agrees
    <2> QED BY <2>1, <2>2, KeptThen
  <1> QED BY <1>1, <1>2, <1>3, <1>4, <1>5, <1>6 DEF Next, Write, Quiet

--------------------------------------------------------------------------------
(* What a crash may show *)

LEMMA SettledThen ==
  ASSUME NEW i
  PROVE  Settled(i)' = IF i = 0 THEN {NoEntries} ELSE Chosen(files'[i])
  BY DEF Settled, Chosen

LEMMA ForeseenSame ==
  ASSUME Foreseen, pending' = pending, possible \subseteq possible',
         \A r \in roots' : \E s \in roots :
           /\ Base(r) = Base(s) /\ r.journal = s.journal
           /\ r.journal # 0 => files'[r.journal] = files[r.journal]
  PROVE  Foreseen'
  <1>1. CASE pending # NoTable
    BY <1>1 DEF Foreseen
  <1>2. CASE pending = NoTable
    <2> SUFFICES ASSUME NEW r \in roots', NEW e \in Settled(r.journal)'
                 PROVE  Overlay(Base(r), e) \in possible'
      BY <1>2 DEF Foreseen
    <2>1. PICK s \in roots : /\ Base(r) = Base(s) /\ r.journal = s.journal
                             /\ r.journal # 0 => files'[r.journal] = files[r.journal]
      OBVIOUS
    <2>2. e \in IF r.journal = 0 THEN {NoEntries} ELSE Chosen(files'[r.journal])
      BY SettledThen
    <2>3. e \in Settled(s.journal)
      BY <2>1, <2>2, SettledIs
    <2>4. Overlay(Base(s), e) \in possible
      BY <1>2, <2>3 DEF Foreseen
    <2> QED BY <2>1, <2>4
  <1> QED BY <1>1, <1>2

\* Quiet steps but two leave the base tables as they are too.
LEMMA QuietRoots ==
  ASSUME OperationInv, Shared, Quiet, ~PromoteTable, ~RetireJournal
  PROVE  \A r \in roots' : \E s \in roots :
           /\ Base(r) = Base(s) /\ r.journal = s.journal
           /\ r.journal # 0 => files'[r.journal] = files[r.journal]
  <1>1. root \in roots
    BY DEF OperationInv, Typed
  <1>2. \A r \in roots' : r.journal # 0 => files'[r.journal] = files[r.journal]
    BY QuietJournals
  <1>3. CASE Replacement
    <2>1. \A r \in roots' : r \in roots \/ (r.journal = root.journal /\ Base(r) = Base(root))
      BY <1>3, RootsReplaced
    <2> QED BY <1>1, <1>2, <2>1
  <1>4. CASE RemoveLeftover \/ DiscardJournal
    <2>1. roots' = roots \cup {root'} /\ root'.journal = root.journal /\ Base(root') = Base(root)
      BY <1>4, LeftoverRemoved
    <2> QED BY <1>1, <1>2, <2>1
  <1>5. CASE Lease \/ FlushCreated \/ BeginCompaction \/ BeginRecovery \/ FlushRetired \/ FlushDiscarded
             \/ (\E chunks \in SUBSET Coords : BeginReplacement(chunks) \/ AcceptSnapshot(chunks))
             \/ Fail
    <2>1. files' = files /\ roots' \subseteq roots
      BY <1>1, <1>5 DEF Lease, OpenWriter, CloseWriter, OpenReader, CloseReader, FlushCreated,
           BeginCompaction, BeginRecovery, FlushRetired, FlushDiscarded, BeginReplacement,
           AcceptSnapshot, Fail, FlushRoot
    <2> QED BY <1>2, <2>1
  <1> QED BY <1>3, <1>4, <1>5 DEF Quiet, Retirement

\* What readers see is one of the outcomes of a crash.
LEMMA MergedIsForeseen ==
  ASSUME OperationInv, Foreseen, pending = NoTable
  PROVE  Merged \in possible
  <1>1. root \in roots
    BY DEF OperationInv, Typed
  <1>2. LiveEntries \in Settled(root.journal)
    <2>1. CASE root.journal = 0
      BY <2>1, SettledIs, LiveIs DEF OperationInv
    <2>2. CASE root.journal # 0
      <3>1. files[root.journal] \in Directories /\ LiveEntries = files[root.journal].live
        BY <2>2, LiveIs DEF OperationInv
      <3> QED BY <2>2, <3>1, LiveIsChosen, SettledIs
    <2> QED BY <2>1, <2>2
  <1> QED BY <1>1, <1>2 DEF Foreseen, Merged

LEMMA CreatedForeseen ==
  ASSUME OperationInv, Shared, Foreseen, NEW w \in Writers, NEW c \in Coords, BeginWrite(w, c)
  PROVE  /\ Foreseen'
         /\ \A r \in roots' : \A e \in Settled(r.journal)' : Overlay(Base(r), e) \in possible
  <1>1. pc = "idle" /\ pending = NoTable /\ pending' = NoTable /\ possible \subseteq possible'
    BY DEF BeginWrite, MayWrite, Snapshots
  <1>2. \A r \in roots : r.journal = root.journal
    BY <1>1 DEF Shared
  <1>3. root \in roots
    BY DEF OperationInv, Typed
  <1>4. \A r \in roots : \A e \in Settled(r.journal) : Overlay(Base(r), e) \in possible
    BY <1>1 DEF Foreseen
  <1>5. \A r \in roots' : \A e \in Settled(r.journal)' : Overlay(Base(r), e) \in possible
    <2> SUFFICES ASSUME NEW r \in roots', NEW e \in Settled(r.journal)'
                 PROVE  Overlay(Base(r), e) \in possible
      OBVIOUS
    <2>1. e \in IF r.journal = 0 THEN {NoEntries} ELSE Chosen(files'[r.journal])
      BY SettledThen
    <2>2. CASE UNCHANGED <<root, roots, files>>
      <3>1. e \in Settled(r.journal)
        BY <2>1, <2>2, SettledIs
      <3> QED BY <1>4, <2>2, <3>1
    <2>3. CASE /\ root.journal = 0 /\ roots' = roots \cup {root'} /\ Unused # {}
               /\ root'.journal = Min(Unused)
               /\ files' = [files EXCEPT ![Min(Unused)] = [live |-> NoEntries, stable |-> NoEntries]]
      <3>1. CASE r \in roots
        <4>1. r.journal = 0
          BY <1>2, <2>3, <3>1
        <4>2. e \in Settled(r.journal)
          BY <2>1, <4>1, SettledIs
        <4> QED BY <1>4, <3>1, <4>2
      <3>2. CASE r = root'
        <4>1. Base(r) = Base(root)
          BY <3>2, WriteBegun
        <4>2. Min(Unused) \in Journals /\ Min(Unused) # 0
          BY <2>3, UnusedIs
        <4>3. files'[Min(Unused)] = [live |-> NoEntries, stable |-> NoEntries]
          BY <2>3, <4>2 DEF OperationInv, Typed
        <4>4. files'[Min(Unused)] \in Directories /\ files'[Min(Unused)].live = NoEntries
              /\ files'[Min(Unused)].stable = NoEntries
          BY <4>3, EmptyIsEntries DEF Directories
        <4>5. e \in Chosen(files'[Min(Unused)])
          BY <2>1, <2>3, <3>2, <4>2
        <4>6. e = NoEntries
          BY <4>4, <4>5, ChosenIsLive
        <4>7. e \in Settled(root.journal)
          BY <2>3, <4>6, SettledIs
        <4> QED BY <1>3, <1>4, <4>1, <4>7
      <3> QED BY <2>3, <3>1, <3>2
    <2> QED BY <2>2, <2>3, WriteBegun
  <1>6. Foreseen'
    BY <1>1, <1>5 DEF Foreseen
  <1> QED BY <1>5, <1>6

LEMMA EntryForeseen ==
  ASSUME OperationInv, Shared, Kept, Foreseen, Attempted, RenameEntry
  PROVE  Foreseen'
  <1> DEFINE n == Pen.highest + 1
             j == root.journal
             x == <<local.coord, written>>
             d == files[j]
             f == files'[j]
  <1>1. pc = "ready" /\ roots' = roots /\ pending' = pending /\ possible' = possible
    BY DEF RenameEntry, Snapshots, History
  <1>2. pending = NoTable
    BY <1>1 DEF OperationInv, Locked
  <1>3. f \in Directories /\ f.stable = d.stable /\ f.live = [LiveEntries EXCEPT ![n] = x]
    BY <1>1, EntryRenamed, PenIs DEF OperationInv, Writing
  <1>4. j \in Journals /\ n \in Sequences /\ x \in Coords \X (1..LastValue)
        /\ LiveEntries = d.live /\ d \in Directories
    BY <1>1, PenIs, LiveIs DEF OperationInv, Writing
  <1>5. d.live[n] = NoEntry
    BY <1>1, <1>4 DEF OperationInv, Penned
  <1>6. \A r \in roots : r.journal = j
    BY <1>1 DEF Shared
  <1>7. j # 0 /\ root \in roots /\ local.coord \in Coords /\ written \in 1..LastValue
    BY <1>1 DEF OperationInv, Typed, Penned, Writing
  <1>8. Agrees(d)
    BY <1>7, KeptIs
  <1>9. \A m \in Present(d.live) : m < n
    BY <1>1, <1>4, NothingBehind
  <1>10. \A r \in roots : \A e \in Chosen(d) :
           /\ Overlay(Base(r), e) \in possible
           /\ [Overlay(Base(r), e) EXCEPT ![local.coord] = written] \in possible
    <2>1. \A e \in Chosen(d) : e \in Settled(j)
      BY <1>7, SettledIs
    <2> QED BY <1>1, <1>2, <1>6, <2>1 DEF Foreseen, Attempted
  <1> SUFFICES ASSUME NEW r \in roots, NEW e \in Settled(r.journal)'
               PROVE  Overlay(Base(r), e) \in possible
    BY <1>1, <1>2 DEF Foreseen
  <1>11. e \in Chosen(f)
    <2>1. r.journal = j /\ r.journal # 0
      BY <1>6, <1>7
    <2>2. e \in Chosen(files'[r.journal])
      BY <2>1, SettledThen
    <2> QED BY <2>1, <2>2
  <1>12. Base(r) \in Tables
    BY BaseIs DEF OperationInv, Typed
  <1> HIDE DEF n, j, d, f
  <1>13. CASE e \in Chosen(d)
    BY <1>10, <1>13
  <1>14. CASE e \notin Chosen(d)
    <2>1. f.live = [d.live EXCEPT ![n] = x]
      BY <1>3, <1>4
    <2>2. PICK g \in Chosen(d) : e = [g EXCEPT ![n] = x]
      BY <1>3, <1>4, <1>5, <1>8, <1>11, <1>14, <2>1, ChosenAfterRename
    <2>3. g \in Entries
      BY <1>4, ChosenIs
    <2>4. \A m \in Present(g) : m < n
      <3> SUFFICES ASSUME NEW m \in Present(g) PROVE m < n
        OBVIOUS
      <3>1. m \in Sequences /\ g[m] # NoEntry
        BY DEF Present
      <3>2. g[m] = d.live[m]
        BY <1>4, <1>8, <3>1, ChosenIsSeen
      <3> QED BY <1>9, <3>1, <3>2 DEF Present
    <2>5. Overlay(Base(r), [g EXCEPT ![n] = <<local.coord, written>>])
            = [Overlay(Base(r), g) EXCEPT ![local.coord] = written]
      BY <1>4, <1>7, <1>12, <2>3, <2>4, OverlayAbove
    <2> QED BY <1>10, <2>2, <2>5
  <1> QED BY <1>13, <1>14

LEMMA AcknowledgedForeseen ==
  ASSUME OperationInv, Shared, Foreseen, FlushEntry
  PROVE  Foreseen'
  <1> DEFINE n == Pen.highest + 1
             j == root.journal
             live == files[j].live
             f == files'[j]
  <1>1. pc = "renamed" /\ roots' = roots /\ pending' = pending
        /\ possible' = {t \in possible : t[local.coord] = written}
    BY DEF FlushEntry, Snapshots, Acknowledged
  <1>2. pending = NoTable
    BY <1>1 DEF OperationInv, Locked
  <1>3. j \in Journals /\ n \in Sequences /\ LiveEntries = live /\ files[j] \in Directories
        /\ <<local.coord, written>> \in Coords \X (1..LastValue)
    BY <1>1, PenIs, LiveIs DEF OperationInv, Writing
  <1>4. f \in Directories /\ f.stable = live /\ f.live = live
    BY <1>3, EntryFlushed DEF OperationInv
  <1>5. live[n] = <<local.coord, written>> /\ \A m \in Present(live) : m <= n
    BY <1>1, <1>3 DEF OperationInv, Penned
  <1>6. j # 0 /\ local.coord \in Coords /\ \A r \in roots : r.journal = j
    BY <1>1 DEF OperationInv, Penned, Writing, Shared
  <1> SUFFICES ASSUME NEW r \in roots, NEW e \in Settled(r.journal)'
               PROVE  Overlay(Base(r), e) \in possible /\ Overlay(Base(r), e)[local.coord] = written
    BY <1>1, <1>2 DEF Foreseen
  <1>7. e = live
    <2>1. r.journal = j /\ r.journal # 0
      BY <1>6
    <2>2. e \in Chosen(files'[r.journal])
      BY <2>1, SettledThen
    <2>3. e \in Chosen(f)
      BY <2>1, <2>2
    <2> HIDE DEF f, live
    <2> QED BY <1>4, <2>3, ChosenIsLive
  <1>8. live \in Chosen(files[j])
    BY <1>3, LiveIsChosen
  <1>9. live \in Settled(j)
    BY <1>6, <1>8, SettledIs
  <1>10. Overlay(Base(r), live) \in possible
    BY <1>2, <1>6, <1>9 DEF Foreseen
  <1>16. <<local.coord, written>> # NoEntry /\ <<local.coord, written>>[1] = local.coord
    BY <1>3, EmptyIsEntries, EntryIs
  <1> HIDE DEF n, j, live, f
  <1> DEFINE c == local.coord
             last == Latest(c, live)
  <1>11. n \in EntriesOf(c, live)
    BY <1>3, <1>5, <1>16 DEF EntriesOf
  <1>12. last \in EntriesOf(c, live) /\ Overlay(Base(r), live)[c] = live[last][2] /\ n <= last
    BY <1>6, <1>11, OverlayAtLatest, LatestIs
  <1>13. last <= n /\ last \in Int
    BY <1>5, <1>12 DEF EntriesOf, Present, Sequences
  <1>14. n \in Int
    BY <1>3 DEF Sequences
  <1> HIDE DEF last
  <1>15. last = n
    BY <1>12, <1>13, <1>14
  <1> QED BY <1>5, <1>7, <1>10, <1>12, <1>15

\* The checkpoint or the replacement takes the base table's name.
LEMMA PromotedForeseen ==
  ASSUME OperationInv, Kept, Foreseen, Attempted, PromoteTable
  PROVE  Foreseen'
  <1> DEFINE j == root.journal
             d == files[j]
  <1>1. pc = "promote" /\ pending = NoTable /\ pending' = NoTable /\ possible' = possible /\ files' = files
    BY DEF PromoteTable, OperationInv, Locked, Snapshots, History
  <1>2. roots = {root} /\ roots' = {root, root'}
    BY RootsReplaced DEF Replacement
  <1>3. Base(root') = local.table /\ local.table \in Tables
    BY PromoteTableTyped
  <1>4. root'.journal = j /\ root \in roots
    BY Replaced DEF Replacement, OperationInv, Typed
  <1>5. \A e \in Settled(j) : Overlay(Base(root), e) \in possible
    BY <1>1, <1>4 DEF Foreseen
  <1>6. j # 0 => d \in Directories /\ Agrees(d) /\ LiveEntries = d.live
    BY <1>4, LiveIs, KeptIs DEF OperationInv
  <1>7. ASSUME NEW e \in Settled(j) PROVE Overlay(local.table, e) \in possible
    <2>1. CASE local.bulk
      <3>1. LiveEntries = NoEntries /\ local.table \in possible
        BY <2>1 DEF Attempted
      <3>2. j = 0 => e = NoEntries
        BY <1>7, SettledIs
      <3>3. j # 0 => e = NoEntries
        <4> SUFFICES ASSUME j # 0 PROVE e = NoEntries
          OBVIOUS
        <4>1. e \in Chosen(d)
          BY <1>7, SettledIs
        <4> HIDE DEF d, j
        <4> QED BY <1>6, <3>1, <4>1, ChosenOfNothing
      <3>4. Overlay(local.table, NoEntries) = local.table
        BY <1>3, OverlayOfNothing
      <3> QED BY <3>1, <3>2, <3>3, <3>4
    <2>2. CASE ~local.bulk
      <3>1. local.table = Overlay(Base(root), LiveEntries)
        BY <1>1, <2>2 DEF OperationInv, Placed, Replacing, Merged
      <3>2. CASE j = 0
        <4>1. e = NoEntries /\ LiveEntries = NoEntries
          BY <1>7, <3>2, SettledIs, LiveIs DEF OperationInv
        <4>2. Overlay(local.table, e) = local.table
          BY <1>3, <4>1, OverlayOfNothing
        <4> QED BY <1>5, <1>7, <3>1, <4>1, <4>2
      <3>3. CASE j # 0
        <4>1. e \in Chosen(d)
          BY <1>7, <3>3, SettledIs
        <4>2. Base(root) \in Tables
          BY LiveIs DEF OperationInv
        <4>3. \A g \in Chosen(d) : Overlay(Base(root), g) \in possible
          BY <1>5, <3>3, SettledIs
        <4> HIDE DEF d, j
        <4>4. PICK g \in Chosen(d) : Overlay(Overlay(Base(root), d.live), e) = Overlay(Base(root), g)
          BY <1>6, <3>3, <4>1, <4>2, CheckpointIsForeseen
        <4> QED BY <1>6, <3>1, <3>3, <4>3, <4>4
      <3> QED BY <3>2, <3>3
    <2> QED BY <2>1, <2>2
  <1> SUFFICES ASSUME NEW r \in {root, root'}, NEW e \in Settled(r.journal)'
               PROVE  Overlay(Base(r), e) \in possible
    BY <1>1, <1>2 DEF Foreseen
  <1>8. r.journal = j
    BY <1>4
  <1>9. e \in IF r.journal = 0 THEN {NoEntries} ELSE Chosen(files'[r.journal])
    BY SettledThen
  <1>10. e \in Settled(j)
    BY <1>1, <1>8, <1>9, SettledIs
  <1> QED BY <1>3, <1>5, <1>7, <1>10

LEMMA RetiredForeseen ==
  ASSUME OperationInv, Foreseen, RetireJournal
  PROVE  Foreseen'
  <1>1. pc = "retire" /\ pending = NoTable /\ pending' = NoTable /\ possible' = possible /\ files' = files
        /\ roots' = roots \cup {root'}
    BY DEF RetireJournal, OperationInv, Locked, Snapshots, History, Rename
  <1>2. root'.journal = 0 /\ Base(root') = Base(root) /\ Base(root) \in Tables
    BY RetireJournalTyped, LiveIs DEF OperationInv
  <1>3. Merged = Base(root)
    <2>1. ~local.bulk /\ root \in Roots
      BY <1>1 DEF OperationInv, Locked, Typed, Replacing
    <2>2. root.base = Merged /\ root.base \in Tables
      BY <1>1, <2>1 DEF OperationInv, Placed
    <2> QED BY <2>2, KindsDiffer DEF Base
  <1>4. Base(root') \in possible
    BY <1>1, <1>2, <1>3, MergedIsForeseen
  <1> SUFFICES ASSUME NEW r \in roots', NEW e \in Settled(r.journal)'
               PROVE  Overlay(Base(r), e) \in possible
    BY <1>1 DEF Foreseen
  <1>5. e \in IF r.journal = 0 THEN {NoEntries} ELSE Chosen(files'[r.journal])
    BY SettledThen
  <1>6. CASE r \in roots
    <2>1. e \in Settled(r.journal)
      BY <1>1, <1>5, SettledIs
    <2> QED BY <1>1, <1>6, <2>1 DEF Foreseen
  <1>7. CASE r = root'
    <2>1. e = NoEntries
      BY <1>2, <1>5, <1>7
    <2>2. Overlay(Base(r), e) = Base(r)
      BY <1>2, <1>7, <2>1, OverlayOfNothing
    <2> QED BY <1>4, <1>7, <2>2
  <1> QED BY <1>1, <1>6, <1>7

\* A replacement that is reported has nothing beside it.
LEMMA CleanedForeseen ==
  ASSUME OperationInv, Kept, Attempted, CleanUp, local.bulk
  PROVE  Foreseen'
  <1>1. pc = "cleanup" /\ pending = NoTable /\ pending' = NoTable /\ possible' = {local.table}
        /\ files' = files
    BY DEF CleanUp, OperationInv, Locked, Snapshots
  <1>2. root \in roots /\ local.table \in Tables
        /\ \A r \in roots' : r.journal = root.journal /\ Base(r) = local.table
    BY CleanedUp DEF OperationInv, Typed
  <1>3. LiveEntries = NoEntries
    BY DEF Attempted
  <1> SUFFICES ASSUME NEW r \in roots', NEW e \in Settled(r.journal)'
               PROVE  Overlay(Base(r), e) = local.table
    BY <1>1 DEF Foreseen
  <1>4. e \in IF r.journal = 0 THEN {NoEntries} ELSE Chosen(files'[r.journal])
    BY SettledThen
  <1>5. r.journal = root.journal
    BY <1>2
  <1>6. CASE r.journal # 0
    <2>1. files[root.journal] \in Directories /\ LiveEntries = files[root.journal].live
          /\ Agrees(files[root.journal])
      BY <1>2, <1>5, <1>6, LiveIs, KeptIs DEF OperationInv
    <2>2. e \in Chosen(files[root.journal])
      BY <1>1, <1>4, <1>5, <1>6
    <2>3. e = NoEntries
      BY <1>3, <2>1, <2>2, ChosenOfNothing
    <2> QED BY <1>2, <2>3, OverlayOfNothing
  <1>7. CASE r.journal = 0
    <2>1. e = NoEntries
      BY <1>4, <1>7
    <2> QED BY <1>2, <2>1, OverlayOfNothing
  <1> QED BY <1>6, <1>7

LEMMA CompactedForeseen ==
  ASSUME OperationInv, Foreseen, CompactSnapshot
  PROVE  Foreseen'
  <1>1. roots' = {root'} /\ Base(root') = pending /\ root'.journal = 0 /\ pending \in Tables
    BY CompactSnapshotTyped
  <1>2. pending # NoTable /\ pending' = NoTable /\ possible' = possible
    BY DEF CompactSnapshot, History
  <1>3. pending \in possible
    BY <1>2 DEF Foreseen
  <1> SUFFICES ASSUME NEW r \in roots', NEW e \in Settled(r.journal)'
               PROVE  Overlay(Base(r), e) \in possible
    BY <1>2 DEF Foreseen
  <1>4. r = root'
    BY <1>1
  <1>5. e = NoEntries
    BY <1>1, <1>4, SettledThen
  <1> QED BY <1>1, <1>3, <1>4, <1>5, OverlayOfNothing

LEMMA CrashForeseen ==
  ASSUME OperationInv, Foreseen, Crash
  PROVE  Foreseen'
  <1>1. PICK s \in roots : \E e \in Settled(s.journal) :
           /\ root' = s /\ roots' = {s} /\ e \in Entries
           /\ files' \in [Journals -> Directories]
           /\ s.journal # 0 => s.journal \in Journals /\ files'[s.journal].live = e
                               /\ files'[s.journal].stable = e
           /\ possible' = {IF pending # NoTable THEN pending ELSE Overlay(Base(s), e)}
           /\ s.journal = 0 => e = NoEntries
    BY Crashed DEF OperationInv
  <1>2. PICK e \in Settled(s.journal) :
           /\ root' = s /\ roots' = {s} /\ e \in Entries
           /\ files' \in [Journals -> Directories]
           /\ s.journal # 0 => s.journal \in Journals /\ files'[s.journal].live = e
                               /\ files'[s.journal].stable = e
           /\ possible' = {IF pending # NoTable THEN pending ELSE Overlay(Base(s), e)}
           /\ s.journal = 0 => e = NoEntries
    BY <1>1
  <1>3. pending' = pending
    BY DEF Crash, Snapshots
  <1>4. CASE pending # NoTable
    BY <1>2, <1>3, <1>4 DEF Foreseen
  <1>5. CASE pending = NoTable
    <2> SUFFICES ASSUME NEW g \in Settled(s.journal)' PROVE g = e
      BY <1>2, <1>3, <1>5 DEF Foreseen
    <2>1. g \in IF s.journal = 0 THEN {NoEntries} ELSE Chosen(files'[s.journal])
      BY SettledThen
    <2>2. CASE s.journal = 0
      BY <1>2, <2>1, <2>2
    <2>3. CASE s.journal # 0
      <3>1. files'[s.journal] \in Directories /\ files'[s.journal].live = e
            /\ files'[s.journal].stable = e /\ g \in Chosen(files'[s.journal])
        BY <1>2, <2>1, <2>3
      <3> QED BY <3>1, ChosenIsLive
    <2> QED BY <2>2, <2>3
  <1> QED BY <1>4, <1>5

LEMMA ForeseenKept ==
  ASSUME OperationInv, Shared, Kept, Foreseen, Attempted, Next
  PROVE  Foreseen'
  <1>1. CASE Quiet /\ ~PromoteTable /\ ~RetireJournal /\ ~(CleanUp /\ local.bulk)
             /\ ~(\E chunks \in SUBSET Coords : AcceptSnapshot(chunks))
    <2>1. pending' = pending /\ possible \subseteq possible'
      <3>1. CASE Lease \/ FlushCreated \/ BeginCompaction \/ BeginRecovery \/ Fail
        BY <3>1 DEF Lease, OpenWriter, CloseWriter, OpenReader, CloseReader, FlushCreated,
           BeginCompaction, BeginRecovery, Fail, Snapshots, History
      <3>2. CASE \E chunks \in SUBSET Coords : BeginReplacement(chunks)
        BY <3>2 DEF BeginReplacement, Snapshots
      <3>3. CASE Replacement
        BY <1>1, <3>3 DEF Replacement, StageTable, RestoreBackup, FlushRestored, RemoveOldBackup,
           DisplaceTable, FlushDisplaced, RollBack, FlushPromoted, CleanUp, Snapshots, History
      <3>4. CASE Retirement
        BY <3>4, Retired
      <3> QED BY <1>1, <3>1, <3>2, <3>3, <3>4 DEF Quiet
    <2> QED BY <1>1, <2>1, QuietRoots, ForeseenSame
  <1>2. CASE \E chunks \in SUBSET Coords : AcceptSnapshot(chunks)
    <2>1. pending' # NoTable
      BY <1>2, AcceptSnapshotTyped
    <2>2. possible' = {pending'}
      BY <1>2 DEF AcceptSnapshot
    <2> QED BY <2>1, <2>2 DEF Foreseen
  <1>3. CASE Write
    <2>1. FlushCreated => ~PromoteTable /\ ~RetireJournal /\ ~CleanUp
                          /\ ~(\E chunks \in SUBSET Coords : AcceptSnapshot(chunks))
      BY DEF FlushCreated, PromoteTable, RetireJournal, CleanUp, AcceptSnapshot
    <2> QED BY <1>1, <1>3, <2>1, CreatedForeseen, EntryForeseen, AcknowledgedForeseen DEF Write, Quiet
  <1>4. CASE PromoteTable \/ RetireJournal \/ (CleanUp /\ local.bulk) \/ CompactSnapshot \/ Crash
    BY <1>4, PromotedForeseen, RetiredForeseen, CleanedForeseen, CompactedForeseen, CrashForeseen
  <1> QED BY <1>1, <1>2, <1>3, <1>4 DEF Next, Quiet

--------------------------------------------------------------------------------
(* What the operation at work is about to show *)

\* The entry a writer is about to rename: its value may be shown from the first step on.
LEMMA EntryAttempted ==
  ASSUME OperationInv, Shared, Foreseen, Attempted, Next, pc' \in {"created", "ready"}
  PROVE  \A r \in roots' : \A e \in Settled(r.journal)' :
           [Overlay(Base(r), e) EXCEPT ![local'.coord] = written'] \in possible'
  <1> SUFFICES ASSUME NEW r \in roots', NEW e \in Settled(r.journal)'
               PROVE  [Overlay(Base(r), e) EXCEPT ![local'.coord] = written'] \in possible'
    OBVIOUS
  <1>1. CASE Lease \/ FlushCreated
    <2>1. files' = files /\ roots' \subseteq roots /\ UNCHANGED <<local, written, possible>>
          /\ pc \in {"created", "ready"}
      BY <1>1 DEF Lease, OpenWriter, CloseWriter, OpenReader, CloseReader, FlushCreated, FlushRoot,
                  Goto, History, OperationInv, Typed
    <2>2. e \in IF r.journal = 0 THEN {NoEntries} ELSE Chosen(files'[r.journal])
      BY SettledThen
    <2>3. e \in Settled(r.journal)
      BY <2>1, <2>2, SettledIs
    <2> QED BY <2>1, <2>3 DEF Attempted
  <1>2. ASSUME NEW w \in Writers, NEW c \in Coords, BeginWrite(w, c)
        PROVE  [Overlay(Base(r), e) EXCEPT ![local'.coord] = written'] \in possible'
    <2>1. Overlay(Base(r), e) \in possible
      BY <1>2, CreatedForeseen
    <2>2. local'.coord = c /\ written' = written + 1
          /\ possible' = possible \cup {[t EXCEPT ![c] = written + 1] : t \in possible}
      BY <1>2 DEF BeginWrite, NoLocal
    <2> QED BY <2>1, <2>2
  <1>3. CASE Replacement \/ Retirement
    BY <1>3 DEF Replacement, StageTable, RestoreBackup, FlushRestored, RemoveOldBackup,
       DisplaceTable, FlushDisplaced, PromoteTable, RollBack, FlushPromoted, CleanUp,
       Retirement, RemoveLeftover, RetireJournal, FlushRetired, DiscardJournal,
       FlushDiscarded, Goto, Finish
  <1>4. CASE RenameEntry \/ FlushEntry \/ BeginCompaction \/ BeginRecovery \/ CompactSnapshot
             \/ Fail \/ Crash
             \/ \E chunks \in SUBSET Coords : BeginReplacement(chunks) \/ AcceptSnapshot(chunks)
    BY <1>4 DEF RenameEntry, FlushEntry, BeginCompaction, BeginRecovery, CompactSnapshot, Fail,
       Crash, BeginReplacement, AcceptSnapshot, Goto, Finish
  <1> QED BY <1>1, <1>2, <1>3, <1>4 DEF Next, Write

\* The table a replacement is about to promote, and the one that waits for the checkpoint.
LEMMA TableAttempted ==
  ASSUME OperationInv, Attempted, Next
  PROVE  /\ local'.bulk => local'.table \in possible' /\ LiveEntries' = NoEntries
         /\ local'.next # NoTable => local'.next \in possible'
         /\ local'.next # NoTable /\ pc' \in {"retired", "discard", "discarded"} => root'.journal = 0
  <1>1. Locked'
    BY LockedKept
  <1>2. CASE pc' = "idle"
    BY <1>1, <1>2, NoLocalIs DEF Locked
  <1>3. CASE Lease
    <2>1. root' = root /\ files' = files /\ UNCHANGED <<pc, local, possible>>
      BY <1>3 DEF Lease, OpenWriter, CloseWriter, OpenReader, CloseReader, History
    <2>2. LiveEntries' = LiveEntries
      BY <2>1, SameRoot
    <2> QED BY <2>1, <2>2 DEF Attempted
  <1>4. CASE BeginCompaction \/ BeginRecovery \/ \E w \in Writers, c \in Coords : BeginWrite(w, c)
    <2>1. local'.bulk = FALSE /\ local'.next = NoTable
      BY <1>4, NoLocalIs DEF BeginCompaction, BeginRecovery, BeginWrite, NoLocal, OperationInv, Locked
    <2> QED BY <2>1
  <1>5. CASE FlushCreated \/ RenameEntry
    <2>1. UNCHANGED <<local, possible>> /\ pc' \in {"ready", "renamed"}
      BY <1>5 DEF FlushCreated, RenameEntry, Goto, History
    <2>2. ~local'.bulk
      BY <1>1, <2>1 DEF Locked, Replacing
    <2> QED BY <2>1, <2>2 DEF Attempted
  <1>6. ASSUME NEW chunks \in SUBSET Coords, BeginReplacement(chunks)
        PROVE  /\ local'.bulk => local'.table \in possible' /\ LiveEntries' = NoEntries
               /\ local'.next # NoTable => local'.next \in possible'
               /\ pc' \notin {"retired", "discard", "discarded"}
    <2>1. PICK table \in Tables \ {NoTable} :
           /\ possible' = possible \cup {table}
           /\ local' = IF Present(LiveEntries) = {}
                       THEN [NoLocal EXCEPT !.table = table, !.bulk = TRUE]
                       ELSE [NoLocal EXCEPT !.table = Merged, !.next = table]
      BY <1>6, ReplacementBegun DEF OperationInv
    <2>2. root' = root /\ files' = files /\ pc' = "stage"
      BY <1>6 DEF BeginReplacement, Goto
    <2>3. LiveEntries' = LiveEntries /\ LiveEntries \in Entries
      BY <2>2, SameRoot, LiveIs DEF OperationInv
    <2>4. CASE Present(LiveEntries) = {}
      <3>1. local'.bulk = TRUE /\ local'.table = table /\ local'.next = NoTable
        BY <2>1, <2>4 DEF NoLocal
      <3>2. \A n \in Sequences : LiveEntries[n] = NoEntry
        BY <2>4 DEF Present
      <3>3. LiveEntries = NoEntries
        BY <2>3, <3>2 DEF Entries, NoEntries
      <3> QED BY <2>1, <2>2, <2>3, <3>1, <3>3
    <2>5. CASE Present(LiveEntries) # {}
      <3>1. local'.bulk = FALSE /\ local'.next = table
        BY <2>1, <2>5 DEF NoLocal
      <3> QED BY <2>1, <2>2, <3>1
    <2> QED BY <2>4, <2>5
  <1>7. CASE Replacement /\ pc' # "idle"
    <2>1. local' = local /\ possible' = possible /\ pc' \notin {"retired", "discard", "discarded"}
      BY <1>7 DEF Replacement, StageTable, RestoreBackup, FlushRestored, RemoveOldBackup,
         DisplaceTable, FlushDisplaced, PromoteTable, RollBack, FlushPromoted, CleanUp, Goto, Finish,
         History
    <2>2. LiveEntries' = LiveEntries
      BY <1>7, Replaced
    <2> QED BY <2>1, <2>2 DEF Attempted
  <1>8. CASE RemoveLeftover \/ DiscardJournal
    <2>1. UNCHANGED <<local, possible>> /\ root'.journal = root.journal /\ LiveEntries' = LiveEntries
      BY <1>8, LeftoverRemoved DEF RemoveLeftover, DiscardJournal, History
    <2>2. pc' \in {"retired", "discard", "discarded"} => pc \in {"retired", "discard", "discarded"}
      BY <1>8 DEF RemoveLeftover, DiscardJournal
    <2> QED BY <2>1, <2>2 DEF Attempted
  <1>9. CASE RetireJournal
    <2>1. UNCHANGED <<local, possible>> /\ root'.journal = 0 /\ LiveEntries' = NoEntries
      BY <1>9, RetireJournalTyped DEF RetireJournal, History
    <2> QED BY <2>1 DEF Attempted
  <1>10. CASE FlushRetired
    <2>1. UNCHANGED <<local, possible>> /\ root' = root /\ files' = files /\ pc = "retired"
      BY <1>10 DEF FlushRetired, FlushRoot, History
    <2>2. LiveEntries' = LiveEntries
      BY <2>1, SameRoot
    <2> QED BY <2>1, <2>2 DEF Attempted
  <1>11. CASE FlushDiscarded /\ pc' # "idle"
    <2>1. /\ local.next # NoTable /\ local'.table = local.next /\ local'.next = NoTable
          /\ possible' = possible /\ root' = root /\ files' = files /\ pc = "discarded"
      BY <1>11 DEF FlushDiscarded, FlushRoot, Goto, Finish, NoLocal, History
    <2>2. root.journal = 0 /\ local.next \in possible
      BY <2>1 DEF Attempted
    <2>3. LiveEntries' = LiveEntries /\ LiveEntries = NoEntries
      BY <2>1, <2>2, SameRoot, LiveIs DEF OperationInv
    <2> QED BY <2>1, <2>2, <2>3
  <1>12. CASE FlushEntry \/ CompactSnapshot \/ Fail \/ Crash
             \/ \E chunks \in SUBSET Coords : AcceptSnapshot(chunks)
    <2>1. pc' = "idle"
      BY <1>12 DEF FlushEntry, CompactSnapshot, Fail, Crash, AcceptSnapshot, Finish
    <2> QED BY <1>2, <2>1
  <1>13. CASE Write
    BY <1>4, <1>5, <1>12, <1>13 DEF Write
  <1>14. CASE Retirement
    BY <1>2, <1>8, <1>9, <1>10, <1>11, <1>14 DEF Retirement
  <1> QED BY <1>2, <1>3, <1>4, <1>6, <1>7, <1>12, <1>13, <1>14 DEF Next

LEMMA CrashKept ==
  ASSUME Reliable, OperationInv, CrashInv, Next
  PROVE  CrashInv'
  <1>1. Shared /\ Kept /\ Foreseen /\ Attempted
    BY DEF CrashInv
  <1>2. Shared' /\ Kept' /\ Foreseen'
    BY <1>1, SharedKept, KeptKept, ForeseenKept
  <1>3. Attempted'
    BY <1>1, EntryAttempted, TableAttempted DEF Attempted
  <1> QED BY <1>2, <1>3 DEF CrashInv

LEMMA InitCrash ==
  ASSUME Init
  PROVE  CrashInv
  <1>1. /\ root \in Roots /\ roots = {root} /\ root.journal = 0 /\ root.compacted = 0
        /\ Base(root) = [c \in Coords |-> 0] /\ [c \in Coords |-> 0] \in Tables
    BY InitialRoot
  <1>2. pending = NoTable /\ pc = "idle" /\ local = NoLocal /\ possible = {[c \in Coords |-> 0]}
    BY DEF Init
  <1>3. Shared /\ Kept
    BY <1>1 DEF Shared, Kept
  <1>4. Foreseen
    <2> SUFFICES ASSUME NEW e \in Settled(root.journal) PROVE Overlay(Base(root), e) \in possible
      BY <1>1, <1>2 DEF Foreseen
    <2>1. e = NoEntries
      BY <1>1, SettledIs
    <2> QED BY <1>1, <1>2, <2>1, OverlayOfNothing
  <1>5. Attempted
    BY <1>2, NoLocalIs DEF Attempted
  <1> QED BY <1>3, <1>4, <1>5 DEF CrashInv

LEMMA StutterCrash ==
  ASSUME CrashInv, UNCHANGED vars
  PROVE  CrashInv'
  <1>1. root' = root /\ files' = files /\ roots' = roots /\ UNCHANGED <<pending, pc, local, written, possible>>
    BY DEF vars
  <1>2. LiveEntries' = LiveEntries
    BY <1>1, SameRoot
  <1>3. \A i : Settled(i)' = Settled(i)
    BY <1>1 DEF Settled
  <1> QED BY <1>1, <1>2, <1>3 DEF CrashInv, Shared, Kept, Foreseen, Attempted

\* What a crash at any moment may show, if the two flushes do not fail.
THEOREM CrashInvariant == Reliable => (Spec => [](OperationInv /\ CrashInv))
  <1> SUFFICES ASSUME Reliable PROVE Spec => [](OperationInv /\ CrashInv)
    OBVIOUS
  <1>1. Init => OperationInv /\ CrashInv
    BY InitOperation, InitCrash
  <1>2. OperationInv /\ CrashInv /\ [Next]_vars => (OperationInv /\ CrashInv)'
    BY Reliable, OperationKept, CrashKept, StutterCrash
  <1> QED BY <1>1, <1>2, PTL DEF Spec

\* Whatever a crash leaves at whatever step, the table read afterwards holds every
\* acknowledged delta and replacement, the unacknowledged one completely or not at all, and
\* nothing that was replaced.
THEOREM AcceptedIsDurable == Reliable => (Spec => []AcceptedSurvives)
  <1> SUFFICES ASSUME Reliable PROVE Spec => []AcceptedSurvives
    OBVIOUS
  <1>1. OperationInv /\ CrashInv => AcceptedSurvives
    <2> SUFFICES ASSUME OperationInv, Foreseen, NEW outcome \in CrashOutcomes
                 PROVE  Shown(outcome) \in possible
      BY DEF CrashInv, AcceptedSurvives
    <2>1. PICK r \in roots : outcome \in {[root |-> r, entries |-> e] : e \in Settled(r.journal)}
      BY DEF CrashOutcomes
    <2>2. PICK e \in Settled(r.journal) : outcome = [root |-> r, entries |-> e]
      BY <2>1
    <2>3. Shown(outcome) = IF pending # NoTable THEN pending ELSE Overlay(Base(r), e)
      BY <2>2 DEF Shown
    <2> QED BY <2>2, <2>3 DEF Foreseen
  <1> QED BY <1>1, CrashInvariant, PTL
================================================================================

------------------------------ MODULE ChunkJournal ------------------------------
(***************************************************************************)
(* The chunk-delta side of FileSaveDatabase                                 *)
(* (engine/save/save_database.cpp): retained writers append one immutable   *)
(* journal entry per delta, a checkpoint folds the journal into the base    *)
(* table, a bulk replacement writes a new table, and retained readers pin   *)
(* what was current when they were opened.                                  *)
(*                                                                         *)
(* root holds the names in the active save root.  A directory rename is     *)
(* atomic; until the root is flushed a crash may leave any namespace seen   *)
(* since the last flush (roots).  Names inside the journal directory settle *)
(* one by one.  A tree that is removed may survive a crash half-emptied.    *)
(*                                                                         *)
(* Operations hold mutation_mutex from start to end, so one program counter *)
(* serves all; readers and writers keep a shared lease on the table, which  *)
(* compaction, replacement and recovery want for themselves.                *)
(***************************************************************************)
EXTENDS Integers, FiniteSets, FiniteSetsExt

CONSTANTS Coords,        \* chunk coordinates
          Writers,       \* retained FileChunkDeltaWriter objects
          Readers,       \* retained FileChunkDeltaReader objects
          NoOne,         \* no writer, no coordinate
          LastSequence,  \* max_chunk_delta_journal_entry_count
          LastJournal,   \* bound: journal directories alive at once
          LastValue,     \* bound: the number of updates
          LastGeneration, \* bound: the number of snapshots
          ErrorsAt       \* the steps at which the filesystem may report an error

ASSUME BoundsAssumption == /\ {LastSequence, LastJournal, LastValue} \subseteq Nat \ {0}
                           /\ LastGeneration \in Nat
                           /\ NoOne \notin Coords \cup Writers
                           /\ Coords # {}

VARIABLES
  root,       \* the names the process sees in the active save root
  roots,      \* the namespaces a crash may leave
  files,      \* journal directory -> its entries, as seen and as flushed
  generation, \* the active generation
  pending,    \* chunk_edits of an accepted snapshot that is not compacted yet
  writers,    \* writer -> its lease, generation and statistics
  pinned,     \* reader -> its lease and the index it validated when opened
  pc,         \* where the operation holding mutation_mutex is
  local,      \* its local values
  written,    \* how many updates were attempted
  possible    \* history: the tables an observer may be shown, given what was acknowledged

vars == <<root, roots, files, generation, pending, writers, pinned, pc, local, written, possible>>

Sequences == 1..LastSequence
Journals == 1..LastJournal
Tables == [Coords -> 0..LastValue]     \* 0: no delta for that chunk
NoTable == [c \in Coords |-> -1]       \* the directory does not exist
Broken == [c \in Coords |-> -2]        \* removal began: any of its files may be missing
NoEntry == <<>>
NoEntries == [n \in Sequences |-> NoEntry]
NoLocal == [writer |-> NoOne, coord |-> NoOne, table |-> NoTable, next |-> NoTable,
            bulk |-> FALSE]
Closed == [open |-> FALSE, generation |-> 0, highest |-> 0]
Unpinned == [open |-> FALSE, generation |-> 0, inline |-> FALSE, view |-> NoTable,
             source |-> [c \in Coords |-> 0]]

Init == /\ root = [journal |-> 0, compacted |-> 0, base |-> NoTable, backup |-> NoTable]
        /\ roots = {root}
        /\ files = [i \in Journals |-> [live |-> NoEntries, stable |-> NoEntries]]
        /\ generation = 0
        /\ pending = NoTable
        /\ writers = [w \in Writers |-> Closed]
        /\ pinned = [r \in Readers |-> Unpinned]
        /\ pc = "idle"
        /\ local = NoLocal
        /\ written = 0
        /\ possible = {[c \in Coords |-> 0]}

--------------------------------------------------------------------------------
(* What a reader sees *)

\* readable_chunk_directory: chunks, else its backup, else there is no table.
Base(r) == IF r.base # NoTable THEN r.base
           ELSE IF r.backup # NoTable THEN r.backup ELSE [c \in Coords |-> 0]

EntriesOf(c, entries) == {n \in Sequences : entries[n] # NoEntry /\ entries[n][1] = c}

\* latest_chunk_delta_journal_entries: the highest sequence, 0 if there is none.
Latest(c, entries) == Max(EntriesOf(c, entries) \cup {0})

Overlay(table, entries) ==
  [c \in Coords |-> IF Latest(c, entries) = 0 THEN table[c] ELSE entries[Latest(c, entries)][2]]

LiveEntries == IF root.journal = 0 THEN NoEntries ELSE files[root.journal].live
Merged == Overlay(Base(root), LiveEntries)

Present(entries) == {n \in Sequences : entries[n] # NoEntry}
Current == IF pending # NoTable THEN pending ELSE Merged

Settled(i) ==
  IF i = 0 THEN {NoEntries}
  ELSE {[n \in Sequences |-> IF n \in kept THEN files[i].live[n] ELSE files[i].stable[n]] :
          kept \in SUBSET {n \in Sequences : files[i].live[n] # files[i].stable[n]}}

CrashOutcomes == UNION {{[root |-> r, entries |-> e] : e \in Settled(r.journal)} : r \in roots}
Shown(outcome) == IF pending # NoTable THEN pending
                  ELSE Overlay(Base(outcome.root), outcome.entries)

--------------------------------------------------------------------------------
Rename(names) == root' = names /\ roots' = roots \cup {names}
FlushRoot == roots' = {root} /\ UNCHANGED root
Goto(label) == pc' = label
Finish == pc' = "idle" /\ local' = NoLocal

\* Mutant: readers do not hold the table lease.
ExclusiveOfWriters == \A w \in Writers : ~writers[w].open

Exclusive == /\ \A w \in Writers : ~writers[w].open
             /\ \A r \in Readers : ~pinned[r].open

Leases == <<writers, pinned>>
History == <<written, possible>>
Snapshots == <<generation, pending>>

--------------------------------------------------------------------------------
(* open_chunk_delta_writer, open_chunk_delta_reader *)

OpenWriter(w) ==
  /\ pc = "idle" /\ ~writers[w].open /\ pending = NoTable
  /\ writers' = [writers EXCEPT ![w] =
       [open |-> TRUE, generation |-> generation, highest |-> Max(Present(LiveEntries) \cup {0})]]
  /\ UNCHANGED <<root, roots, files, Snapshots, pinned, pc, local, History>>

CloseWriter(w) ==
  /\ writers[w].open /\ local.writer # w
  /\ writers' = [writers EXCEPT ![w] = Closed]
  /\ UNCHANGED <<root, roots, files, Snapshots, pinned, pc, local, History>>

OpenReader(r) ==
  /\ pc = "idle" /\ ~pinned[r].open
  /\ pinned' = [pinned EXCEPT ![r] =
       [open |-> TRUE, generation |-> generation, inline |-> pending # NoTable,
        view |-> Current, source |-> [c \in Coords |-> Latest(c, LiveEntries)]]]
  /\ UNCHANGED <<root, roots, files, Snapshots, writers, pc, local, History>>

CloseReader(r) ==
  /\ pinned[r].open
  /\ pinned' = [pinned EXCEPT ![r] = Unpinned]
  /\ UNCHANGED <<root, roots, files, Snapshots, writers, pc, local, History>>

--------------------------------------------------------------------------------
(* FileChunkDeltaWriter::write_chunk_delta *)

\* Mutant: an existing entry of that number is replaced.
MayOverwrite(w) ==
  /\ writers[w].open /\ pending = NoTable
  /\ writers[w].generation = generation
  /\ writers[w].highest < LastSequence

\* The writer's statistics name the next entry; the file must not exist, the snapshot
\* journal must be empty and the generation still the one the writer was opened on.
MayWrite(w) ==
  /\ writers[w].open /\ pending = NoTable
  /\ writers[w].generation = generation
  /\ writers[w].highest < LastSequence
  /\ LiveEntries[writers[w].highest + 1] = NoEntry

Unused == {i \in Journals : \A r \in roots : i \notin {r.journal, r.compacted}}

BeginWrite(w, c) ==
  /\ pc = "idle" /\ MayWrite(w) /\ written < LastValue
  /\ written' = written + 1
  /\ possible' = possible \cup {[t EXCEPT ![c] = written + 1] : t \in possible}
  /\ local' = [NoLocal EXCEPT !.writer = w, !.coord = c]
  /\ IF root.journal # 0
     THEN Goto("ready") /\ UNCHANGED <<root, roots, files>>
     ELSE /\ Unused # {}
          /\ Goto("created")
          /\ Rename([root EXCEPT !.journal = Min(Unused)])
          /\ files' = [files EXCEPT ![Min(Unused)] = [live |-> NoEntries, stable |-> NoEntries]]
  /\ UNCHANGED <<Snapshots, Leases>>

\* ensure_parent_directory flushes the root only if it created the directory.
FlushCreated ==
  /\ pc = "created"
  /\ FlushRoot
  /\ Goto("ready")
  /\ UNCHANGED <<files, Snapshots, Leases, local, History>>

RenameEntry ==
  /\ pc = "ready"
  /\ files' = [files EXCEPT ![root.journal].live[writers[local.writer].highest + 1] =
                 <<local.coord, written>>]
  /\ Goto("renamed")
  /\ UNCHANGED <<root, roots, Snapshots, Leases, local, History>>

Acknowledged == possible' = {t \in possible : t[local.coord] = written}

\* Mutant: the statistics count the entry twice.
FlushEntryTwice ==
  /\ pc = "renamed"
  /\ files' = [files EXCEPT ![root.journal].stable = files[root.journal].live]
  /\ writers' = [writers EXCEPT ![local.writer].highest = @ + 2]
  /\ Acknowledged
  /\ Finish
  /\ UNCHANGED <<root, roots, Snapshots, pinned, written>>

FlushEntry ==
  /\ pc = "renamed"
  /\ files' = [files EXCEPT ![root.journal].stable = files[root.journal].live]
  /\ writers' = [writers EXCEPT ![local.writer].highest = @ + 1]
  /\ Acknowledged
  /\ Finish
  /\ UNCHANGED <<root, roots, Snapshots, pinned, written>>

--------------------------------------------------------------------------------
(* compact_chunk_delta_journal, and write_chunk_deltas, which compacts first *)

\* Mutant: the checkpoint materializes the base and forgets the journal.
BaseOnly == Base(root)

\* read_effective_chunk_deltas_from_root
Effective == Merged

BeginCompaction ==
  /\ pc = "idle" /\ Exclusive /\ pending = NoTable
  /\ Present(LiveEntries) # {}
  /\ local' = [NoLocal EXCEPT !.table = Effective]
  /\ Goto("stage")
  /\ UNCHANGED <<root, roots, files, Snapshots, Leases, History>>

\* The new table holds the given chunks and no others.
BeginReplacement(chunks) ==
  /\ pc = "idle" /\ Exclusive /\ pending = NoTable
  /\ written < LastValue
  /\ written' = written + 1
  /\ LET table == [c \in Coords |-> IF c \in chunks THEN written + 1 ELSE 0]
     IN  /\ possible' = possible \cup {table}
         /\ local' = IF Present(LiveEntries) = {}
                     THEN [NoLocal EXCEPT !.table = table, !.bulk = TRUE]
                     ELSE [NoLocal EXCEPT !.table = Effective, !.next = table]
  /\ Goto("stage")
  /\ UNCHANGED <<root, roots, files, Snapshots, Leases>>

(* write_chunk_deltas_to_root *)

\* Payloads and index are made durable in a staged directory no reader looks at; that
\* directory is created anew, which flushes the root.
StageTable ==
  /\ pc = "stage"
  /\ FlushRoot
  /\ Goto(IF root.backup # NoTable THEN "backup" ELSE IF root.base # NoTable THEN "displace"
          ELSE "promote")
  /\ UNCHANGED <<files, Snapshots, Leases, local, History>>

RestoreBackup ==
  /\ pc = "backup" /\ root.base = NoTable
  /\ Rename([root EXCEPT !.base = root.backup, !.backup = NoTable])
  /\ Goto("restored")
  /\ UNCHANGED <<files, Snapshots, Leases, local, History>>

FlushRestored ==
  /\ pc = "restored"
  /\ FlushRoot
  /\ Goto("displace")
  /\ UNCHANGED <<files, Snapshots, Leases, local, History>>

\* remove_tree: the files go before the name does.
RemovedBackups == roots \cup {[r EXCEPT !.backup = Broken] : r \in {s \in roots : s.backup # NoTable}}
DropBackup(left) == /\ root' = [root EXCEPT !.backup = left]
                    /\ roots' = RemovedBackups \cup {root'}

RemoveOldBackup ==
  /\ pc = "backup" /\ root.base # NoTable
  /\ DropBackup(NoTable)
  /\ Goto("displace")
  /\ UNCHANGED <<files, Snapshots, Leases, local, History>>

DisplaceTable ==
  /\ pc = "displace"
  /\ Rename([root EXCEPT !.base = NoTable, !.backup = root.base])
  /\ Goto("displaced")
  /\ UNCHANGED <<files, Snapshots, Leases, local, History>>

FlushDisplaced ==
  /\ pc = "displaced"
  /\ FlushRoot
  /\ Goto("promote")
  /\ UNCHANGED <<files, Snapshots, Leases, local, History>>

PromoteTable ==
  /\ pc = "promote"
  /\ Rename([root EXCEPT !.base = local.table])
  /\ Goto("promoted")
  /\ UNCHANGED <<files, Snapshots, Leases, local, History>>

\* The rename fails: the old table gets its name back, and that may fail as well.
RollBack ==
  /\ pc = "promote" /\ "promote" \in ErrorsAt
  /\ root.backup # NoTable
  /\ LET names == [root EXCEPT !.base = root.backup, !.backup = NoTable]
     IN  root' = names /\ roots' \in {{names}, roots \cup {names}}
  /\ Finish
  /\ UNCHANGED <<files, Snapshots, Leases, History>>

FlushPromoted ==
  /\ pc = "promoted"
  /\ FlushRoot
  /\ Goto("cleanup")
  /\ UNCHANGED <<files, Snapshots, Leases, local, History>>

\* Removing the backup may fail and nobody asks.  A replacement is then reported; a
\* checkpoint goes on to retire the journal.
CleanUp ==
  /\ pc = "cleanup"
  /\ IF root.backup = NoTable THEN UNCHANGED <<root, roots>>
                              ELSE DropBackup(NoTable) \/ DropBackup(Broken)
  /\ IF local.bulk THEN possible' = {local.table} /\ Finish
                   ELSE Goto("retire") /\ UNCHANGED <<possible, local>>
  /\ UNCHANGED <<files, Snapshots, Leases, written>>

(* the rest of compact_chunk_delta_journal_unlocked *)

EmptyTree(i) == files' = [files EXCEPT ![i].live = NoEntries]

RemoveLeftover ==
  /\ pc = "retire" /\ root.compacted # 0
  /\ EmptyTree(root.compacted)
  /\ Rename([root EXCEPT !.compacted = 0])
  /\ UNCHANGED <<Snapshots, Leases, pc, local, History>>

RetireJournal ==
  /\ pc = "retire" /\ root.compacted = 0
  /\ Rename([root EXCEPT !.journal = 0, !.compacted = root.journal])
  /\ Goto("retired")
  /\ UNCHANGED <<files, Snapshots, Leases, local, History>>

FlushRetired ==
  /\ pc = "retired"
  /\ FlushRoot
  /\ Goto("discard")
  /\ UNCHANGED <<files, Snapshots, Leases, local, History>>

DiscardJournal ==
  /\ pc = "discard"
  /\ EmptyTree(root.compacted)
  /\ Rename([root EXCEPT !.compacted = 0])
  /\ Goto("discarded")
  /\ UNCHANGED <<Snapshots, Leases, local, History>>

FlushDiscarded ==
  /\ pc = "discarded"
  /\ FlushRoot
  /\ IF local.next = NoTable THEN Finish
     ELSE /\ Goto("stage")
          /\ local' = [NoLocal EXCEPT !.table = local.next, !.bulk = TRUE]
  /\ UNCHANGED <<files, Snapshots, Leases, History>>

--------------------------------------------------------------------------------
(* recover_chunk_delta_journal removes what an interrupted checkpoint left *)

BeginRecovery ==
  /\ pc = "idle" /\ Exclusive /\ pending = NoTable
  /\ root.compacted # 0
  /\ Goto("discard")
  /\ UNCHANGED <<root, roots, files, Snapshots, Leases, local, History>>

--------------------------------------------------------------------------------
(* Full snapshots: journal_snapshot and compact_snapshot_journal, whose steps are *)
(* those of SnapshotJournal.  They take mutation_mutex and no lease.               *)

AcceptSnapshot(chunks) ==
  /\ pc = "idle" /\ written < LastValue /\ generation < LastGeneration
  /\ written' = written + 1
  /\ pending' = [c \in Coords |-> IF c \in chunks THEN written + 1 ELSE 0]
  /\ possible' = {pending'}
  /\ UNCHANGED <<root, roots, files, generation, Leases, pc, local>>

\* The snapshot's chunk edits become the base table of a new generation.
CompactSnapshot ==
  /\ pc = "idle" /\ pending # NoTable
  /\ generation' = generation + 1
  /\ root' = [journal |-> 0, compacted |-> 0, base |-> pending, backup |-> NoTable]
  /\ roots' = {root'}
  /\ files' = [i \in Journals |-> [live |-> NoEntries, stable |-> NoEntries]]
  /\ pending' = NoTable
  /\ UNCHANGED <<Leases, pc, local, History>>

--------------------------------------------------------------------------------
\* The operation returns the error of its current step.
Fail ==
  /\ pc \in ErrorsAt \ {"idle"}
  /\ Finish
  /\ UNCHANGED <<root, roots, files, Snapshots, Leases, History>>

Crash ==
  /\ \E outcome \in CrashOutcomes :
       /\ root' = outcome.root
       /\ roots' = {outcome.root}
       /\ files' = [i \in Journals |->
            IF i = outcome.root.journal
            THEN [live |-> outcome.entries, stable |-> outcome.entries]
            ELSE [live |-> NoEntries, stable |-> NoEntries]]
       /\ possible' = {Shown(outcome)}
  /\ writers' = [w \in Writers |-> Closed]
  /\ pinned' = [r \in Readers |-> Unpinned]
  /\ Finish
  /\ UNCHANGED <<Snapshots, written>>

Write == \/ \E w \in Writers, c \in Coords : BeginWrite(w, c)
         \/ FlushCreated \/ RenameEntry \/ FlushEntry
Replacement == \/ StageTable \/ RestoreBackup \/ FlushRestored \/ RemoveOldBackup
               \/ DisplaceTable \/ FlushDisplaced \/ PromoteTable \/ RollBack
               \/ FlushPromoted \/ CleanUp
Retirement == RemoveLeftover \/ RetireJournal \/ FlushRetired \/ DiscardJournal \/ FlushDiscarded
Lease == \/ \E w \in Writers : OpenWriter(w) \/ CloseWriter(w)
         \/ \E r \in Readers : OpenReader(r) \/ CloseReader(r)

Next == \/ Write \/ Lease
        \/ BeginCompaction \/ \E chunks \in SUBSET Coords : BeginReplacement(chunks)
        \/ Replacement \/ Retirement \/ BeginRecovery
        \/ \E chunks \in SUBSET Coords : AcceptSnapshot(chunks)
        \/ CompactSnapshot
        \/ Fail \/ Crash

Spec == Init /\ [][Next]_vars

--------------------------------------------------------------------------------
Labels == {"idle", "created", "ready", "renamed", "stage", "backup", "restored", "displace",
           "displaced", "promote", "promoted", "cleanup", "retire", "retired", "discard",
           "discarded"}
Entries == [Sequences -> {NoEntry} \cup (Coords \X (1..LastValue))]

\* Every variable has its type; the table readers use is never one whose removal began.
TypeOK ==
  /\ root \in [journal : 0..LastJournal, compacted : 0..LastJournal,
               base : Tables \cup {NoTable}, backup : Tables \cup {NoTable, Broken}]
  /\ root \in roots
  /\ files \in [Journals -> [live : Entries, stable : Entries]]
  /\ generation \in 0..LastGeneration
  /\ pending \in Tables \cup {NoTable}
  /\ writers \in [Writers -> [open : BOOLEAN, generation : 0..LastGeneration,
                              highest : 0..LastSequence]]
  /\ pinned \in [Readers -> [open : BOOLEAN, generation : 0..LastGeneration, inline : BOOLEAN,
                             view : Tables \cup {NoTable}, source : [Coords -> 0..LastSequence]]]
  /\ pc \in Labels
  /\ written \in 0..LastValue
  /\ possible \subseteq Tables

\* Whatever a crash leaves, the table that is read afterwards is one an observer may
\* expect: every acknowledged delta and replacement is in it, one that was not
\* acknowledged is in it completely or not at all, and nothing older comes back.
AcceptedSurvives == \A outcome \in CrashOutcomes : Shown(outcome) \in possible

\* While its lease lasts, every file in a reader's index is there and still holds what
\* it held when the index was validated.
ReadPinned(r, c) ==
  LET view == pinned[r]
      n == view.source[c]
  IN  IF view.inline THEN view.view[c]
      ELSE IF n = 0 THEN Base(root)[c]
      ELSE IF LiveEntries[n] = NoEntry THEN -1 ELSE LiveEntries[n][2]
PinnedViewsHold ==
  \A r \in Readers : pinned[r].open /\ pinned[r].generation = generation =>
    \A c \in Coords : ReadPinned(r, c) = pinned[r].view[c]

\* A checkpoint, a recovery, a snapshot compaction and every failure leave what readers
\* see as it is, at each single step.
Maintenance == \/ ~local.bulk /\ Replacement
               \/ Retirement \/ BeginRecovery \/ CompactSnapshot \/ Fail
MaintenanceInvisible == [][Maintenance => Current' = Current]_vars
================================================================================

---------------------------- MODULE SnapshotJournal ----------------------------
(***************************************************************************)
(* The full-snapshot side of FileSaveDatabase                               *)
(* (engine/save/save_database.cpp): the snapshot journal, the committed     *)
(* generations, the manifest current.txt that selects one of them and the   *)
(* journal checkpoint, under crashes and filesystem errors at every step.   *)
(*                                                                         *)
(* Every durable change is a rename followed by the flush of its directory. *)
(* live is what the process sees; stable is what is known to be on disk.  A *)
(* crash settles every name that differs independently.  An error ends the  *)
(* operation between two steps and leaves live as it is.                    *)
(*                                                                         *)
(* Operations that change the store hold mutation_mutex from start to end   *)
(* (others fail with save_database.busy), so one program counter serves all.*)
(* A snapshot is the number of the attempt that wrote it; 0 is "no file".   *)
(***************************************************************************)
EXTENDS Integers, FiniteSets, FiniteSetsExt

CONSTANTS MaxEntries,   \* max_journal_entry_count
          LastSequence, \* bound: the largest journal sequence
          LastGeneration, \* bound: the largest generation number
          LastSnapshot, \* bound: the number of snapshots written
          Keeps,        \* the keep counts that prune_stale_generations is given
          ErrorsAt      \* the steps at which the filesystem may report an error

ASSUME BoundsAssumption ==
  /\ MaxEntries \in Nat \ {0} /\ LastSequence \in Nat \ {0}
  /\ LastGeneration \in Nat \ {0} /\ LastSnapshot \in Nat \ {0}
  /\ Keeps \subseteq Nat /\ ErrorsAt \subseteq STRING

Sequences == 1..LastSequence
Generations == 1..LastGeneration

VARIABLES
  live,      \* the directory contents that the process reads
  stable,    \* the contents the last successful flushes made safe
  pc,        \* where the operation holding mutation_mutex is
  local,     \* its local values: the entry, generation or keep count it works on
  written,   \* how many snapshots were offered so far
  accepted   \* the latest one acknowledged as durably accepted

vars == <<live, stable, pc, local, written, accepted>>

NoLocal == [compacts |-> FALSE, entry |-> 0, generation |-> 0, removed |-> FALSE, keep |-> 0]

Disks == [entries : [Sequences -> 0..LastSnapshot],      \* journal/entry_<n>.hsj
          checkpoint : 0..LastSequence,                  \* journal/checkpoint.txt
          generations : [Generations -> 0..LastSnapshot], \* generations/generation_<n>
          manifest : 0..LastGeneration]                  \* current.txt

EmptyDisk == [entries |-> [n \in Sequences |-> 0], checkpoint |-> 0,
              generations |-> [n \in Generations |-> 0], manifest |-> 0]

Init == /\ live = EmptyDisk
        /\ stable = EmptyDisk
        /\ pc = "idle"
        /\ local = NoLocal
        /\ written = 0
        /\ accepted = 0

--------------------------------------------------------------------------------
(* What a reader sees *)

Present(files) == {n \in DOMAIN files : files[n] # 0}
Highest(S) == Max(S \cup {0})

\* latest_pending_snapshot_entry: the newest entry above the checkpoint, 0 if none.
Pending(disk) == Highest({n \in Present(disk.entries) : n > disk.checkpoint})

\* read_snapshot: the pending entry, else the generation the manifest names.
Readable(disk) == Pending(disk) # 0 \/ disk.manifest = 0
                                    \/ disk.generations[disk.manifest] # 0
Content(disk) == IF Pending(disk) # 0 THEN disk.entries[Pending(disk)]
                 ELSE IF disk.manifest = 0 THEN 0
                 ELSE disk.generations[disk.manifest]

\* Each name that was renamed or removed without a flush is found old or new.
Settle(new, old, kept) == [n \in DOMAIN new |-> IF n \in kept THEN new[n] ELSE old[n]]
Differ(new, old) == {n \in DOMAIN new : new[n] # old[n]}
CrashOutcomes ==
  {[entries |-> Settle(live.entries, stable.entries, E), checkpoint |-> c,
    generations |-> Settle(live.generations, stable.generations, G), manifest |-> m] :
     E \in SUBSET Differ(live.entries, stable.entries),
     G \in SUBSET Differ(live.generations, stable.generations),
     c \in {live.checkpoint, stable.checkpoint},
     m \in {live.manifest, stable.manifest}}

FlushJournalDirectory ==
  stable' = [stable EXCEPT !.entries = live.entries, !.checkpoint = live.checkpoint]
FlushGenerations == stable' = [stable EXCEPT !.generations = live.generations]
FlushRoot == stable' = [stable EXCEPT !.manifest = live.manifest]

Goto(label) == pc' = label
Finish == pc' = "idle" /\ local' = NoLocal

--------------------------------------------------------------------------------
(* journal_snapshot, and write_snapshot, which compacts after it *)

\* Mutant: the numbers of removed entries are handed out again.
NextSequenceAfterEntries == Highest(Present(live.entries)) + 1

NextSequence == Highest(Present(live.entries) \cup {live.checkpoint}) + 1

Append(compacts) ==
  /\ pc = "idle"
  /\ Cardinality(Present(live.entries)) < MaxEntries
  /\ NextSequence \in Sequences /\ written < LastSnapshot
  /\ written' = written + 1
  /\ live' = [live EXCEPT !.entries[NextSequence] = written + 1]
  /\ local' = [NoLocal EXCEPT !.compacts = compacts]
  /\ Goto("appended")
  /\ UNCHANGED <<stable, accepted>>

AcceptEntry ==
  /\ pc = "appended"
  /\ FlushJournalDirectory
  /\ accepted' = written
  /\ IF local.compacts THEN Goto("compact") /\ UNCHANGED local ELSE Finish
  /\ UNCHANGED <<live, written>>

--------------------------------------------------------------------------------
(* compact_snapshot_journal and recover_snapshot_journal *)

BeginCompaction ==
  /\ pc = "idle"
  /\ Goto("compact")
  /\ UNCHANGED <<live, stable, local, written, accepted>>

NextGeneration == Highest(Present(live.generations)) + 1

\* write_snapshot_generation stages in generation_<n>.tmp, which no reader looks at,
\* and renames the finished directory.
PublishGeneration ==
  /\ pc = "compact"
  /\ Pending(live) # 0
  /\ NextGeneration \in Generations
  /\ local' = [local EXCEPT !.entry = Pending(live), !.generation = NextGeneration]
  /\ live' = [live EXCEPT !.generations[NextGeneration] = live.entries[Pending(live)]]
  /\ Goto("published")
  /\ UNCHANGED <<stable, written, accepted>>

FlushPublished ==
  /\ pc = "published"
  /\ FlushGenerations
  /\ Goto("manifest")
  /\ UNCHANGED <<live, local, written, accepted>>

WriteManifest ==
  /\ pc = "manifest"
  /\ live' = [live EXCEPT !.manifest = local.generation]
  /\ Goto("manifest_written")
  /\ UNCHANGED <<stable, local, written, accepted>>

FlushManifest ==
  /\ pc = "manifest_written"
  /\ FlushRoot
  /\ Goto("checkpoint")
  /\ UNCHANGED <<live, local, written, accepted>>

\* Mutant: the checkpoint is the sequence after the one that was compacted.
WriteCheckpointBeyond ==
  /\ pc = "checkpoint"
  /\ live' = [live EXCEPT !.checkpoint = local.entry + 1]
  /\ Goto("checkpoint_written")
  /\ UNCHANGED <<stable, local, written, accepted>>

WriteCheckpoint ==
  /\ pc = "checkpoint"
  /\ live' = [live EXCEPT !.checkpoint = local.entry]
  /\ Goto("checkpoint_written")
  /\ UNCHANGED <<stable, local, written, accepted>>

FlushCheckpoint ==
  /\ pc = "checkpoint_written"
  /\ FlushJournalDirectory
  /\ Goto("removing")
  /\ UNCHANGED <<live, local, written, accepted>>

\* Nothing pending: only entries an interrupted cleanup left behind are removed.
SkipToCleanup ==
  /\ pc = "compact"
  /\ Pending(live) = 0
  /\ local' = [local EXCEPT !.entry = live.checkpoint]
  /\ Goto("removing")
  /\ UNCHANGED <<live, stable, written, accepted>>

Removable == {n \in Present(live.entries) : n <= local.entry}

RemoveEntry ==
  /\ pc = "removing"
  /\ Removable # {}
  /\ live' = [live EXCEPT !.entries[Min(Removable)] = 0]
  /\ local' = [local EXCEPT !.removed = TRUE]
  /\ UNCHANGED <<stable, pc, written, accepted>>

\* A cleanup that removed nothing flushes nothing.
FlushRemoval ==
  /\ pc = "removing"
  /\ Removable = {}
  /\ IF local.removed THEN FlushJournalDirectory ELSE UNCHANGED stable
  /\ Finish
  /\ UNCHANGED <<live, written, accepted>>

--------------------------------------------------------------------------------
(* prune_stale_generations; its removals are never flushed *)

\* Mutant: the active generation is a candidate like the others.
StaleOrActive == Present(live.generations)

Stale == Present(live.generations) \ {live.manifest}
Newer(n) == {m \in Stale : m > n}
Prunable == {n \in Stale : Cardinality(Newer(n)) >= local.keep}

BeginPrune(keep) ==
  /\ pc = "idle"
  /\ live.manifest # 0
  /\ live.generations[live.manifest] # 0
  /\ local' = [NoLocal EXCEPT !.keep = keep]
  /\ Goto("pruning")
  /\ UNCHANGED <<live, stable, written, accepted>>

PruneGeneration ==
  /\ pc = "pruning"
  /\ Prunable # {}
  /\ live' = [live EXCEPT !.generations[Max(Prunable)] = 0]
  /\ UNCHANGED <<stable, pc, local, written, accepted>>

EndPrune ==
  /\ pc = "pruning"
  /\ Prunable = {}
  /\ Finish
  /\ UNCHANGED <<live, stable, written, accepted>>

--------------------------------------------------------------------------------
\* A write, rename, flush or removal fails and the operation returns the error: what
\* it has renamed stays visible, without being known to be stable.
Fail ==
  /\ pc \in ErrorsAt \ {"idle"}
  /\ Finish
  /\ UNCHANGED <<live, stable, written, accepted>>

\* The process or the machine stops; the next process finds one of the outcomes.
Crash ==
  /\ live' \in CrashOutcomes
  /\ stable' = live'
  /\ Finish
  /\ UNCHANGED <<written, accepted>>

Compaction == \/ PublishGeneration \/ FlushPublished \/ WriteManifest \/ FlushManifest
              \/ WriteCheckpoint \/ FlushCheckpoint \/ SkipToCleanup
              \/ RemoveEntry \/ FlushRemoval

Next == \/ \E compacts \in BOOLEAN : Append(compacts)
        \/ AcceptEntry
        \/ BeginCompaction \/ Compaction
        \/ \E keep \in Keeps : BeginPrune(keep)
        \/ PruneGeneration \/ EndPrune
        \/ Fail \/ Crash

Spec == Init /\ [][Next]_vars

--------------------------------------------------------------------------------
Labels == {"idle", "appended", "compact", "published", "manifest", "manifest_written",
           "checkpoint", "checkpoint_written", "removing", "pruning"}

\* Both views are directory contents, and the operation is at one of its steps.
TypeOK == /\ live \in Disks /\ stable \in Disks
          /\ pc \in Labels
          /\ local \in [compacts : BOOLEAN, entry : 0..LastSequence,
                        generation : 0..LastGeneration, removed : BOOLEAN,
                        keep : Keeps \cup {0}]
          /\ written \in 0..LastSnapshot /\ accepted \in 0..LastSnapshot

\* Whatever step a crash interrupts and however the unflushed names settle, the next
\* process reads a snapshot, and one at least as recent as the last accepted one.
AcceptedSurvives == \A disk \in CrashOutcomes : Readable(disk) /\ Content(disk) >= accepted

\* The store is a register for snapshots: compaction, pruning and failures change
\* nothing a reader can see.
Store == INSTANCE SaveStore WITH current <- Content(live), accepted <- accepted
ImplementsStore == Store!Spec
================================================================================

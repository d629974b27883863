------------------------------ MODULE ChunkLighting ------------------------------
(***************************************************************************)
(* Derived light: ChunkLightSystem on the owner thread, the one job that    *)
(* ChunkLightScheduler keeps on its own thread pool, and the lighting stage *)
(* of each chunk's ChunkStageLedger.                                        *)
(*                                                                         *)
(* The light of a chunk is represented by the Field it was solved from: the *)
(* light-relevant content of every resident chunk, and the setting (fire    *)
(* sources and block table).  ChunkLightSystem::update runs once a tick and *)
(* is three steps, so that the worker can move in between.                  *)
(***************************************************************************)
EXTENDS Integers, Sequences, FiniteSets, Functions

CONSTANTS Line,       \* chunks 1..Line lie in a row
          Start,      \* resident at first
          Cells,      \* cells of a chunk
          Budget,     \* max_snapshot_cells_per_update
          MaxEvents   \* bound: edits, loads, unloads and new settings

ASSUME BoundsAssumption == {Line, Cells, Budget} \subseteq Nat \ {0} /\ MaxEvents \in Nat
ASSUME StartAssumption == Start \subseteq 1..Line

VARIABLES state,     \* "running", "stopped", or the error of the update that failed
          phase,     \* of an update: "idle", "refreshed", "applied"
          chunks,    \* resident chunk -> identity, revisions, lighting stage and dirty flag
          geometry,  \* chunk -> version of what light depends on
          light,     \* resident chunk -> the Field its light shows
          setting,   \* the world's light sources and palette: [sources, palette]
          adopted,   \* the same as of the last update: source_revision_, block_table_
          regions,   \* whether chunk_lighting regions are dirty
          observed,  \* observed_dirty_revisions_: chunk -> [gen, rev]
          relight,   \* relight_requested_
          build,     \* snapshot_build_
          active,    \* active_job_: "none", "live", "cancelled"
          job,       \* on the pool: queued, solving or finishing
          mailbox,   \* typed results
          events

worldVars == <<geometry, setting, regions, events>>
systemVars == <<adopted, observed, relight, build, active>>
poolVars == <<job, mailbox>>
vars == <<state, phase, chunks, light, worldVars, systemVars, poolVars>>

None == [stage |-> "none"]

Resident == DOMAIN chunks
Identity(c) == [gen |-> chunks[c].gen, rev |-> chunks[c].rev]

\* What the light would be solved from now.
Field == [content |-> [c \in Resident |-> {geometry[c]}], setting |-> setting]

Fresh(c) == light[c] = Field

\* VoxelChunk::invalidate(lighting): the flag, and a new ticket.
Marked(chunk) == [chunk EXCEPT !.dirty = TRUE, !.ticket = @ + 1, !.stage = "requested"]
Mark(table, cs) == [c \in DOMAIN table |-> IF c \in cs THEN Marked(table[c]) ELSE table[c]]

With(f, c, v) == [d \in DOMAIN f \cup {c} |-> IF d = c THEN v ELSE f[d]]

NewChunk(g) == [gen |-> g, rev |-> 1, ticket |-> 1, stage |-> "requested", dirty |-> TRUE]

Init ==
  /\ state = "running" /\ phase = "idle"
  /\ chunks = [c \in Start |-> NewChunk(1)]
  /\ geometry = [c \in 1..Line |-> 1]
  /\ light = [c \in Start |-> <<>>]
  /\ setting = [sources |-> 1, palette |-> 1] /\ adopted = setting
  /\ regions \in BOOLEAN
  /\ observed = <<>> /\ relight = FALSE /\ build = None /\ active = "none"
  /\ job = None /\ mailbox = <<>>
  /\ events = 0

--------------------------------------------------------------------------------
(* Between updates the rest of the tick changes the world.                            *)

Event ==
  /\ state = "running" /\ phase = "idle" /\ events < MaxEvents
  /\ events' = events + 1
  /\ UNCHANGED <<state, phase, systemVars, poolVars>>

Beside(c) == {c - 1, c + 1}

\* ChunkDatabase::set with lighting invalidation.  The voxel may lie on a boundary, and
\* the caller may or may not pass the tracker of dirty regions.
Edit(c) ==
  /\ Event
  /\ c \in Resident
  /\ \E near \in {{}} \cup {{n} : n \in Beside(c)} :
       chunks' = Mark([chunks EXCEPT ![c].rev = @ + 1], {c} \cup near)
  /\ geometry' = [geometry EXCEPT ![c] = @ + 1]
  /\ regions' \in {regions, TRUE}
  /\ UNCHANGED <<light, setting>>

\* A change that light does not depend on.
Touch(c) ==
  /\ Event
  /\ c \in Resident
  /\ chunks' = [chunks EXCEPT ![c].rev = @ + 1]
  /\ UNCHANGED <<geometry, light, setting, regions>>

\* insert_generated, with or without the tracker.
Load(c) ==
  /\ Event
  /\ c \notin Resident
  /\ geometry' = [geometry EXCEPT ![c] = @ + 1]
  /\ chunks' = Mark(With(chunks, c, NewChunk(geometry[c] + 1)), Beside(c))
  /\ light' = With(light, c, <<>>)
  /\ regions' \in {regions, TRUE}
  /\ UNCHANGED setting

\* erase tells only the neighbours.
Unload(c) ==
  /\ Event
  /\ c \in Resident
  /\ chunks' = Mark(Restrict(chunks, Resident \ {c}), Beside(c))
  /\ light' = Restrict(light, Resident \ {c})
  /\ UNCHANGED <<geometry, setting, regions>>

Change(what) ==
  /\ Event
  /\ setting' = [setting EXCEPT ![what] = @ + 1]
  /\ UNCHANGED <<chunks, geometry, light, regions>>

--------------------------------------------------------------------------------
(* The first part of an update: refresh_block_table, the sources, collect_dirty.      *)

\* Mutant: only the chunks that are dirty get a new ticket.
RequestedDirty(table, times) ==
  [c \in DOMAIN table |-> IF table[c].dirty
                          THEN [table[c] EXCEPT !.ticket = @ + times, !.stage = "requested"]
                          ELSE table[c]]

\* invalidate_field: every chunk gets a new ticket, whatever a partial snapshot held.
Requested(table, times) ==
  [c \in DOMAIN table |-> [table[c] EXCEPT !.ticket = @ + times, !.stage = "requested"]]

Invalidate(times) ==
  /\ chunks' = Requested(chunks, times)
  /\ build' = None
  /\ active' = IF active = "none" THEN "none" ELSE "cancelled"
  /\ relight' = TRUE

\* collect_dirty
FieldChanged ==
  \/ regions
  \/ \E c \in Resident : /\ chunks[c].dirty
                         /\ c \in DOMAIN observed => observed[c] # Identity(c)

TopologyChanged ==
  \/ DOMAIN observed # Resident
  \/ \E c \in Resident : observed[c].gen # chunks[c].gen

Reasons ==
  {w \in {"sources", "palette"} : setting[w] # adopted[w]}
    \cup {w \in {"dirty"} : FieldChanged \/ TopologyChanged}

Refresh ==
  /\ state = "running" /\ phase = "idle"
  /\ phase' = "refreshed"
  /\ adopted' = setting
  /\ regions' = FALSE
  /\ observed' = [c \in Resident |-> Identity(c)]
  /\ IF Reasons = {} THEN UNCHANGED <<chunks, build, active, relight>>
                     ELSE Invalidate(Cardinality(Reasons))
  /\ UNCHANGED <<state, geometry, light, setting, events, poolVars>>

--------------------------------------------------------------------------------
(* The second part: apply_completed.                                                  *)

\* stage_ticket_is_current
Current(c, snapshot) ==
  /\ c \in Resident /\ chunks[c].gen = snapshot.gens[c]
  /\ chunks[c].ticket = snapshot.tickets[c]

\* Chunk c still has the ticket of the snapshot that the result was solved from.
Stamped(result, stage) ==
  [c \in Resident |-> IF c \in DOMAIN result.snapshot.tickets /\ Current(c, result.snapshot)
                      THEN [chunks[c] EXCEPT !.stage = stage] ELSE chunks[c]]

SameChunks(snapshot) == Resident = DOMAIN snapshot.tickets
SameRevisions(snapshot) == \A c \in Resident : chunks[c].rev = snapshot.revs[c]

\* Mutant: chunks and their content only.
ApplicableContent(result) ==
  SameChunks(result.snapshot) /\ SameRevisions(result.snapshot)

\* The field, its chunks and the state of their stages are what was submitted.
Applicable(result) ==
  /\ result.snapshot.setting = adopted
  /\ SameChunks(result.snapshot)
  /\ \A c \in Resident : Current(c, result.snapshot) /\ chunks[c].stage = "running"
  /\ result.outcome = "failed" \/ SameRevisions(result.snapshot)

Solved(snapshot) == [content |-> snapshot.cells, setting |-> snapshot.setting]

Discard(result) ==
  /\ result.outcome = "cancelled" \/ ~Applicable(result)
  /\ chunks' = Stamped(result, IF result.outcome = "cancelled" THEN "cancelled" ELSE "stale")
  /\ relight' = TRUE
  /\ UNCHANGED <<state, light>>

\* The tick fails, and with it the session.
Fail(result) ==
  /\ result.outcome = "failed" /\ Applicable(result)
  /\ state' = "solve_failed"
  /\ chunks' = Stamped(result, "requested")
  /\ relight' = TRUE
  /\ UNCHANGED light

\* Which cells change is left open, but the same field changes none.
Publish(result) ==
  /\ result.outcome = "succeeded" /\ Applicable(result)
  /\ light' = [c \in Resident |-> Solved(result.snapshot)]
  /\ \E changed \in SUBSET {c \in Resident : light[c] # light'[c]} :
       chunks' = [c \in Resident |->
                    [chunks[c] EXCEPT !.dirty = FALSE, !.stage = "resident",
                                      !.rev = IF c \in changed THEN @ + 1 ELSE @]]
  /\ UNCHANGED <<state, relight>>

Apply ==
  /\ state = "running" /\ phase = "refreshed"
  /\ phase' = "applied"
  /\ IF mailbox = <<>>
     THEN UNCHANGED <<state, chunks, light, relight, active, mailbox>>
     ELSE LET result == Head(mailbox)
          IN  /\ mailbox' = Tail(mailbox)
              /\ active' = "none"
              /\ Discard(result) \/ Fail(result) \/ Publish(result)
  /\ UNCHANGED <<worldVars, adopted, observed, build, job>>

--------------------------------------------------------------------------------
(* The last part: begin_snapshot, advance_snapshot, submit_snapshot.                  *)

\* Mutant: a build begins although a job is in flight.
MayBeginAnyway == build = None /\ relight

MayBegin == build = None /\ active = "none" /\ relight

Begun ==
  [c \in Resident |-> IF chunks[c].stage = "requested" THEN chunks[c]
                      ELSE [chunks[c] EXCEPT !.ticket = @ + 1, !.stage = "requested"]]

NewBuild(table) ==
  [stage |-> "copying", setting |-> adopted, copied |-> 0,
   gens |-> [c \in DOMAIN table |-> table[c].gen],
   tickets |-> [c \in DOMAIN table |-> table[c].ticket],
   revs |-> [c \in DOMAIN table |-> table[c].rev],
   cells |-> [c \in DOMAIN table |-> {}]]

\* snapshot_still_current; it need not ask for the palette, which resets the build.
StillCurrent(snapshot) ==
  /\ SameChunks(snapshot) /\ snapshot.setting.sources = adopted.sources
  /\ \A c \in Resident : Current(c, snapshot) /\ chunks[c].rev = snapshot.revs[c]

\* The chunks are copied in the order of their coordinates, Budget cells at a time.
Position(table, c) == Cardinality({d \in DOMAIN table : d < c})

Copied(snapshot, table) ==
  LET from == snapshot.copied
      last == from + Budget
      Overlaps(c) == /\ Position(table, c) * Cells < last
                     /\ from < (Position(table, c) + 1) * Cells
  IN  [snapshot EXCEPT !.copied = IF last < Cardinality(DOMAIN table) * Cells
                                  THEN last ELSE Cardinality(DOMAIN table) * Cells,
                       !.cells = [c \in DOMAIN table |->
                                    @[c] \cup IF Overlaps(c) THEN {geometry[c]} ELSE {}]]

Complete(snapshot) == snapshot.copied = Cardinality(DOMAIN snapshot.cells) * Cells

\* The pool takes one job and counts the last one until its worker is through with it.
Submit(snapshot, table) ==
  /\ build' = None
  /\ IF active # "none" \/ job # None
     THEN /\ state' = IF active # "none" THEN "scheduler_full" ELSE "pool_full"
          /\ relight' = TRUE
          /\ chunks' = table
          /\ UNCHANGED <<active, job>>
     ELSE /\ job' = [stage |-> "queued", snapshot |-> snapshot]
          /\ active' = "live"
          /\ chunks' = [c \in DOMAIN table |-> [table[c] EXCEPT !.stage = "running"]]
          /\ relight' = FALSE
          /\ UNCHANGED state

Advance(snapshot, table) ==
  IF Complete(snapshot)
  THEN Submit(snapshot, table)
  ELSE /\ build' = snapshot /\ chunks' = table /\ relight' = FALSE
       /\ UNCHANGED <<state, active, job>>

Build ==
  /\ state = "running" /\ phase = "applied"
  /\ phase' = "idle"
  /\ \/ /\ MayBegin
        /\ Advance(Copied(NewBuild(Begun), Begun), Begun)
     \/ /\ ~MayBegin /\ build = None
        /\ UNCHANGED <<state, chunks, relight, build, active, job>>
     \/ /\ build # None /\ StillCurrent(build)
        /\ Advance(Copied(build, chunks), chunks)
     \/ /\ build # None /\ ~StillCurrent(build)
        /\ Invalidate(1)
        /\ UNCHANGED <<state, job>>
  /\ UNCHANGED <<worldVars, light, adopted, observed, mailbox>>

--------------------------------------------------------------------------------
(* The worker.                                                                        *)

\* Mutant: a job that finds itself cancelled publishes nothing.
DeliveredUnlessCancelled(outcome) ==
  IF outcome = "cancelled" THEN mailbox ELSE Append(mailbox, [outcome |-> outcome, snapshot |-> job.snapshot])

Delivered(outcome) == Append(mailbox, [outcome |-> outcome, snapshot |-> job.snapshot])

Deliver(outcome) == job' = [job EXCEPT !.stage = "finishing"] /\ mailbox' = Delivered(outcome)

Worker == UNCHANGED <<state, phase, chunks, light, worldVars, systemVars>>

\* The flag is looked at before the solver runs and again after it.  A cancellation that
\* comes between the second look and the publication finds the result published as it is.
Take ==
  /\ job.stage = "queued"
  /\ IF active = "cancelled" THEN Deliver("cancelled")
     ELSE job' = [job EXCEPT !.stage = "solving"] /\ UNCHANGED mailbox
  /\ Worker

Solve ==
  /\ job.stage = "solving"
  /\ \E o \in {"succeeded", "failed", "cancelled"} :
       (o = "cancelled" => active = "cancelled") /\ Deliver(o)
  /\ Worker

\* The pool stops counting the job after it has published its own result.
Retire == job.stage = "finishing" /\ job' = None /\ UNCHANGED mailbox /\ Worker

\* shutdown: the worker is joined, results and snapshot are thrown away.
Shutdown ==
  /\ state \in {"running", "pool_full", "solve_failed"} /\ (state = "running" => phase = "idle")
  /\ state' = "stopped"
  /\ build' = None /\ active' = "none" /\ relight' = FALSE /\ observed' = <<>>
  /\ job' = None /\ mailbox' = <<>>
  /\ UNCHANGED <<phase, chunks, light, worldVars, adopted>>

Update == Refresh \/ Apply \/ Build

Next ==
  \/ \E c \in 1..Line : Edit(c) \/ Touch(c) \/ Load(c) \/ Unload(c)
  \/ \E what \in {"sources", "palette"} : Change(what)
  \/ Update
  \/ Take \/ Solve \/ Retire
  \/ Shutdown

Spec == Init /\ [][Next]_vars

\* The tick goes on while the server runs, and so does the worker.
Fairness == /\ WF_vars(Update)
            /\ WF_vars(Take) /\ WF_vars(Solve) /\ WF_vars(Retire)

FairSpec == Spec /\ Fairness

--------------------------------------------------------------------------------
TypeOK ==
  /\ state \in {"running", "stopped", "pool_full", "solve_failed"}
  /\ phase \in {"idle", "refreshed", "applied"}
  /\ Resident \subseteq 1..Line /\ DOMAIN light = Resident
  /\ \A c \in Resident :
       chunks[c].stage \in {"requested", "running", "resident", "stale", "cancelled"}
  /\ active \in {"none", "live", "cancelled"}
  /\ job.stage \in {"none", "queued", "solving", "finishing"}
  /\ Len(mailbox) <= 1

\* Light that appears in the world was solved from exactly the world it appears in: all
\* chunks, their content in one version each, and the sources and blocks of today.
NoStaleField ==
  [][\A c \in DOMAIN light \cap DOMAIN light' : light'[c] # light[c] => light'[c] = Field]_vars

\* After the update has looked, a chunk that does not show the light of the world as it
\* is does not have a resident lighting stage either, and a request, a snapshot or a job
\* is there to bring that light.
StageTruth ==
  state = "running" /\ phase # "idle" =>
    \A c \in Resident : \/ Fresh(c)
                        \/ /\ chunks[c].stage # "resident"
                           /\ relight \/ build # None \/ active # "none"

\* Once the world stops changing, its light becomes right and stays so.
Settles == <>[](state # "running" \/ \A c \in Resident : Fresh(c))
================================================================================

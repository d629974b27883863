# Formal models of heartstead

heartstead is a voxel game engine and a game on it: a fixed-step authoritative
server, clients that may sit in the same process or behind UDP, worker threads for
loading, meshing and saving, and a save database that has to survive crashes. This
directory holds TLA+ models of the parts in which order, interleaving or failure
decides whether the program is right, the TLC runs that check them, and proofs.

    tlc -workers 2 -config MCJobSystem.cfg MCJobSystem     (any run below)
    tlapm JobSystemProofs.tla

`PROJECT.json` lists components, runs, findings, hazards and theorems, and for every
definition that models code the lines it models. Paths below are relative to the
repository.

## 1. The system

### Threads

| thread | runs | shares |
| --- | --- | --- |
| owner (main loop) | `HeartsteadApplicationMode::update`, `RuntimeSession::run_frame`, `ServerRuntime::run_tick`, `HostSession::tick`, all gameplay stores | nothing without a mailbox |
| job workers | `worker_loop` of `thread_pool_backend.cpp`: chunk loads, meshes, light, collision | the pool's two mutexes |
| save worker | the one worker of `SaveScheduler`'s own pool, and through it `FileSaveDatabase` | `SharedState::mailbox`, the cancellation flags, the save directory |

Everything else is single-threaded: commands run on the owner thread against a copied
world that is moved in on success, so a handler sees no interleaving. What makes this
program hard is where the owner meets a worker, the disk or the network.

### Components

| component | state | operations | talks to | what makes it correct |
| --- | --- | --- | --- | --- |
| job system (`engine/jobs`) | deque, running table, result mailbox, id and dispatch counters, one cancellation token per job | `submit`, `request_cancel`, `drain_completed`, destruction, the worker loop | used by loading, meshing, lighting, collision, saving | each accepted job gets one verdict, limits hold, an acknowledged cancellation decides the verdict, nobody waits for ever |
| snapshot database (`engine/save/save_database.cpp`) | journal entries, journal checkpoint, generations, `current.txt` | `journal_snapshot`, `write_snapshot`, `compact_snapshot_journal`, `recover_snapshot_journal`, `prune_stale_generations`, `read_snapshot` | the filesystem | an accepted snapshot survives every crash and every error |
| chunk-delta database (same file) | base table, backup, journal directory, retired journal, table lease | retained writers and readers, compaction, bulk replacement, recovery | the filesystem; snapshots replace its generation | the same for deltas; a reader keeps the view it validated |
| save scheduler (`save_scheduler.cpp`) | active requests, reserved bytes, mailbox | `submit`, `submit_checkpoint`, `drain_completed`, `shutdown` | job pool below, application above | every request is answered within the budgets |
| checkpoint retries (`save_checkpoint_retry.cpp`) | root -> owed checkpoint | `defer`, `next_due`, `note_submitted`, `note_outcome`, `note_completed_externally` | the application | a checkpoint that is owed is made or given up loudly |
| application save path (`heartstead_application_mode.cpp`) | why it waits for each request, error flags, the session | autosave, exit save, polling, retries, shutdown | scheduler, retry queue | a session is left silently only if its save is on disk |
| reliable UDP (`engine/net/transport*.cpp`) | per endpoint: keys in flight, remembered keys, reorder buffer, token | handshake, send, acknowledge, retry, drop, poll | sockets; sessions above | commands once and in order; nothing acknowledged is lost |
| host and client sessions (`host_session.cpp`, `client_session.cpp`) | outbound backlog per client, command sequence, replication sequence, connection state | `tick`, `flush_outbound`, `receive_server_message` | transport, dispatcher, runtime | no committed result is lost silently, one client does not hurt another |
| chunk replication (`server_runtime.cpp`, `chunk_subscription.cpp`, `replication_delta.cpp`, `client_runtime.cpp`) | per client: place, subscriptions, publications; on the client: chunks with their revisions, half-assembled snapshots | `refresh_replication_chunk_interest`, `send_replication_delta_snapshots_for_tick`, `advance_chunk_publications_from_voxel_deltas`, `synchronize_client_chunk_subscription`; `ClientRuntime::synchronize` | sessions below, the world beside it | the table says what the client will have; a client ends with the chunks it is subscribed to |
| chunk streaming (`engine/world/streaming`) | requests in flight, typed results, resident set, speculations | `update`: publish, plan, cancel, evict, submit | job system, world | nothing obsolete enters the world; what is required is loaded |
| lighting (`engine/world/lighting`, `chunk_stage_ledger.cpp`) | dirty observations, snapshot being copied, one job, a stage per chunk | `update`: collect, apply, copy and submit | its own job pool; edits, loads and unloads of the world | light that appears belongs to the world it appears in; dirty chunks are relit |
| world commands and transactions (`engine/net/server_*`, `engine/world`) | the world | validate, apply on a copy, move in | host session | atomic, single-threaded |
| movement and prediction, processes, physics, gameplay stores | owner-thread stores | per tick | world | sequential; candidates for pure operators |
| renderer, assets, scripting, UI, tools | device and start-up state | - | - | outside these models |

The hard behaviours, each with its line in `PROJECT.json` "hazards": two mutexes
guarding one predicate; results visible in one mailbox before the other; a flush that
fails after its rename; a crash between any two renames; a lease that has to exclude a
replacement for the life of a reader; an outcome that arrives after its entry was
replaced; a load or a light field that comes back to a world that has moved on; a table
of what a client has, kept by someone who only sees what he queued; a datagram lost,
repeated or overtaken; a session that ends between
acceptance and greeting; limits of mailboxes, backlogs and reorder windows.

## 2. Modules

    JobContract  <--refines--  JobSystem  <--extends--  MCJobSystem, JobSystemProofs
    SaveStore    <--refines--  SnapshotJournal  <--  MCSnapshotJournal, SnapshotJournalProofs
                               ChunkJournal     <--  MCChunkJournal, ChunkJournalProofs
    CheckpointRetry, SaveScheduler  <--extends--  SavePipeline <-- SavePipelineProofs
    CommandStream <--refines--  RemoteSession <-- RemoteSessionProofs
                                RemoteSession --extends-->  ReliableChannel
    ChunkLoadScheduler <--extends-- ChunkStreaming <-- MCChunkStreaming, ChunkStreamingProofs
    ChunkSubscription  <--extends-- ChunkReplica   <-- MCChunkReplica, ChunkReplicaProofs
    ChunkLighting <--extends-- ChunkLightingProofs

### JobContract, JobSystem: the job pool

`JobContract` is what `IJobSystem` promises whichever backend runs the jobs. `JobSystem`
is the thread pool: one action per critical section. `submit` is the mailbox check
(`SubmitCheck`), the section under `jobs_mutex_` (`SubmitEnqueue`, `SubmitRejected`) and
the notification; a worker takes a job, skips it or finds its token clear (`WorkerClear`), begins
the callback in a later step because no mutex is held in between, returns, reads the token once
more, and publishes. The wait for mailbox space is three steps (`WorkerFindsFull`,
`WorkerBlock`, wake-up), because the destructor changes that predicate while it holds the
other mutex only. Spurious wake-ups are steps. Deque, running table and mailbox are sets
of jobs in a phase: ids are handed out under the mutex in enqueue order, so the order of
the deque is the order of ids. The dispatch count a job was enqueued at is cleared when it
leaves the deque, because nothing reads it afterwards. Callbacks of `Resubmitters` call `submit` themselves.

### SaveStore, SnapshotJournal: full snapshots

`SaveStore` is a register: offer, accept, and a crash that takes back nothing accepted.
`SnapshotJournal` has one action per durable step, and two views of the directories:
`live`, what the process sees, and `stable`, what is known to be on disk. A rename or a
removal changes `live`; the flush of the directory copies it to `stable`. A crash keeps,
for each name that differs, either view, independently. An error ends the operation
between two steps and leaves `live` as it is; `ErrorsAt` names the steps at which a run
lets it happen. Operations that mutate hold `mutation_mutex` throughout, so one program
counter serves them all, and an operation finding it taken is refused without effect.

### ChunkJournal: chunk deltas

Retained writers with the statistics they were opened with, readers with the catalogue
they validated, checkpoint, bulk replacement with backup and roll-back, the retired
journal and its recovery. Directory renames are atomic and the set `roots` holds every
namespace a crash may leave since the last flush of the root; names inside a journal
directory settle one by one; a removed tree may come back half-empty. `possible` is the
history an observer keeps: the tables he may be shown, given what was acknowledged. A
full snapshot is two steps here (`AcceptSnapshot`, `CompactSnapshot`): its own crash
behaviour is SnapshotJournal's subject.

### SaveScheduler, CheckpointRetry, SavePipeline: saving in the application

`SaveScheduler` has the owner's bookkeeping and the job on the worker, with the typed
result visible before the pool has finished the job. `CheckpointRetry` is the retry table
as pure operators; its clock is counted in frames. `SavePipeline` extends both with
`HeartsteadApplicationMode`: one frame is poll, drain, one step per result, at most one
retry, then the state's own update, and the worker steps in between; shutdown is its own
path. What a root holds is two numbers, the newest accepted and the newest compacted
request. Abstractions: any due retry is chosen, the wait in frames has no backwards clock,
slot metadata is left out, a failing journal has no effect on the disk.

### CommandStream, ReliableChannel, RemoteSession: one remote player

`ReliableChannel` holds `TransportReliabilityTracker` and
`TransportReliableCommandSequencer` as operators on records. `RemoteSession` composes the
client transport, the client session, the host transport and `HostSession`. The network is
the set of all datagrams ever sent: never taken is lost, taken twice is duplicated, and
there is no order, so a retransmission only counts an attempt. A server tick is
`BeginTick` (maintenance, greetings, first flush), the pump and drain, one `Dispatch` per
message, `EndTick`. A flush sends any prefix of the backlog that fits the in-flight limit,
which stands for byte and message budgets and a refused `sendto`. `CommandStream` is what
the player may rely on.

Assumed in RemoteSession: the `sendto` of a welcome and of a retransmission succeeds (a
refusal there fails `poll_maintenance` or the welcome, and with it the tick or the client's
frame; listed as a hazard); one remote client that connects once; the idle timeout is
longer than a tick. Left out: world events and bootstrap, fragments, rate limits, keepalives
and unreliable traffic, loopback clients, 2^64 exhaustion of sequences.

### ChunkLoadScheduler, ChunkStreaming: loading chunks around the viewers

`ChunkLoadScheduler` has the requests by coordinate, the typed mailbox, the queue of results
that an update left over, and the pool's own count of its jobs: a job publishes its typed
result first and is counted as finished later ("retiring", `generic`), so what
`AvailableSlots` promises and what the pool accepts (`PoolRoom`) differ. `ChunkStreaming` is
`PredictiveChunkStreamingController::update` in two actions, `Publish` (results of earlier
requests, `note_speculative_outcome`) and `Plan` (the policy's plan, cancellation, eviction,
submission), between which workers move. A view is a set of required, predicted and retained
chunks, and every update sees any view, so every walk and every teleport is a behaviour. Whether
a speculation has expired or a chunk is inside its temporal retention is open at each plan.
The saved-delta source of a request and the flush of evicted deltas are left out: the scenario
that streams has none.

### ChunkSubscription, ChunkReplica: a client's copy of the world

`ChunkSubscription` is the server for one remote client. A tick is `Gateway` (the relevance
rule taken from the publications, the commands, their event batches, the flush at the end of
`HostSession::tick`), whatever the simulation does to chunks, and `Replicate` (typed deltas,
advance of the publications, planner, removals, snapshots, flush). A command issued by another
player changes a voxel, or the record of a saved subject. Versions are load generation and
content revision. `Deliver` disconnects a client whose mandatory batch finds no room;
`Deltas` that find none fail the tick. Removals and snapshots that find none are deferred.
`ChunkReplica` adds the client: a frame takes the first n messages on the wire, applies chunk
messages (at most `FrameSlices`), then batches and deltas. The channel keeps its order here.
A flush sends any prefix of the backlog, and which candidate is taken first is open. The model
lets derived light, loads and unloads happen in one session although the one caller that streams
switches dynamic lighting off; that only adds behaviours. Left out: several clients and the
global backlog, command results, budgets in bytes, the bootstrap of a joining client, filters
by recipient, commands that change a voxel and a record at once.

### ChunkLighting: derived light

One action for each of the three parts of `ChunkLightSystem::update` (`Refresh`, `Apply`,
`Build`), because the worker moves in between; `Take`, `Solve` and `Retire` are the job.
What light depends on is a version per chunk (`geometry`) and the setting (fire sources and
palette); the light of a chunk is represented by the `Field` it was solved from, and a snapshot
collects, for each chunk, the versions it saw while it was copied, so a torn copy would be
visible as two. Tickets, states and dirty flags are those of the lighting stage. An edit may or
may not be told to the dirty-region tracker, as its callers do. Left out: the solver's
arithmetic, ids that run out, latency statistics, the other stages of the ledger.

## 3. Runs

| run | question | bounds | fairness |
| --- | --- | --- | --- |
| `pool_safety` | accounts, cancellation, how often a job is overtaken, refinement of the contract | 2 workers, 1 caller, 3 ids, ranks 1 and 2, 2 pending, mailbox 1; workers symmetric | none |
| `pool_liveness` | does a job marked while it waits never run; is every accepted job resolved; does destruction join | 2 workers, one of them submitting from callbacks, 2 ids, mailbox 1 | below |
| `pool_shutdown` (violation) | does every destruction join | 1 worker, 2 ids, mailbox 1 | below |
| `snapshot_store` | do accepted snapshots survive | 2 entries, 3 generations, 2 snapshots, keep 0 or 1; errors at seven of nine steps | none |
| `chunk_journal` | do acknowledged deltas survive, do readers keep their view | 2 chunks, 2 writers (symmetric), 1 reader, 2 entries, 3 updates, 1 snapshot; errors at five steps | none |
| `save_pipeline` | is every request answered, is a checkpoint always owed or told, does leaving keep the save | 1 root, 3 requests of sizes 1 and 2, 2 concurrent, budget 3, 2 attempts, delays 2 and 3 | below |
| `remote_session` | exactly once, in order, nothing acknowledged lost, everything settles | 2 commands, 2 in flight, 2 attempts, duplicate memory 1, backlog 1, 1 session | below |
| `early_leave` (violation) | can one client end the session of all | same | none |
| `chunk_streaming` | do controller, policy and scheduler agree, does anything obsolete enter, is the required loaded | 3 chunks, 3 views, 2 requests, 1 worker, 1 submission and 1 eviction an update | below |
| `chunk_replica` | is the publication table true, is an edit ever sent without its base, does the client converge, while chunk messages stay queued in it and as long as no edit overtakes them (`WaitingSpec`) | 2 chunks, 3 places, 2 slices, budget 1, backlog 4, 1 addition and 1 removal an update, 3 events | below |
| `replica_record` (violation) | does every change of a record reach the client | same, budget 20, 1 event | below |
| `chunk_lighting` | is light ever applied to another world than it was solved from, is it ever forgotten | 3 chunks in a row, 2 cells each, 3 cells copied an update, 2 events | below |

Why these bounds are enough to be interesting: every limit is reached and passed by one in
the run that is about it. A mailbox of one place and two workers make one worker wait while
the other publishes; three ids exhaust the range and let two jobs be pending while one is
drained; two journal entries allow one to be removed while the other is pending; three
generations allow one orphan beside an old and a new one; three updates make two writers
collide on a number; three requests put an autosave, an exit save and a checkpoint in
flight; two requests and a view of two predicted chunks make one wait; a backlog of four
holds a whole snapshot and two more messages, so that both deferral and disconnection happen;
three cells an update tear the copy of a chunk over two updates; a duplicate memory of one key forgets the first command while its copies are still
in the network. Bounds exist only where a counter would otherwise grow: `LastSequence`,
`LastGeneration`, `LastSnapshot`, `LastJournal`, `LastValue`, `LastRequestId`,
`LastJobId`, `LastCommand`, `LastSession`, `MaxEvents`. `LastJobId` and `LastRequestId` also stand for
the code's own exhaustion, which the models carry to the end. Two sessions of one endpoint
(`LastSession = 2`, one attempt) were run once with all properties of `remote_session`:
293 240 states, no error; they are too many for the regular run. The safety properties of
`chunk_lighting` were run once with `MaxEvents = 3` (3.3 million states), those of `chunk_replica`
with `MaxEvents = 4` (1.9 million): no error.

`ErrorsAt` in `snapshot_store` leaves out `checkpoint_written` (after a failed flush of the
checkpoint's directory the next compaction trusts the visible checkpoint) and
`manifest_written` (pruning may remove the generation that the older manifest on disk names).
`chunk_journal` leaves out `created` (a journal directory whose creating call failed to flush is
never flushed by later calls) and `retired` (a half-removed journal may come back under its old
name). Adding any one of the four to its run violates `AcceptedSurvives` within seconds; each is
a listed hazard, and these omissions are where the two runs' claims end.

Deadlock checking is off because every bounded run may come to its end: ids, sequences or
commands run out, the events of a run are used up, the pool is joined, the application has
quit, or the session is closed or faulted.
That the system does not stop too early is what the liveness properties say.

## 4. What the properties say

Job pool. `AccountingExact`: `pending_count_`, which admission trusts, is exactly the
number of accepted jobs without a result, and no limit is passed, although it is changed
under two different mutexes. `CancelHonoured`, `VerdictExplained`: an acknowledged
cancellation decides the verdict wherever the worker is, and a cancelled verdict always has
a recorded reason. `QueuedMarkHolds`: a token set while the job waits in the deque, by a caller or
by the destructor, keeps its callback from ever starting. No more is promised: between the worker's
reading of the token (`thread_pool_backend.cpp` 379) and the call (383) a token may still be set, and
the callback starts. It is a temporal formula, so no history variable is added to the model for
it. `BypassBound`: an old job is overtaken by at most as many younger ones as it needs
dispatches to reach the top rank. `EveryJobResolved`, `JoinsUnlessBlocked` are liveness.
`ImplementsContract` is refinement.

Saves. `AcceptedSurvives` speaks of every outcome a crash may have at this moment, not only
of crashes that happen.
`PinnedViewsHold`, `MaintenanceInvisible`: what readers and several
writers may rely on, at each single step of maintenance. `ReservationCovers`,
`EveryRequestAnswered`: memory and results of the scheduler. `CheckpointOwed`: a snapshot
that is accepted but not compacted is scheduled, in flight, about to be consumed or
reported. `NewestSnapshotWins`, `ExitSaveDurable`, `DeferredSettled`, `ShutdownEnds`.

Network. `AckedCommandIsHeld`: a command that the client's tracker no longer repeats,
because it was acknowledged, is executed, in the inbox or held for its predecessors.
`AnsweredOrCut`: the result of an executed command is in the backlog, in flight, with the
player, or was dropped after its attempts; a client whose result found no room is not kept.
`ImplementsStream`: execution exactly once, in order, and results of executed commands
only. `EveryCommandSettles`: every issued command is answered, or one of the named reasons
(given up, result dropped, session ended) holds.

Chunks. `NeverMismatched`: none of the errors that the controller raises when policy, scheduler
and its own table disagree can occur, whatever the viewers do and in whatever order results come.
`OnlyWantedPublished`: a load that a teleport has made obsolete is rejected although it succeeded.
`RequiredLoaded`: what stays required is loaded, also if it was requested as a speculation that
is being cancelled. `PublicationsAreTrue`: everything on its way to the client (backlog, wire,
inbox), taken in order on top of what it has, gives exactly the chunks and revisions of the
publication table, and no edit among it lacks its base; the server decides from that table alone
what it sends next. It speaks of a client that no delta without its base has faulted, and of frames
in which no edit overtakes a queued chunk message (`EditsWait`): the code ensures neither (section
7). In `chunk_replica` the budget of one slice binds in almost every frame, and the condition is part
of the specification the run checks (`WaitingSpec`). `Converges`, under the same condition: when the world rests, the client has exactly the chunks it is
subscribed to. `NoStaleField`: light that appears was solved from the whole world as it is.
`StageTruth`: a chunk whose light is out of date does not say resident, and a request, a snapshot
or a job is there to relight it. `Settles`: the light becomes right and stays so.

Properties of the earlier models whose bugs also break one of these were removed: an entry that
is overwritten or a sequence number that is used twice shows in `AcceptedSurvives`, an outcome
that its retry entry does not expect in `CheckpointOwed`.

Every property of a passing run has a mutant: an operator beside the definition it
replaces, marked `Mutant:`, that changes it as a plausible bug would.

## 5. Fairness

Pool: a thread that can run does (strong, because the mutex it needs is repeatedly free),
callbacks return, a submit in progress completes, the owner keeps draining as its frame
loop does, and a destructor goes on. Nobody has to submit, cancel or destroy. Pipeline:
the pool's thread and the owner's loop are scheduled; nobody has to save or quit. Remote
session: the client polls its transport every frame and the server ticks. `EndTick(TRUE)`
is strongly fair because byte windows reopen each second and a full socket drains, so some
tick sends the head of a backlog; host retries are strongly fair because every poll repeats
what is due and the poll phase recurs. Nothing is assumed of the network, which may lose
every datagram, nor of timeouts, nor of the player. Streaming: the tick goes on, and the aging
of the pool gives every job its worker in the end (strong fairness of `Deliver`); nothing is
assumed of the viewers. Replica: ticks and frames go on; `Gateway` with a whole flush is strongly
fair because budgets and windows come back and the backlog then drains to its end; the client takes
frames, of which only that some go on is assumed (`Frame /\ EditsWait`; there always is one, since a
frame may take its queue only, or the head of the wire). Lighting: ticks go on and the worker does. In all three nobody has to edit, load or move, and
liveness is about a world that comes to rest, because the events of a run are bounded.

## 6. Proofs

Each component has a module of proofs. All follow one pattern: an invariant
that is a conjunction of named parts is shown to hold initially and to be kept by each action
in a step of its own, and the properties follow from it. The assumptions are the named ones of
the modules (limits not zero, numbers in range); in none of them does a theorem bound the number
of threads, chunks, requests, commands or events. Two results about crashes and two about
replication have a hypothesis that is stated in the theorem itself (`Reliable`; `EditsWait`) and is discussed where it occurs.

### The job pool

`JobSystemProofs` proves, for any number of workers, callers and ids, any limits and any
aging, under the named assumptions of `JobSystem` (limits non-zero, ranks and reasons in
range, workers and callers distinct):

* `TypeCorrect`: `Spec => []TypeOK`. `TypeOK` is not inductive alone: a worker indexes the
  job tables by `held[w]`, so `Holding` (a busy worker holds an id) is added in `TypeInv`.
* `CancelIsHonoured`, `VerdictIsExplained`: by `VerdictInv`, which adds that a busy worker
  owns its job alone and the job is in the structure its program counter says (`Owned`),
  that ids to come are unused (`FreshIds`), that an untouched job has no outcome
  (`Untouched`), what the worker's local result means at each point of the loop
  (`LocalResult`), and where a token can come from (`AcknowledgedMarked`, `TokenOrigin`).
* `FirstReasonIsKept`: the action property of the token (in no run: the theorem covers it), from
  the same invariant.
* `QueuedMarkIsKept`: `Spec => QueuedMarkHolds`. A job that is marked and waits is `Barred`: it has not
  run, its token stays set, and no worker that holds it has found the token clear. `MarkBars` gets
  there from `VerdictInv` (a queued job is held by no worker: `Owned`), and every step keeps it
  (`BarredStep`).
* `LimitsHold`: `AccountingInv`, the counter against the cardinality of the active set,
  with lemmas on adding and removing one element.
* `AgingBoundsBypass`: `Spec => []BypassBound`. A job is passed at most once in a dispatch, so the
  bound on its age in dispatches (`AgeBelowRank`, the arithmetic of the aging division) bounds
  `bypass`; `BypassInv` ties the two counters (`PassedWhileAging`) and says that an id not handed
  out was passed by nobody. `PassedBelowHighest` is the heart: at equal ranks the older job goes
  first, so whoever passes it finds it below the highest rank.
* `PoolImplementsContract`: initial states map to initial states and every step maps to a
  step of `JobContract` or stutters. The accounting invariant is needed because the
  contract's `Accept` and `Report` have the limits as guards.

### The full-snapshot database

`SnapshotJournalProofs`, for any number of sequences, generations and snapshots and any
retention. `TypeCorrect` has no hypothesis. The other three are proved under `Reliable`: the
flushes after the renames of the manifest and of the checkpoint do not fail. Every other step may
fail, and a crash may come between any two. The hypothesis is no convenience: with either flush failing TLC
finds an accepted save lost (section 3), so the theorems would be false without it.

* `JournalInvariant`: `JournalInv` is inductive. Its parts say what separates the names the
  process sees from those a crash may leave: manifest and checkpoint are flushed before anything
  else is done (`Flushed`); entries are numbered in the order of their snapshots and none that
  counts was removed (`Ordered`); what was accepted is in a stable entry or in the generation,
  and an entry that may surface instead is not older (`Safe`); and what each program counter
  of append, compaction and prune already guarantees (`Progress`).
* `AcceptedSurvivesCrashes`: `AcceptedSurvives`, from `Safe` and `Ordered`.
* `ImplementsSaveStore`: every step is a step of the register `SaveStore` or a stutter.

### The chunk-delta database

`ChunkJournalProofs`, for any coordinates, writers, readers and bounds.

* `OperationInvariant`: where an operation is says what it may assume of the locks it holds
  (`Locked`), of the tables in the root (`Placed`) and of the entry it writes (`Penned`); an open
  writer that may still write knows the last entry, whatever others wrote (`Pens`); `Views` and
  `PinnedViewsHold` say what a lease keeps.
* `TypeCorrect`, `PinnedViewsAreKept` (`PinnedViewsHold`), `MaintenanceIsInvisible`
  (`MaintenanceInvisible`): no further hypothesis, all errors and crashes included.
* `CrashInvariant`, `AcceptedIsDurable` (`AcceptedSurvives`): under `Reliable`, the flushes after
  creating the journal directory and after renaming it to its compacted name do not fail. As
  above, TLC loses an acknowledged delta when either may fail. `CrashInv` adds `Shared` (all
  namespaces a crash may leave agree on the journal, and no leftover is the journal of another),
  `Kept` (flushed entries stay), `Foreseen` (each such namespace shows a table that is allowed) and
  `Attempted` (what the operation at work is about to show is allowed). The lemma that carries
  compaction is `CheckpointIsForeseen`: applying the entries again to a base that already
  holds them gives a table that a crash could have left before.

### Saving in the application

`SavePipelineProofs`, for any roots, requests, sizes and limits. `PipelineInvariant` has ten parts:
next to types, where a request is (`Placed`), what the owner keeps of it until its result is
consumed (`Captured`), the sum of the reservations (`Counted`, with a sum over a set turned into
a cardinality so that no induction is needed), that one worker and numbered requests keep snapshots
in order (`InOrder`), what a result says of the disk (`Truthful`), which root is owed a
compaction by whom (`Owing`), and how far leaving the session is (`Exiting`, `Stages`). From it:
`TypeCorrect`, `ReservationHolds` (`ReservationCovers`), `Answered` (`EveryRequestAnswered`),
`CheckpointIsOwed` (`CheckpointOwed`), `NewestWins` (`NewestSnapshotWins`) and `ExitIsDurable`
(`ExitSaveDurable`).

### One remote player

`RemoteSessionProofs`, for any number of commands and any limits, over a network that loses,
repeats and reorders. `SessionInvariant`: what the server executed followed by its inbox is
the gapless stream of the session, and the sequencer knows where it goes on (`Streaming`); each
datagram and each remembered key has its origin in that stream (`Upward`, `Downward`); a
client is connected once in its life and sends nothing before its welcome (`Joining`); limits hold
(`Limits`). The duplicate memory forgets, so exactly-once cannot be proved from it: it
is the sequencer's number that rejects a forgotten copy, and `Upward` says so. From it:
`TypeCorrect`, `AckedCommandIsSafe` (`AckedCommandIsHeld`), `ResultsAreKept` (`AnsweredOrCut`) and
`ImplementsCommandStream`, the refinement of `CommandStream`.

### Loading chunks

`ChunkStreamingProofs`, for any chunks (finitely many, as coordinates have a fixed width), views and
limits. `StreamingInvariant`: each result is that of an active request and no request has two
(`Answers`), the controller tracks exactly what the scheduler works on (`Tracking`), and a
request is for a missing chunk that is wanted or being cancelled (`Wanted`). From it `TypeCorrect`,
`PolicyAndControllerAgree` (`NeverMismatched`) and `ObsoleteNeverEnters` (`OnlyWantedPublished`).

### A client's copy of the world

`ChunkReplicaProofs`, for any finite set of chunks, any places, any policy of the planner, any number
of slices, any limit of the backlog and any budget of a frame:

* `ReplicaInvariant`: `Sound` is inductive. `Typed`: nothing, on the client or on its way, is
  ahead of the chunk it is about (`Recent`), and the limits hold. `InOrder`: no slice on its way is
  older than an edit of its chunk that was sent before it. `IdleReports`: between ticks no report
  is left to advance the table.
* `TypeCorrect`: `Spec => []TypeOK`, the limits of subscription and backlog included.
* `TableIsTrue`: `Spec /\ [][EditsWait]_vars => []PublicationsAreTrue`. What is inductive is
  `TableTrue`, which in the middle of a tick compares what the client will have (`Expected`) with
  the table after the reports of the tick (`Published`).

A tick appends to what is on its way: it has to bring a copy that equals the table to one that
equals the new table. For edits that is shown command by command (`GatewaySound`); for deltas,
removals and whole snapshots, with whatever is deferred, in `SynchronizeFacts`. A frame does
not change what the client will have, although it takes chunk messages first and the edits
after them: an edit may change places with a chunk message sent after it (`Commute`), because a
slice is never older (`InOrder`) and a removal ends both; `FrameOrder` moves each chunk message to
the front past the edits before it. The two orders do not give equal copies, since an assembly
that an edit has overtaken may be dropped early, so they are compared by `Alike`: same chunks, and
assemblies that differ only in what is obsolete.

`EditsWait` says that a frame which leaves chunk messages in its queue applies no edit. It is needed:
without it the table is not true (section 7). A frame may take 128 slices; the condition fails
only when more arrive or wait, which the code does not exclude. The run `chunk_replica` has a
budget of 1 and the same condition.

Folds over messages and commands are functions of the prefix here (`Fold`). What one computes is
followed through its trace, a function on `0..Len(s)`, and what holds at 0 and is kept by each
step holds at the end by the least position where it would fail (`Smallest`, `UpTo`), from the
well-foundedness of the natural numbers.

### Light

`ChunkLightingProofs` proves, for any number of chunks, any chunk size and copying budget and
any number of events, under the assumptions of `ChunkLighting` (sizes positive, the first
chunks in the row):

* `LightInvariant`: `LightInv` is inductive. Its parts: `TypeInv`; `OneField` (one of snapshot,
  job in flight and waiting result at a time); `CopyInv` (a copy `Agrees` with the world: in a
  chunk of the same identity and revision every copied cell shows the content of today, and what
  the copy has passed is `Covered`); `Watching` (what `collect_dirty` remembers is not newer than
  the world, and equals it between the parts of an update); and `Promise`, which is `StageTruth`
  seen from between two updates: as long as the next update would notice nothing, what it will
  claim already holds of what the last one saw.
* `TypeCorrect`: with `OneField`, submission never finds a second active job ("scheduler_full" is
  not in `TypeOK`) and the mailbox never holds two results.
* `StagesAreTruthful`: `Spec => []StageTruth`. `StageTruth` alone is not inductive: an event between
  updates breaks it silently, and only what `observed` recorded makes the next `Refresh` see it.
* `LightIsNeverStale`: `Spec => NoStaleField`. Light changes only in `Publish`; an applicable
  result has the revisions of today, so by `CopyInv` each of its chunks shows the content of
  today and nothing else, although it was copied over several ticks.

The events of the world enter this proof only through `Drift` (identity kept and revision grown,
or a new identity above every version seen), so it holds for any other event with that shape.

### What stays model-checked

* All liveness: `EveryJobResolved`, `JoinsUnlessBlocked`, `DeferredSettled`, `ShutdownEnds`,
  `EveryCommandSettles`, `RequiredLoaded`, `Converges`, `Settles`. Fairness and `ENABLED` are
  out of the prover's reach.
* `PublicationsAreTrue` without `EditsWait` is not claimed at all: it is not true for all constants
  (section 7), so its run, too, is a claim about frames that satisfy the condition.
* The three runs that expect a violation. What the save databases do once a flush that `Reliable`
  names has failed is neither proved nor claimed: there the code can lose an accepted save.

## 7. Findings

Three runs show a disagreement between the code and what the repository says of it; the quotes
are in `PROJECT.json`.

1. `pool_shutdown`: the destructor notifies `completed_space_available_` without holding
   `completed_mutex_`; a worker between its failed predicate and its wait misses it, and
   the join never returns. `JoinsUnlessBlocked` shows that this is the only way.
2. `early_leave`: a client that is accepted and leaves before the next poll makes the
   welcome fail; the tick fails and with it the session of everybody.
3. `replica_record`: the event batch of a command and its typed delta are flushed in two places
   of a tick; a client frame in between drops the batch as pending and the next one drops the
   delta as unmatched, so the change is lost.

Other behaviours that the models reach, without a run of their own, are hazards in
`PROJECT.json`:

* A failed flush of the checkpoint's directory, of the manifest or of a new journal directory,
  followed by a crash, loses an accepted save (section 3).
* A retry entry is erased while its attempt is in flight, and the outcome is refused or booked
  on its successor. No snapshot is lost (`CheckpointOwed`).
* A typed delta that does not fit one slow client's backlog faults the session of everybody
  (`host = "faulted"`), although the batch before it would have cut that client only.
* An edit and the removal of its chunk that arrive in one frame fault the client
  (`client = "base_missing"`), because chunk messages are applied first. With `FrameSlices = 1`,
  one chunk and four events an edit overtakes a removal and a snapshot that are still queued, and the client
  stays one revision behind a table that says it is current: under `Spec` alone
  `PublicationsAreTrue` fails there. `TableIsTrue` proves that nothing else breaks it.
* Lighting and loading submit to a pool that still counts a finished job ("pool_full"): the
  submission is refused and the tick fails. It needs a worker that is delayed between two
  statements for a whole tick.
* A chunk loaded without the dirty-region tracker and unloaded between two updates of the light
  leaves its neighbour's lighting stage "requested" with nothing to bring it; the light itself is
  right, so `StageTruth` asks only of chunks that are not `Fresh`.

## 8. Crash model

Only a successful flush makes names durable. Contents of a file are durable before its
rename (the code flushes the file first), so no torn files. In `SnapshotJournal` unflushed
names settle independently, and the journal directory itself is taken to exist durably; in
`ChunkJournal` directory renames in the save root are ordered by a history of namespaces
and the creation of the journal directory is a step of its own. A crash also ends the
process: leases, statistics and program counters are gone.

## 9. Plan

Done: (1) job pool with contract and proofs; (2) snapshot and chunk databases; (3)
scheduler, retries and application; (4) reliable channel and remote session; (5) chunk
streaming; (6) chunk replication; (7) lighting; proofs for all of them.

Next, most important first:

8. Replication on the unordered channel: `ChunkReplica` over `ReliableChannel` (hazards at
   `client_runtime.cpp` 171 and `client_session.cpp` 297), in smaller instances of both.
9. Save slots and schema migration composed with the pipeline (two hazards); movement
    reconciliation and process aggregation as operators against reference definitions.

Each addition replaces or joins a run rather than adding a near copy of one.

## 10. Not modelled

The immediate job backend of `job_system.cpp` runs a callback inside `submit`: nothing
interleaves there. `SaveScheduler::cancel` of one request is left out: the application calls
it only when the retry queue refuses to account for an attempt it has just offered.
Codecs, packet formats, fragment reassembly and recovery of damaged texts: data, where the
repository's round-trip tests enumerate better than a model checker. World state,
generation, the light solver, fluids, physics and movement: numeric and sequential. The
synchronous chunk streamer, transient snapshots of players and entities, and replication interest
beyond chunks: one thread, no state that later ticks depend on. Renderer,
audio, UI, platform, assets, scripting, replay, tools: devices, start-up or offline, with no
state the components above depend on for correctness. The in-memory transport keeps its
order by construction. Each is listed with its reason under "components".

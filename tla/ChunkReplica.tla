------------------------------ MODULE ChunkReplica ------------------------------
(***************************************************************************)
(* The remote client's copy of the world, composed with the server side of  *)
(* ChunkSubscription over a reliable channel that keeps the order (the UDP  *)
(* channel, which does not, is ReliableChannel).                            *)
(*                                                                         *)
(* ClientRuntime::synchronize runs once per frame: chunk messages first, at *)
(* most FrameSlices of them, then every batch and every delta received.  An *)
(* error faults the session of a remote client.                             *)
(***************************************************************************)
EXTENDS ChunkSubscription

CONSTANT FrameSlices   \* client_chunk_snapshot_slices_per_sync

ASSUME FrameSlicesAssumption == FrameSlices \in Nat \ {0}

VARIABLES client,    \* "running", or the error that faulted the session
          inbox,     \* chunk messages received and not applied
          remote,    \* remote_chunks_ and the chunks they describe: chunk -> version
          assembly,  \* chunk_snapshot_assemblies_: chunk -> version and slices received
          held       \* the version of the saved subject's record

clientVars == <<client, inbox, remote, assembly, held>>
vars == <<serverVars, clientVars>>

Init ==
  /\ host = "running" /\ phase = "idle"
  /\ world = [c \in Chunks |-> Version(1, 1)]
  /\ generation = [c \in Chunks |-> 1]
  /\ record = 0 /\ held = 0
  /\ place = Start
  /\ subscribed \in {{}, place.desired} /\ publications = Restrict(world, subscribed)
  /\ reports = <<>> /\ sequence = 0 /\ backlog = <<>> /\ wire = <<>>
  /\ online = TRUE
  /\ events = IF subscribed = {} THEN 1 ELSE 0   \* joining counts as one
  /\ client = "running" /\ inbox = <<>> /\ remote = publications /\ assembly = <<>>

--------------------------------------------------------------------------------
\* remote_revision_covers
Covers(v, w) == v.gen > w.gen \/ (v.gen = w.gen /\ v.rev >= w.rev)

Without(f, c) == Restrict(f, DOMAIN f \ {c})

\* A slice of what the client has, or of less than it assembles, is dropped; one of a
\* new version starts an assembly; the last one installs the chunk.
ApplySlice(copy, m) ==
  LET c == m.chunk
      assembling == c \in DOMAIN copy.assembly
      same == assembling /\ copy.assembly[c].version = m.version
      got == (IF same THEN copy.assembly[c].got ELSE {}) \cup {m.y}
  IN  IF \/ c \in DOMAIN copy.remote /\ Covers(copy.remote[c], m.version)
         \/ assembling /\ ~same /\ Covers(copy.assembly[c].version, m.version)
      THEN copy
      ELSE IF got = 1..Slices
      THEN [copy EXCEPT !.remote = Put(@, c, m.version), !.assembly = Without(@, c)]
      ELSE [copy EXCEPT !.assembly = Put(@, c, [version |-> m.version, got |-> got])]

ApplyRemoval(copy, m) ==
  [copy EXCEPT !.remote = Without(@, m.chunk), !.assembly = Without(@, m.chunk)]

ApplyChunkMessage(copy, m) ==
  IF m.kind = "slice" THEN ApplySlice(copy, m) ELSE ApplyRemoval(copy, m)

\* plan_voxel_delta: an error, or the revisions after the edits of the batches.
PlanEdit(plan, batch) ==
  LET c == batch.chunk
  IN  CASE plan.error # "none" \/ batch.about # "voxel" -> plan
        [] plan.error = "none" /\ batch.about = "voxel" /\ c \notin DOMAIN plan.remote ->
             [plan EXCEPT !.error = "base_missing"]
        [] plan.error = "none" /\ batch.about = "voxel" /\ c \in DOMAIN plan.remote ->
             IF Covers(plan.remote[c], batch.version) THEN plan
             ELSE IF Advanced(plan.remote[c]) = batch.version
             THEN [plan EXCEPT !.remote[c] = batch.version]
             ELSE [plan EXCEPT !.error = "base_gap"]

IsChunkMessage(m) == m.kind \in {"slice", "removal"}
IsBatch(m) == m.kind = "batch"
IsDelta(m) == m.kind = "delta"
IsEdit(m) == IsBatch(m) /\ m.about = "voxel"

\* Chunk messages are applied one by one, batches are planned one by one.
Plan(copy, m) == IF IsBatch(m) THEN PlanEdit(copy, m) ELSE copy
Take(copy, m) == IF IsChunkMessage(m) THEN ApplyChunkMessage(copy, m) ELSE Plan(copy, m)
Taken(copy, messages) == Fold(Take, copy, messages)
Planned(copy, messages) == Fold(Plan, copy, messages)

Enqueue(some, m) == IF IsChunkMessage(m) THEN Append(some, m) ELSE some
ChunkMessages(messages) == Fold(Enqueue, <<>>, messages)

\* A record batch is applied from its delta if that is there too, and else dropped; a
\* delta without its batch is dropped.
Matched(messages) ==
  {d \in Range(messages) : /\ IsDelta(d)
                           /\ \E b \in Range(messages) : /\ IsBatch(b) /\ b.about = "record"
                                                           /\ b.seq = d.seq}

NewestHeld(messages) == Max({held} \cup {d.held : d \in Matched(messages)})

\* An assembly that the edits have overtaken is discarded.
StillNeeded(parts, versions) ==
  Restrict(parts, {c \in DOMAIN parts : c \in DOMAIN versions =>
                                           ~Covers(versions[c], parts[c].version)})

Copy == [remote |-> remote, assembly |-> assembly, error |-> "none"]

(* One frame, in which the first n messages on the wire have arrived. *)
Receive(n) ==
  /\ client = "running"
  /\ \E arrived \in {SubSeq(wire, 1, n)} : \E queued \in {inbox \o ChunkMessages(arrived)} :
       LET taken == Smaller(FrameSlices, Len(queued))
       IN  /\ n + taken > 0
           /\ inbox' = SubSeq(queued, taken + 1, Len(queued))
           /\ \E copy \in {Taken(Copy, SubSeq(queued, 1, taken))} :
              \E plan \in {Planned(copy, arrived)} :
                IF plan.error = "none"
                THEN /\ remote' = plan.remote
                     /\ assembly' = StillNeeded(plan.assembly, plan.remote)
                     /\ held' = NewestHeld(arrived)
                     /\ client' = client
                ELSE /\ client' = plan.error
                     /\ remote' = copy.remote /\ assembly' = copy.assembly /\ held' = held
  /\ wire' = SubSeq(wire, n + 1, Len(wire))
  /\ UNCHANGED <<host, phase, simulationVars, subscribed, publications, reports,
                 sequence, backlog, online>>

Frame == \E n \in 0..Len(wire) : Receive(n)

Server ==
  /\ \/ \E n \in 0..Len(backlog), commands \in Commands : Gateway(n, commands)
     \/ Replicate
     \/ \E c \in Chunks : Load(c) \/ Unload(c) \/ Relight(c)
     \/ \E p \in Places : Move(p)
  /\ UNCHANGED clientVars

Next == Server \/ Frame

Spec == Init /\ [][Next]_vars

\* Ticks and frames go on.  The budgets and the window come back, so the backlog drains
\* time and again, and what was sent arrives.
ServerFairness == /\ WF_vars(Replicate /\ UNCHANGED clientVars)
                  /\ SF_vars(Gateway(Len(backlog), <<>>) /\ UNCHANGED clientVars)

Fairness == ServerFairness /\ WF_vars(Receive(Len(wire)))

FairSpec == Spec /\ Fairness

--------------------------------------------------------------------------------
Live == host = "running" /\ client = "running" /\ online

IsVersion(v) == v.gen \in Nat /\ v.rev \in Nat

TypeOK ==
  /\ host \in {"running", "faulted"} /\ phase \in {"idle", "simulation"}
  /\ client \in {"running", "base_missing", "base_gap"}
  /\ Cardinality(subscribed) <= MaxSubscribed /\ subscribed \subseteq Chunks
  /\ DOMAIN publications \subseteq subscribed
  /\ \A c \in DOMAIN publications : IsVersion(publications[c])
  /\ Len(backlog) <= MaxBacklog
  /\ \A c \in DOMAIN assembly : assembly[c].got \subseteq 1..Slices /\ assembly[c].got # 1..Slices
  /\ held \in 0..record

\* What the client would have after everything on its way, taken in the order sent.
Expected == Taken(Copy, inbox \o wire \o backlog)

\* A frame that leaves chunk messages for the next applies no edits.  The code does not
\* ensure it: when more chunk messages are queued than a frame takes, the edits received
\* with them are applied before those that stay queued.
EditsWait == inbox' # <<>> => \A k \in 1..(Len(wire) - Len(wire')) : ~IsEdit(wire[k])

\* An edit is sent to a client only after the chunk in the exact preceding revision:
\* what is on its way can be taken in the order sent, whatever the client has applied.
\* Between ticks the publication table is what the client will have once it has taken
\* everything on its way, whatever was split, deferred or dropped in between.  It holds
\* of behaviours whose frames satisfy EditsWait, and of a client that is not faulted.
PublicationsAreTrue ==
  Live => /\ Expected.error = "none"
          /\ phase = "idle" => Expected.remote = publications

Synchronized == /\ place.desired \subseteq subscribed
                /\ remote = [c \in subscribed \cap DOMAIN world |-> world[c]]

\* When the world comes to rest, the client ends with the exact chunks that it is
\* subscribed to, unless a session faults or the client is disconnected.  Like the
\* property above it is about frames that satisfy EditsWait.
Converges == <>[](~Live \/ Synchronized)

\* Every change of a record reaches a client that stays.
RecordArrives == <>[](~Live \/ held = record)
================================================================================

---------------------------- MODULE ChunkSubscription ----------------------------
(***************************************************************************)
(* The authoritative side of chunk replication for one remote client: the   *)
(* subscription planner, the publication table, the relevance rule taken    *)
(* from it and the bounded reliable backlog (ServerRuntime, HostSession).   *)
(*                                                                         *)
(* Other players issue the commands.  A command changes a voxel of a chunk, *)
(* or the record of a saved subject that this client always sees; each      *)
(* yields an event batch when it is executed and a typed delta in the       *)
(* replication phase of the same tick.  A chunk version is its load         *)
(* generation and its content revision.  A flush sends any prefix of the    *)
(* backlog: the tick, byte and window budgets and the transport decide.     *)
(***************************************************************************)
EXTENDS Integers, Sequences, FiniteSets, SequencesExt, FiniteSetsExt, Functions

CONSTANTS Chunks,
          Places,         \* [desired, retain]: what the planner wants around a place
          Start,          \* where the player is at first
          MaxSubscribed,  \* max_chunks_per_client
          MaxAdditions,   \* max_additions_per_update
          MaxRemovals,    \* max_removals_per_update
          Slices,         \* slices of a snapshot (VoxelChunk::edge_length)
          MaxBacklog,     \* max_pending_reliable_messages_per_client
          MaxEvents       \* bound: commands, loads, unloads, reliefs and moves in all

ASSUME StartAssumption == Start \in Places
ASSUME ChunksAssumption == IsFiniteSet(Chunks)   \* coordinates have a fixed width
ASSUME PlacesAssumption ==
  \A p \in Places : /\ p.desired \subseteq p.retain /\ p.retain \subseteq Chunks
                    /\ Cardinality(p.desired) <= MaxSubscribed
ASSUME PolicyValid == {MaxSubscribed, MaxAdditions, MaxRemovals, Slices, MaxBacklog} \subseteq Nat \ {0}

VARIABLES host,          \* "running", "faulted": a failed tick faults the session
          phase,         \* of the tick: "idle", "simulation"
          world,         \* resident chunk -> version
          generation,    \* chunk -> the last load generation it was given
          record,        \* version of the saved subject
          place,         \* where the client's player is
          subscribed,    \* chunk_subscriptions
          publications,  \* chunk_publications: chunk -> version
          reports,       \* the commands of this tick that were relevant to the client
          sequence,      \* the last replication sequence
          backlog,       \* pending_outbound_ of the client
          wire,          \* sent and not received
          online,        \* the transport session of the client
          events         \* events so far

simulationVars == <<world, generation, record, place, events>>
serverVars == <<host, phase, simulationVars, subscribed, publications, reports,
                sequence, backlog, wire, online>>

\* The value of Op(x, m), with x evaluated once.
Strict(Op(_, _), x, m) == CHOOSE y \in {Op(v, m) : v \in {x}} : TRUE

\* Op applied to the members of a sequence in turn, as a function of the prefix.
Fold(Op(_, _), base, s) ==
  LET after[n \in 0..Len(s)] == IF n = 0 THEN base ELSE Strict(Op, after[n - 1], s[n])
  IN  after[Len(s)]

\* A table with the entry of one key added or replaced.
Put(table, c, entry) == [d \in DOMAIN table \cup {c} |-> IF d = c THEN entry ELSE table[d]]

Version(g, r) == [gen |-> g, rev |-> r]
Advanced(v) == [v EXCEPT !.rev = @ + 1]

Slice(c, v, y) == [kind |-> "slice", chunk |-> c, version |-> v, y |-> y]
Removal(c) == [kind |-> "removal", chunk |-> c]
VoxelBatch(n, c, v) == [kind |-> "batch", seq |-> n, about |-> "voxel", chunk |-> c, version |-> v]
RecordBatch(n) == [kind |-> "batch", seq |-> n, about |-> "record"]
Delta(n, held) == [kind |-> "delta", seq |-> n, held |-> held]

Snapshot(c) == [y \in 1..Slices |-> Slice(c, world[c], y)]

Room == MaxBacklog - Len(backlog)

--------------------------------------------------------------------------------
(* The start of a tick: refresh_replication_chunk_interest, then HostSession::tick    *)
(* drains the old backlog, executes the commands and drains what they produced.       *)

\* The publications that equal the chunk.
Visible ==
  {c \in DOMAIN publications \cap DOMAIN world : publications[c] = world[c]}

\* What a command leaves for the client: its batch; if that does not fit, the client
\* is disconnected and its connection is removed.
Deliver(s, batch) ==
  IF Len(s.backlog) < MaxBacklog
  THEN [s EXCEPT !.backlog = Append(@, batch), !.reports = Append(@, batch)]
  ELSE [s EXCEPT !.backlog = <<>>, !.reports = <<>>, !.online = FALSE]

Execute(s, command) ==
  LET n == s.sequence + 1
      next == [s EXCEPT !.sequence = n]
  IN  CASE command = "record" ->
             IF s.online THEN Deliver([next EXCEPT !.record = @ + 1], RecordBatch(n))
                         ELSE [next EXCEPT !.record = @ + 1]
        [] command # "record" /\ command \in DOMAIN s.world ->
             LET edited == [next EXCEPT !.world[command] = Advanced(@)]
             IN  IF s.online /\ command \in Visible
                 THEN Deliver(edited, VoxelBatch(n, command, edited.world[command]))
                 ELSE edited
        [] OTHER -> s

Commands == {<<>>} \cup {<<a>> : a \in Chunks \cup {"record"}}
            \cup ((Chunks \cup {"record"}) \X (Chunks \cup {"record"}))

Gateway(n, commands) ==
  /\ host = "running" /\ phase = "idle"
  /\ events + Len(commands) <= MaxEvents
  /\ events' = events + Len(commands)
  /\ phase' = "simulation"
  /\ \E s \in {Fold(Execute,
                [world |-> world, record |-> record, sequence |-> sequence, reports |-> <<>>,
                 online |-> online, backlog |-> SubSeq(backlog, n + 1, Len(backlog))], commands)} :
       /\ world' = s.world /\ record' = s.record /\ sequence' = s.sequence
       /\ online' = s.online /\ reports' = s.reports
       /\ subscribed' = IF s.online THEN subscribed ELSE {}
       /\ publications' = IF s.online THEN publications ELSE <<>>
       /\ \E m \in 0..Len(s.backlog) :
            /\ wire' = wire \o SubSeq(backlog, 1, n) \o SubSeq(s.backlog, 1, m)
            /\ backlog' = SubSeq(s.backlog, m + 1, Len(s.backlog))
  /\ UNCHANGED <<host, generation, place>>

--------------------------------------------------------------------------------
(* What the rest of the simulation does to the replicated state before the phase      *)
(* that replicates it.                                                                *)

Simulation(newWorld, newGeneration, newPlace) ==
  /\ host = "running" /\ phase = "simulation" /\ events < MaxEvents
  /\ events' = events + 1
  /\ world' = newWorld /\ generation' = newGeneration /\ place' = newPlace
  /\ UNCHANGED <<host, phase, record, subscribed, publications, reports, sequence,
                 backlog, wire, online>>

Edited == {b.chunk : b \in {r \in Range(reports) : r.about = "voxel"}}

Load(c) ==
  /\ c \notin DOMAIN world
  /\ Simulation(Put(world, c, Version(generation[c] + 1, 1)),
                [generation EXCEPT ![c] = @ + 1], place)

\* Streaming never evicts a chunk that is dirty, as one edited in this tick is.
Unload(c) ==
  /\ c \in DOMAIN world \ Edited
  /\ Simulation(Restrict(world, DOMAIN world \ {c}), generation, place)

\* Fluids and derived light advance the content revision; they emit no event.
Relight(c) ==
  /\ c \in DOMAIN world
  /\ Simulation([world EXCEPT ![c] = Advanced(@)], generation, place)

Move(p) == p \in Places \ {place} /\ Simulation(world, generation, p)

--------------------------------------------------------------------------------
(* The replication phase.  send_replication_delta_snapshots_for_tick: one delta for   *)
(* each report, an admission error fails the tick.                                    *)

Deltas == [i \in DOMAIN reports |-> Delta(reports[i].seq, record)]

\* Mutant: the publication takes the revision that the chunk has by now.
AdvanceToChunk(table, report) ==
  IF report.about = "voxel" /\ report.chunk \in DOMAIN table
  THEN [table EXCEPT ![report.chunk] = world[report.chunk]] ELSE table

\* advance_chunk_publications_from_voxel_deltas: exactly the next revision advances.
AdvancePublication(table, report) ==
  IF /\ report.about = "voxel" /\ report.chunk \in DOMAIN table
     /\ Advanced(table[report.chunk]) = report.version
  THEN [table EXCEPT ![report.chunk] = report.version] ELSE table

Published == Fold(AdvancePublication, publications, reports)

Smaller(m, n) == IF m < n THEN m ELSE n
Excess(m, n) == IF m > n THEN m - n ELSE 0
Subsets(S, n) == {s \in SUBSET S : Cardinality(s) = n}

\* plan_chunk_subscriptions: what lies outside the retain volume goes; if the desired
\* additions lack room, so does what is retained and not desired.  Distance orders the
\* candidates of a class; it is left open.
Removals ==
  LET outside == subscribed \ place.retain
      out == Smaller(MaxRemovals, Cardinality(outside))
      wanted == Smaller(MaxAdditions, Cardinality(place.desired \ subscribed))
      capacity == MaxSubscribed - (Cardinality(subscribed) - out)
      spare(o) == (subscribed \ o) \ place.desired
      evictions(o) == Smaller(Excess(wanted, capacity),
                              Smaller(MaxRemovals - out, Cardinality(spare(o))))
  IN  UNION {{o \cup e : e \in Subsets(spare(o), evictions(o))} : o \in Subsets(outside, out)}

Additions(removed) ==
  LET missing == place.desired \ (subscribed \ removed)
      capacity == MaxSubscribed - Cardinality(subscribed \ removed)
  IN  Subsets(missing, Smaller(Smaller(MaxAdditions, capacity), Cardinality(missing)))

\* Mutant: the removals are queued past the limit of the backlog.
AdmittedAlways(chunks, room) == {chunks}

\* A removal that does not fit is deferred: subscription and publication stay.
Admitted(chunks, room) == Subsets(chunks, Smaller(Cardinality(chunks), room))
Messages(chunks) == [i \in DOMAIN SetToSeq(chunks) |-> Removal(SetToSeq(chunks)[i])]

\* Additions planned against a removal that was deferred wait for the capacity.
Adopted(kept, added) ==
  Subsets(added, Smaller(Cardinality(added), Excess(MaxSubscribed, Cardinality(kept))))

\* Mutant: a publication is compared by revision only.
StaleByRevision(wanted, table) ==
  {c \in wanted \cap DOMAIN world : c \notin DOMAIN table \/ table[c].rev # world[c].rev}

Stale(wanted, table) ==
  {c \in wanted \cap DOMAIN world : c \notin DOMAIN table \/ table[c] # world[c]}

\* Whole snapshots while the backlog has room; the serialization budget may end the
\* round after the first.
Snapshots(stale, room) ==
  {s \in UNION {SetToSeqs(some) : some \in SUBSET stale} :
     IF stale = {} \/ room < Slices THEN s = <<>>
     ELSE s # <<>> /\ Len(s) * Slices <= room}

AddSnapshot(queued, c) == queued \o Snapshot(c)
SlicesOf(chunks) == Fold(AddSnapshot, <<>>, chunks)

\* Chunks whose snapshot is queued are published as they are.
Republished(table, chunks) ==
  [c \in chunks \cup DOMAIN table |-> IF c \in chunks THEN world[c] ELSE table[c]]

(* synchronize_client_chunk_subscription after the deltas, given the backlog so far. *)
Synchronize(queued, table) ==
  \E removed \in Removals : \E added \in Additions(removed) :
  \E left \in Admitted(removed \cap DOMAIN table, MaxBacklog - Len(queued)) :
    LET deferred == (removed \cap DOMAIN table) \ left
        kept == subscribed \ (removed \ deferred)
        remaining == Restrict(table, DOMAIN table \ left)
        afterRemovals == queued \o Messages(left)
    IN  \E adopted \in Adopted(kept, added) :
        \E gone \in Admitted(DOMAIN remaining \ DOMAIN world, MaxBacklog - Len(afterRemovals)) :
          LET known == Restrict(remaining, DOMAIN remaining \ gone)
              afterGone == afterRemovals \o Messages(gone)
              wanted == kept \cup adopted
          IN  \E s \in Snapshots(Stale(wanted, known), MaxBacklog - Len(afterGone)) :
                LET all == afterGone \o SlicesOf(s)
                IN  /\ subscribed' = wanted
                    /\ publications' = Republished(known, Range(s))
                    /\ \E n \in 0..Len(all) : /\ wire' = wire \o SubSeq(all, 1, n)
                                                /\ backlog' = SubSeq(all, n + 1, Len(all))

Replicate ==
  /\ host = "running" /\ phase = "simulation"
  /\ phase' = "idle"
  /\ reports' = <<>>
  /\ IF Len(Deltas) > Room
     THEN host' = "faulted" /\ UNCHANGED <<subscribed, publications, backlog, wire>>
     ELSE /\ host' = host
          /\ IF online THEN Synchronize(backlog \o Deltas, Published)
                       ELSE UNCHANGED <<subscribed, publications, backlog, wire>>
  /\ UNCHANGED <<simulationVars, sequence, online>>
================================================================================

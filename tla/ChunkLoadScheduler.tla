--------------------------- MODULE ChunkLoadScheduler ---------------------------
(***************************************************************************)
(* ChunkLoadScheduler, engine/world/streaming/chunk_load_scheduler.cpp: the *)
(* owner thread submits one generation job per coordinate to a thread pool, *)
(* a job leaves its typed result in a mailbox, and the owner collects and   *)
(* publishes a bounded number of results per update.                        *)
(*                                                                         *)
(* A job first publishes its typed result and only then does the pool count *)
(* it as finished: between the two steps the job is "retiring".  The pool   *)
(* itself is the one JobContract specifies: its pending jobs are the ones   *)
(* at work and the retiring ones, its ready results are the generic ones.   *)
(* The memory reservations are equal per request, so they and the request   *)
(* limit are one bound.  The scenario that streams has no saved deltas.     *)
(***************************************************************************)
EXTENDS Integers, Sequences, FiniteSets, Functions

CONSTANTS Chunks,           \* chunk coordinates
          WorkerCount,      \* ChunkLoadSchedulerConfig.worker_count
          MaxRequests,      \* max_concurrent_requests, max_pending_jobs of the pool
          MaxCompleted,     \* max_completed_results, of the pool's mailbox too
          MaxPublications   \* max_publications_per_update

ASSUME ChunksAssumption == IsFiniteSet(Chunks)   \* coordinates have a fixed width
ASSUME SchedulerConfigValid == /\ {WorkerCount, MaxRequests, MaxPublications} \subseteq Nat \ {0}
                               /\ MaxCompleted \in Nat /\ MaxCompleted >= MaxRequests

VARIABLES requests,   \* active_requests_ by coordinate: is the job at work, is it cancelled
          mailbox,    \* SharedState::completed
          ready,      \* ready_for_publication_
          retiring,   \* jobs that left their typed result and not yet their generic one
          generic,    \* generic results in the pool's mailbox
          resident    \* WorldState::chunks()

schedulerVars == <<requests, mailbox, ready, retiring, generic>>

Smaller(m, n) == IF m < n THEN m ELSE n
Excess(m, n) == IF m > n THEN m - n ELSE 0

Active == DOMAIN requests
AtWork == {c \in Active : requests[c].atWork}

SchedulerInit == /\ requests = <<>>
                 /\ mailbox = <<>>
                 /\ ready = <<>>
                 /\ retiring = 0
                 /\ generic = 0

--------------------------------------------------------------------------------
(* The worker threads *)

\* Mutant: a cancelled job returns without a result.
DeliverUnlessCancelled(c) ==
  /\ c \in AtWork
  /\ retiring < WorkerCount
  /\ mailbox' = IF requests[c].cancelled THEN mailbox
                ELSE Append(mailbox, [chunk |-> c, state |-> "succeeded"])
  /\ requests' = [requests EXCEPT ![c].atWork = FALSE]
  /\ retiring' = retiring + 1
  /\ UNCHANGED <<ready, generic, resident>>

\* A job reads its flag between the stages, so it may miss a late cancellation.
Deliver(c) ==
  /\ c \in AtWork
  /\ retiring < WorkerCount
  /\ \E state \in {"succeeded", "failed", "cancelled"} :
       /\ state = "cancelled" => requests[c].cancelled
       /\ mailbox' = IF Len(mailbox) < MaxCompleted
                     THEN Append(mailbox, [chunk |-> c, state |-> state]) ELSE mailbox
  /\ requests' = [requests EXCEPT ![c].atWork = FALSE]
  /\ retiring' = retiring + 1
  /\ UNCHANGED <<ready, generic, resident>>

Retire == /\ retiring > 0
          /\ generic < MaxCompleted
          /\ retiring' = retiring - 1
          /\ generic' = generic + 1
          /\ UNCHANGED <<requests, mailbox, ready, resident>>

--------------------------------------------------------------------------------
(* update, on the owner thread *)

Collected == ready \o mailbox

\* Results one update may process: at least one, then until a budget is spent.
Processable == IF Collected = <<>> THEN {0} ELSE 1..Smaller(MaxPublications, Len(Collected))

\* Mutant: the flag is not read again before the publication.
VerdictUnchecked(r) == IF r.state # "succeeded" THEN r.state
                       ELSE IF r.chunk \in resident THEN "stale" ELSE "published"

Verdict(r) == IF requests[r.chunk].cancelled THEN "cancelled"
              ELSE VerdictUnchecked(r)

\* The chunks among the first n results that have this verdict.
With(verdict, n) == {Collected[i].chunk : i \in {k \in 1..n : Verdict(Collected[k]) = verdict}}
Processed(n) == {Collected[i].chunk : i \in 1..n}

PublishResults(n) ==
  /\ ready' = SubSeq(Collected, n + 1, Len(Collected))
  /\ mailbox' = <<>>
  /\ generic' = 0
  /\ resident' = resident \cup With("published", n)
  /\ requests' = Restrict(requests, Active \ Processed(n))
  /\ UNCHANGED retiring

--------------------------------------------------------------------------------
(* submit, cancel, cancel_all_except, shutdown *)

\* Mutant: one request too many.
AvailableSlotsRounded == MaxRequests + 1 - Cardinality(Active)

AvailableSlots == MaxRequests - Cardinality(Active)

\* What the pool still accepts, which is not what AvailableSlots says.
PoolRoom == IF generic >= MaxCompleted THEN 0
            ELSE MaxRequests - Cardinality(AtWork) - retiring

\* The flags after cancel and cancel_all_except, and the new requests.
CancelAndSubmit(cancelled, submitted) ==
  requests' = [c \in Active \cup submitted |->
                 IF c \in Active
                 THEN [requests[c] EXCEPT !.cancelled = @ \/ c \in cancelled]
                 ELSE [atWork |-> TRUE, cancelled |-> FALSE]]

\* The pool is joined, so no worker is left.
ShutdownScheduler == /\ requests' = <<>>
                     /\ mailbox' = <<>>
                     /\ ready' = <<>>
                     /\ retiring' = 0
                     /\ generic' = 0
================================================================================

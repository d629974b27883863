----------------------------- MODULE SaveScheduler -----------------------------
(***************************************************************************)
(* SaveScheduler (engine/save/save_scheduler.cpp): the owner's bookkeeping, *)
(* the worker's job and the one-worker pool it runs on.                     *)
(*                                                                         *)
(* A job pushes its typed result into the scheduler's mailbox before the    *)
(* pool counts it as done, so the owner can see a result while the pool     *)
(* still holds the job.  What the database does is SnapshotJournal's        *)
(* matter: here a root has a newest accepted and a newest compacted         *)
(* request, and a call either takes effect or fails.                        *)
(***************************************************************************)
EXTENDS Integers, Sequences, FiniteSets, FiniteSetsExt

CONSTANTS Databases,          \* database roots
          Sizes,              \* working reservations a snapshot can be measured at
          LastRequestId,      \* the largest representable id; ids start at 1
          MaxConcurrent,      \* SaveSchedulerConfig.max_concurrent_requests
          MaxResults,         \* max_completed_results
          MaxRequestBytes,    \* max_request_working_bytes
          MaxReservedBytes    \* max_reserved_working_bytes

ASSUME SizesAssumption == Sizes \subseteq Nat \ {0}
ASSUME LimitsAssumption ==    \* SaveSchedulerConfig::validate
  /\ MaxConcurrent \in Nat \ {0}
  /\ MaxResults \in Nat
  /\ MaxResults >= MaxConcurrent
  /\ MaxRequestBytes \in Nat \ {0}
  /\ MaxReservedBytes \in Nat
  /\ MaxRequestBytes <= MaxReservedBytes
  /\ LastRequestId \in Nat \ {0}

Requests == 1..LastRequestId
NoRequest == [kind |-> "none", root |-> "none", bytes |-> 0]
NoResult == [state |-> "none", compacted |-> FALSE, error |-> "none"]

VARIABLES
  request,    \* id -> what the job's closure captured
  stage,      \* id -> how far the pool and the job are
  result,     \* id -> the SaveResult the job fills in
  cancelled,  \* ids whose cancellation flag is set
  active,     \* active_requests_
  reserved,   \* stats_.reserved_working_bytes
  nextId,     \* next_request_id_, 0 when the range is exhausted
  mailbox,    \* SharedState::mailbox
  disk        \* root -> newest accepted and newest compacted request

worker == <<stage, result, mailbox, disk>>
ledger == <<request, cancelled, active, reserved, nextId>>
schedulerVars == <<request, stage, result, cancelled, active, reserved, nextId, mailbox, disk>>

InStage(stages) == {i \in Requests : stage[i] \in stages}
Unfinished == {"queued", "started", "journalled", "decided", "published"}
Bytes(ids) == MapThenSumSet(LAMBDA i : request[i].bytes, ids)
Positions(seq) == {seq[k] : k \in DOMAIN seq}

SchedulerInit ==
  /\ request = [i \in Requests |-> NoRequest]
  /\ stage = [i \in Requests |-> "unused"]
  /\ result = [i \in Requests |-> NoResult]
  /\ cancelled = {}
  /\ active = {}
  /\ reserved = 0
  /\ nextId = 1
  /\ mailbox = <<>>
  /\ disk = [r \in Databases |-> [accepted |-> 0, compacted |-> 0]]

--------------------------------------------------------------------------------
(* The owner: submit, submit_checkpoint, drain_completed, shutdown *)

HasCapacity == Cardinality(active) < MaxConcurrent /\ reserved < MaxReservedBytes

\* Mutant: the number of requests is left to the pool.
WithinMemory(bytes) == bytes <= MaxRequestBytes /\ bytes <= MaxReservedBytes - reserved

WithinBudget(bytes) == /\ bytes <= MaxRequestBytes
                       /\ Cardinality(active) < MaxConcurrent
                       /\ bytes <= MaxReservedBytes - reserved

\* The pool still counts a job whose typed result the owner has already drained.
PoolAdmits == /\ Cardinality(InStage(Unfinished)) < MaxConcurrent
              /\ Cardinality(InStage({"finished"})) < MaxResults

Admits(bytes) == WithinBudget(bytes) /\ PoolAdmits /\ nextId # 0

Submit(kind, root, bytes) ==
  /\ request' = [request EXCEPT ![nextId] = [kind |-> kind, root |-> root, bytes |-> bytes]]
  /\ stage' = [stage EXCEPT ![nextId] = "queued"]
  /\ active' = active \cup {nextId}
  /\ reserved' = reserved + bytes
  /\ nextId' = IF nextId = LastRequestId THEN 0 ELSE nextId + 1
  /\ UNCHANGED <<result, cancelled, mailbox, disk>>

\* Mutant: the reservation outlives the request.
DrainTypedOnly ==
  /\ mailbox' = <<>>
  /\ active' = active \ Positions(mailbox)
  /\ UNCHANGED <<request, stage, result, cancelled, reserved, nextId, disk>>

\* account_completed; the pool's own results are drained in a step of their own.
DrainTyped ==
  /\ mailbox' = <<>>
  /\ active' = active \ Positions(mailbox)
  /\ reserved' = reserved - Bytes(active \cap Positions(mailbox))
  /\ UNCHANGED <<request, stage, result, cancelled, nextId, disk>>

DrainPool ==
  /\ stage' = [i \in Requests |-> IF stage[i] = "finished" THEN "drained" ELSE stage[i]]
  /\ UNCHANGED <<request, result, cancelled, active, reserved, nextId, mailbox, disk>>

\* What was captured and answered is gone once the owner has consumed the result.
Forget(i) == /\ request' = [request EXCEPT ![i] = NoRequest]
             /\ result' = [result EXCEPT ![i] = NoResult]
             /\ UNCHANGED <<stage, cancelled, active, reserved, nextId, mailbox, disk>>

CancelAll == cancelled' = cancelled \cup active

\* The pool's destructor joins the worker before the mailbox is emptied.
Joined == InStage(Unfinished) = {}
Discard == /\ mailbox' = <<>>
           /\ active' = {}
           /\ reserved' = 0
           /\ UNCHANGED <<request, stage, result, cancelled, nextId, disk>>

--------------------------------------------------------------------------------
(* The worker *)

WorkerFree == InStage(Unfinished \ {"queued"}) = {}

\* Mutant: the pool forgets the submission order.
AnyQueued(i) == stage[i] = "queued"

\* A checkpoint is low priority: an older one is overtaken by a snapshot unless it aged.
Eligible(i) ==
  /\ stage[i] = "queued"
  /\ \A k \in InStage({"queued"}) : k < i => request[k].kind = "checkpoint"
                                            /\ request[i].kind = "snapshot"

Decide(i, state, compacted, error) ==
  /\ result' = [result EXCEPT ![i] = [state |-> state, compacted |-> compacted, error |-> error]]
  /\ stage' = [stage EXCEPT ![i] = "decided"]

\* Flags are set only when the scheduler stops: the callback sees its flag, or the pool's own
\* cancellation came first and the callback does not run at all.
Start(i) ==
  /\ WorkerFree /\ Eligible(i)
  /\ \/ i \in cancelled /\ Decide(i, "cancelled", FALSE, "none")
     \/ i \in cancelled /\ stage' = [stage EXCEPT ![i] = "published"] /\ UNCHANGED result
     \/ i \notin cancelled /\ stage' = [stage EXCEPT ![i] = "started"] /\ UNCHANGED result
  /\ UNCHANGED <<ledger, mailbox, disk>>

\* journal_snapshot: from here on the request counts as saved.
Journal(i) ==
  /\ stage[i] = "started" /\ request[i].kind = "snapshot"
  /\ \/ /\ disk' = [disk EXCEPT ![request[i].root].accepted = i]
        /\ result' = [result EXCEPT ![i].state = "succeeded"]
        /\ stage' = [stage EXCEPT ![i] = "journalled"]
     \/ /\ Decide(i, "failed", FALSE, "error")
        /\ UNCHANGED disk
  /\ UNCHANGED <<ledger, mailbox>>

Pending(root) == disk[root].accepted > disk[root].compacted
Compacted(root) == disk' = [disk EXCEPT ![root].compacted = disk[root].accepted]

\* A cancellation between acceptance and compaction only skips the compaction.
CompactAccepted(i) ==
  /\ stage[i] = "journalled"
  /\ IF i \in cancelled
     THEN Decide(i, "succeeded", FALSE, "none") /\ UNCHANGED disk
     ELSE \/ Decide(i, "succeeded", TRUE, "none") /\ Compacted(request[i].root)
          \/ \E error \in {"busy", "error"} :
               Decide(i, "succeeded", FALSE, error) /\ UNCHANGED disk
  /\ UNCHANGED <<ledger, mailbox>>

Checkpoint(i) ==
  /\ stage[i] = "started" /\ request[i].kind = "checkpoint"
  /\ \/ Decide(i, "succeeded", Pending(request[i].root), "none") /\ Compacted(request[i].root)
     \/ \E error \in {"busy", "error"} : Decide(i, "failed", FALSE, error) /\ UNCHANGED disk
  /\ UNCHANGED <<ledger, mailbox>>

\* SharedState::publish drops the result when the mailbox is full.
Publish(i) ==
  /\ stage[i] = "decided"
  /\ mailbox' = IF Len(mailbox) < MaxResults THEN Append(mailbox, i) ELSE mailbox
  /\ stage' = [stage EXCEPT ![i] = "published"]
  /\ UNCHANGED <<ledger, result, disk>>

\* Mutant: the destructor waits for room in a mailbox nobody drains any more.
FinishBlocking(i, destroying) ==
  /\ stage[i] = "published"
  /\ Cardinality(InStage({"finished"})) < MaxResults
  /\ stage' = [stage EXCEPT ![i] = "finished"]
  /\ UNCHANGED <<ledger, result, mailbox, disk>>

\* The pool counts the job as done once its own mailbox has room, or when it is destroyed.
Finish(i, destroying) ==
  /\ stage[i] = "published"
  /\ destroying \/ Cardinality(InStage({"finished"})) < MaxResults
  /\ stage' = [stage EXCEPT ![i] = "finished"]
  /\ UNCHANGED <<ledger, result, mailbox, disk>>

--------------------------------------------------------------------------------
Kinds == {"snapshot", "checkpoint"}
States == {"succeeded", "failed", "cancelled"}

SchedulerTypeOK ==
  /\ request \in [Requests -> {NoRequest} \cup [kind : Kinds, root : Databases, bytes : Nat]]
  /\ stage \in [Requests -> Unfinished \cup {"unused", "finished", "drained"}]
  /\ result \in [Requests -> [state : States \cup {"none"}, compacted : BOOLEAN,
                              error : {"none", "busy", "error"}]]
  /\ cancelled \subseteq Requests
  /\ active \subseteq Requests
  /\ reserved \in 0..MaxReservedBytes
  /\ nextId \in 0..LastRequestId
  /\ mailbox \in Seq(Requests)
  /\ disk \in [Databases -> [accepted : 0..LastRequestId, compacted : 0..LastRequestId]]
================================================================================

------------------------------- MODULE JobSystem -------------------------------
(***************************************************************************)
(* The thread-pool backend of the job system,                               *)
(* engine/jobs/thread_pool/thread_pool_backend.cpp.                         *)
(*                                                                         *)
(* Two mutexes guard the pool: jobs_mutex_ (queue, running table, dispatch  *)
(* counter) and completed_mutex_ (result mailbox).  A critical section that *)
(* does not wait is one action.  The wait for mailbox space is three steps  *)
(* (predicate, block, wake-up), because the destructor changes that         *)
(* predicate while it holds the other mutex only.                           *)
(*                                                                         *)
(* The deque, the running table and the mailbox are the sets of jobs in the *)
(* phases "queued", "running" and "completed"; ids are handed out under     *)
(* jobs_mutex_ in enqueue order, so the order of the deque is that of ids.  *)
(***************************************************************************)
EXTENDS Integers, FiniteSets

CONSTANTS Workers,         \* the worker threads of the pool
          Callers,         \* threads that own or share the pool
          Resubmitters,    \* the workers whose callbacks submit further jobs
          FirstJobId,      \* JobSystemDesc.first_job_id
          LastJobId,       \* the largest id representable; the next one is 0
          Priorities,      \* the ranks the callers submit with
          CancelReasons,   \* the reasons the callers cancel with
          MaxPending,      \* JobSystemDesc.max_pending_jobs
          MaxCompleted,    \* JobSystemDesc.max_completed_results
          AgingDispatches  \* priority_aging_dispatches

HighRank == 2
NoJob == 0

ASSUME ThreadsAssumption == Workers \cap Callers = {} /\ Resubmitters \subseteq Workers
ASSUME IdsAssumption == /\ FirstJobId \in Nat \ {0}
                        /\ LastJobId \in Nat
                        /\ FirstJobId <= LastJobId
ASSUME PriorityAssumption == Priorities \subseteq 0..HighRank
ASSUME ReasonAssumption == CancelReasons \subseteq {"requested", "superseded", "shutdown"}
ASSUME LimitsAssumption == /\ MaxPending \in Nat \ {0}
                           /\ MaxCompleted \in Nat \ {0}
                           /\ AgingDispatches \in Nat \ {0}

JobIds == FirstJobId..LastJobId
Submitters == Resubmitters \cup Callers
Reasons == {"none", "requested", "superseded", "shutdown"}

VARIABLES
  phase,          \* id -> which structure of the pool holds the job
  priority,       \* id -> priority_rank(QueuedJob.priority)
  token,          \* id -> the shared JobCancellationReason
  enqueuedAt,     \* id -> QueuedJob.enqueued_dispatch_count, 0 when not in the deque
  outcome,        \* id -> JobResult.state, "none" until it is decided
  nextId,         \* next_job_id_, 0 when the range is exhausted
  dispatchCount,  \* dispatch_count_
  pending,        \* pending_count_
  pc,             \* worker -> where it is in worker_loop
  held,           \* worker -> the job it took, NoJob
  call,           \* submitter -> where it is in submit or drain_completed
  destroy,        \* how far the destructor is; stopping_ is destroy # "alive"
  acknowledged,   \* history: ids whose request_cancel returned ok
  ran,            \* history: ids whose callback was invoked
  bypass          \* history: id -> younger jobs dispatched before it

work == <<phase, priority, token, enqueuedAt, outcome, nextId, dispatchCount, pending>>
history == <<acknowledged, ran, bypass>>
vars == <<phase, priority, token, enqueuedAt, outcome, nextId, dispatchCount, pending,
          pc, held, call, destroy, acknowledged, ran, bypass>>

In(p) == {j \in JobIds : phase[j] = p}
Stopping == destroy # "alive"
\* Mutant: the limit is tested with > instead of >=.
MailboxOverfull == Cardinality(In("completed")) > MaxCompleted
MailboxFull == Cardinality(In("completed")) >= MaxCompleted

\* completed_mutex_ is held between a worker's failed predicate and its block.
CompletedMutexFree == \A w \in Workers : pc[w] # "blocking"

Cancelled(j) == token[j] # "none"

\* request_cancellation: compare-exchange from none, so the first reason stays.
Requested(old, reason) == IF old = "none" THEN reason ELSE old

Asleep(where) == {w \in Workers : pc[w] = where}

\* Mutant: the notification is forgotten.
NotifyNobody == UNCHANGED pc

NotifyOne == \/ /\ Asleep("asleep_jobs") = {}
                /\ UNCHANGED pc
             \/ \E w \in Asleep("asleep_jobs") : pc' = [pc EXCEPT ![w] = "top"]

\* Mutant: notify_one where notify_all is needed.
AwakenedOne(where) ==
  LET lucky == CHOOSE w \in Workers : pc[w] = where \/ Asleep(where) = {}
  IN  [w \in Workers |-> IF w = lucky /\ pc[w] = where THEN
                           IF where = "asleep_jobs" THEN "top" ELSE "publish" ELSE pc[w]]

Awakened(where) == [w \in Workers |-> IF pc[w] = where THEN
                        IF where = "asleep_jobs" THEN "top" ELSE "publish" ELSE pc[w]]

Init ==
  /\ phase = [j \in JobIds |-> "unused"]
  /\ priority = [j \in JobIds |-> 0]
  /\ token = [j \in JobIds |-> "none"]
  /\ enqueuedAt = [j \in JobIds |-> 0]
  /\ outcome = [j \in JobIds |-> "none"]
  /\ nextId = FirstJobId
  /\ dispatchCount = 0
  /\ pending = 0
  /\ pc = [w \in Workers |-> "top"]
  /\ held = [w \in Workers |-> NoJob]
  /\ call = [a \in Submitters |-> "idle"]
  /\ destroy = "alive"
  /\ acknowledged = {}
  /\ ran = {}
  /\ bypass = [j \in JobIds |-> 0]

--------------------------------------------------------------------------------
(* submit *)

\* A destroyed object takes no new calls, but the callbacks it still runs may call.
MayCall(a) == IF a \in Workers THEN pc[a] = "executing" ELSE ~Stopping

\* The mailbox check, in a critical section of its own; a full one ends the call.
SubmitCheck(a) ==
  /\ MayCall(a) /\ call[a] = "idle"
  /\ CompletedMutexFree
  /\ ~MailboxFull
  /\ call' = [call EXCEPT ![a] = "checked"]
  /\ UNCHANGED <<work, pc, held, destroy, history>>

SubmitRejected(a) ==
  /\ call[a] = "checked"
  /\ Stopping \/ pending >= MaxPending \/ nextId = 0
  /\ call' = [call EXCEPT ![a] = "idle"]
  /\ UNCHANGED <<work, pc, held, destroy, history>>

\* Mutant: the exhausted range is not marked.
NextJobIdUnwrapped(id) == id + 1

NextJobId(id) == IF id = LastJobId THEN 0 ELSE id + 1

SubmitEnqueue(a) ==
  /\ call[a] = "checked"
  /\ ~Stopping /\ pending < MaxPending /\ nextId # 0
  /\ \E p \in Priorities : priority' = [priority EXCEPT ![nextId] = p]
  /\ phase' = [phase EXCEPT ![nextId] = "queued"]
  /\ enqueuedAt' = [enqueuedAt EXCEPT ![nextId] = dispatchCount]
  /\ nextId' = NextJobId(nextId)
  /\ pending' = pending + 1
  /\ call' = [call EXCEPT ![a] = "enqueued"]
  /\ UNCHANGED <<token, outcome, dispatchCount, pc, held, destroy, history>>

SubmitNotify(a) ==
  /\ call[a] = "enqueued"
  /\ NotifyOne
  /\ call' = [call EXCEPT ![a] = "idle"]
  /\ UNCHANGED <<work, held, destroy, history>>

--------------------------------------------------------------------------------
(* request_cancel: both mutexes at once *)

MayCancel(c) == ~Stopping /\ call[c] = "idle" /\ CompletedMutexFree

CancelQueued(c, j, reason) ==
  /\ MayCancel(c)
  /\ phase[j] = "queued"
  /\ ~MailboxFull
  /\ token' = [token EXCEPT ![j] = Requested(@, reason)]
  /\ phase' = [phase EXCEPT ![j] = "completed"]
  /\ outcome' = [outcome EXCEPT ![j] = "cancelled"]
  /\ enqueuedAt' = [enqueuedAt EXCEPT ![j] = 0]
  /\ pending' = pending - 1
  /\ acknowledged' = acknowledged \cup {j}
  /\ UNCHANGED <<priority, nextId, dispatchCount, pc, held, call, destroy, ran, bypass>>

\* No room for the result: a worker will skip the callback.
CancelMarkQueued(c, j, reason) ==
  /\ MayCancel(c)
  /\ phase[j] = "queued"
  /\ MailboxFull
  /\ token' = [token EXCEPT ![j] = Requested(@, reason)]
  /\ NotifyOne
  /\ acknowledged' = acknowledged \cup {j}
  /\ UNCHANGED <<phase, priority, enqueuedAt, outcome, nextId, dispatchCount, pending,
                 held, call, destroy, ran, bypass>>

CancelRunning(c, j, reason) ==
  /\ MayCancel(c)
  /\ phase[j] = "running"
  /\ token' = [token EXCEPT ![j] = Requested(@, reason)]
  /\ acknowledged' = acknowledged \cup {j}
  /\ UNCHANGED <<phase, priority, enqueuedAt, outcome, nextId, dispatchCount, pending,
                 pc, held, call, destroy, ran, bypass>>

--------------------------------------------------------------------------------
(* drain_completed *)

DrainCompleted(c) ==
  /\ ~Stopping /\ call[c] = "idle"
  /\ CompletedMutexFree
  /\ In("completed") # {}
  /\ phase' = [j \in JobIds |-> IF phase[j] = "completed" THEN "drained" ELSE phase[j]]
  /\ call' = [call EXCEPT ![c] = "drained"]
  /\ UNCHANGED <<priority, token, enqueuedAt, outcome, nextId, dispatchCount, pending,
                 pc, held, destroy, history>>

DrainNotify(c) ==
  /\ call[c] = "drained"
  /\ pc' = Awakened("asleep_space")
  /\ call' = [call EXCEPT ![c] = "idle"]
  /\ UNCHANGED <<work, held, destroy, history>>

--------------------------------------------------------------------------------
(* worker_loop and publish_result *)

\* Mutant: no aging.
UnagedPriority(j) == priority[j]

EffectivePriority(j) ==
  LET aged == priority[j] + (dispatchCount - enqueuedAt[j]) \div AgingDispatches
  IN  IF aged < HighRank THEN aged ELSE HighRank

\* The oldest cancelled job, else the oldest of the highest effective priority.
DispatchedBefore(j, k) ==
  \/ EffectivePriority(j) > EffectivePriority(k)
  \/ EffectivePriority(j) = EffectivePriority(k) /\ j <= k
Best(j) ==
  LET marked == {k \in In("queued") : Cancelled(k)}
  IN  IF marked # {} THEN j \in marked /\ \A k \in marked : j <= k
                     ELSE j \in In("queued") /\ \A k \in In("queued") : DispatchedBefore(j, k)

\* The jobs that see a younger one pass them; cancelled jobs are not waiting for a turn.
Overtaken(k, j) == k \in In("queued") /\ k < j /\ ~Cancelled(k) /\ ~Cancelled(j)

WorkerTake(w) ==
  /\ pc[w] = "top"
  /\ \E j \in In("queued") :
       /\ Best(j)
       /\ phase' = [phase EXCEPT ![j] = "running"]
       /\ held' = [held EXCEPT ![w] = j]
       /\ enqueuedAt' = [enqueuedAt EXCEPT ![j] = 0]
       /\ bypass' = [k \in JobIds |-> IF Overtaken(k, j) THEN bypass[k] + 1 ELSE bypass[k]]
  /\ dispatchCount' = dispatchCount + 1
  /\ pc' = [pc EXCEPT ![w] = "taken"]
  /\ UNCHANGED <<priority, token, outcome, nextId, pending, call, destroy, acknowledged, ran>>

WorkerSleep(w) ==
  /\ pc[w] = "top"
  /\ ~Stopping /\ In("queued") = {}
  /\ pc' = [pc EXCEPT ![w] = "asleep_jobs"]
  /\ UNCHANGED <<work, held, call, destroy, history>>

WorkerExit(w) ==
  /\ pc[w] = "top"
  /\ Stopping /\ In("queued") = {}
  /\ pc' = [pc EXCEPT ![w] = "exited"]
  /\ UNCHANGED <<work, held, call, destroy, history>>

WorkerSkip(w) ==
  /\ pc[w] = "taken"
  /\ Cancelled(held[w])
  /\ pc' = [pc EXCEPT ![w] = "finishing"]
  /\ UNCHANGED <<work, held, call, destroy, history>>

\* Mutant: a job taken from the deque runs whatever its token says.
WorkerClearUnchecked(w) ==
  /\ pc[w] = "taken"
  /\ pc' = [pc EXCEPT ![w] = "cleared"]
  /\ UNCHANGED <<work, held, call, destroy, history>>

\* The worker reads the token without a mutex and calls the callback afterwards: a token
\* that is set in between does not keep the callback from starting.
WorkerClear(w) ==
  /\ pc[w] = "taken"
  /\ ~Cancelled(held[w])
  /\ pc' = [pc EXCEPT ![w] = "cleared"]
  /\ UNCHANGED <<work, held, call, destroy, history>>

WorkerBegin(w) ==
  /\ pc[w] = "cleared"
  /\ ran' = ran \cup {held[w]}
  /\ pc' = [pc EXCEPT ![w] = "executing"]
  /\ UNCHANGED <<work, held, call, destroy, acknowledged, bypass>>

\* The callback returns ok, or returns an error or throws.
WorkerReturn(w) ==
  /\ pc[w] = "executing"
  /\ w \in Resubmitters => call[w] = "idle"
  /\ \E v \in {"succeeded", "failed"} : outcome' = [outcome EXCEPT ![held[w]] = v]
  /\ pc' = [pc EXCEPT ![w] = "finishing"]
  /\ UNCHANGED <<phase, priority, token, enqueuedAt, nextId, dispatchCount, pending,
                 held, call, destroy, history>>

\* Mutant: the callback's verdict is published although a cancellation came meanwhile.
WorkerFinishUnchecked(w) ==
  /\ pc[w] = "finishing"
  /\ phase' = [phase EXCEPT ![held[w]] = "publishing"]
  /\ pc' = [pc EXCEPT ![w] = "publish"]
  /\ UNCHANGED <<priority, token, enqueuedAt, outcome, nextId, dispatchCount, pending, held,
                 call, destroy, history>>

\* Under jobs_mutex_: the last reading of the token, and out of the running table.
WorkerFinish(w) ==
  /\ pc[w] = "finishing"
  /\ outcome' = IF Cancelled(held[w]) THEN [outcome EXCEPT ![held[w]] = "cancelled"]
                                      ELSE outcome
  /\ phase' = [phase EXCEPT ![held[w]] = "publishing"]
  /\ pc' = [pc EXCEPT ![w] = "publish"]
  /\ UNCHANGED <<priority, token, enqueuedAt, nextId, dispatchCount, pending, held, call,
                 destroy, history>>

Retire(w, where) ==
  /\ phase' = [phase EXCEPT ![held[w]] = where]
  /\ pending' = pending - 1
  /\ held' = [held EXCEPT ![w] = NoJob]
  /\ pc' = [pc EXCEPT ![w] = "top"]
  /\ UNCHANGED <<priority, token, enqueuedAt, outcome, nextId, dispatchCount, call,
                 destroy, history>>

WorkerPublish(w) ==
  /\ pc[w] = "publish" /\ CompletedMutexFree
  /\ ~MailboxFull
  /\ Retire(w, "completed")

\* Mutant: results are dropped whenever the mailbox is full.
WorkerDiscardEarly(w) ==
  /\ pc[w] = "publish" /\ CompletedMutexFree
  /\ MailboxFull
  /\ Retire(w, "discarded")

WorkerDiscard(w) ==
  /\ pc[w] = "publish" /\ CompletedMutexFree
  /\ MailboxFull /\ Stopping
  /\ Retire(w, "discarded")

WorkerFindsFull(w) ==
  /\ pc[w] = "publish" /\ CompletedMutexFree
  /\ MailboxFull /\ ~Stopping
  /\ pc' = [pc EXCEPT ![w] = "blocking"]
  /\ UNCHANGED <<work, held, call, destroy, history>>

\* Enters the wait set and releases completed_mutex_.
WorkerBlock(w) ==
  /\ pc[w] = "blocking"
  /\ pc' = [pc EXCEPT ![w] = "asleep_space"]
  /\ UNCHANGED <<work, held, call, destroy, history>>

SpuriousWake(w) ==
  /\ \/ pc[w] = "asleep_jobs" /\ pc' = [pc EXCEPT ![w] = "top"]
     \/ pc[w] = "asleep_space" /\ pc' = [pc EXCEPT ![w] = "publish"]
  /\ UNCHANGED <<work, held, call, destroy, history>>

--------------------------------------------------------------------------------
(* The destructor.  Its callers have returned; callbacks still run. *)

\* Mutant: jobs on their way to the mailbox are still in the running table.
DestroyStopMarksAll ==
  /\ destroy = "alive"
  /\ \A c \in Callers : call[c] = "idle"
  /\ destroy' = "stopped"
  /\ token' = [j \in JobIds |-> IF phase[j] \in {"queued", "running", "publishing"}
                                THEN Requested(token[j], "shutdown") ELSE token[j]]
  /\ UNCHANGED <<phase, priority, enqueuedAt, outcome, nextId, dispatchCount, pending,
                 pc, held, call, history>>

DestroyStop ==
  /\ destroy = "alive"
  /\ \A c \in Callers : call[c] = "idle"
  /\ destroy' = "stopped"
  /\ token' = [j \in JobIds |-> IF phase[j] \in {"queued", "running"}
                                THEN Requested(token[j], "shutdown") ELSE token[j]]
  /\ UNCHANGED <<phase, priority, enqueuedAt, outcome, nextId, dispatchCount, pending,
                 pc, held, call, history>>

DestroyNotifyJobs ==
  /\ destroy = "stopped"
  /\ destroy' = "notified_jobs"
  /\ pc' = Awakened("asleep_jobs")
  /\ UNCHANGED <<work, held, call, history>>

DestroyNotifySpace ==
  /\ destroy = "notified_jobs"
  /\ destroy' = "joining"
  /\ pc' = Awakened("asleep_space")
  /\ UNCHANGED <<work, held, call, history>>

DestroyJoin ==
  /\ destroy = "joining"
  /\ \A w \in Workers : pc[w] = "exited"
  /\ destroy' = "joined"
  /\ UNCHANGED <<work, pc, held, call, history>>

--------------------------------------------------------------------------------
Submit(a) == SubmitCheck(a) \/ SubmitRejected(a) \/ SubmitEnqueue(a) \/ SubmitNotify(a)

Cancel(c, j) == \E reason \in CancelReasons : \/ CancelQueued(c, j, reason)
                                              \/ CancelMarkQueued(c, j, reason)
                                              \/ CancelRunning(c, j, reason)

Drain(c) == DrainCompleted(c) \/ DrainNotify(c)

WorkerStep(w) ==
  \/ WorkerTake(w) \/ WorkerSleep(w) \/ WorkerExit(w) \/ WorkerSkip(w) \/ WorkerClear(w)
  \/ WorkerBegin(w) \/ WorkerReturn(w) \/ WorkerFinish(w) \/ WorkerPublish(w)
  \/ WorkerDiscard(w) \/ WorkerFindsFull(w) \/ WorkerBlock(w)

Destroy == DestroyStop \/ DestroyNotifyJobs \/ DestroyNotifySpace \/ DestroyJoin

Next == \/ \E a \in Submitters : Submit(a)
        \/ \E c \in Callers : Drain(c) \/ \E j \in JobIds : Cancel(c, j)
        \/ \E w \in Workers : WorkerStep(w) \/ SpuriousWake(w)
        \/ Destroy

Spec == Init /\ [][Next]_vars

\* Threads that are able to run do run and get the mutex they wait for, callbacks
\* return, a submit in progress completes, the owner keeps draining, and a
\* destructor that has begun goes on.  Nobody is obliged to submit, cancel or destroy.
Fairness ==
  /\ \A w \in Workers : SF_vars(WorkerStep(w))
  /\ \A a \in Submitters : WF_vars(SubmitRejected(a) \/ SubmitEnqueue(a) \/ SubmitNotify(a))
  /\ \A c \in Callers : SF_vars(DrainCompleted(c)) /\ WF_vars(DrainNotify(c))
  /\ WF_vars(DestroyNotifyJobs) /\ WF_vars(DestroyNotifySpace) /\ WF_vars(DestroyJoin)

FairSpec == Spec /\ Fairness

--------------------------------------------------------------------------------
Phases == {"unused", "queued", "running", "publishing", "completed", "drained", "discarded"}
WorkerPcs == {"top", "asleep_jobs", "taken", "cleared", "executing", "finishing", "publish",
              "blocking", "asleep_space", "exited"}
RunningPcs == {"taken", "cleared", "executing", "finishing"}
PublishingPcs == {"publish", "blocking", "asleep_space"}
DestroySteps == {"alive", "stopped", "notified_jobs", "joining", "joined"}

\* Every variable has the type its C++ member has.
TypeOK ==
  /\ phase \in [JobIds -> Phases]
  /\ priority \in [JobIds -> 0..HighRank]
  /\ token \in [JobIds -> Reasons]
  /\ enqueuedAt \in [JobIds -> Nat]
  /\ outcome \in [JobIds -> {"none", "succeeded", "failed", "cancelled"}]
  /\ nextId \in JobIds \cup {0}
  /\ dispatchCount \in Nat
  /\ pending \in Int
  /\ pc \in [Workers -> WorkerPcs]
  /\ held \in [Workers -> JobIds \cup {NoJob}]
  /\ call \in [Submitters -> {"idle", "checked", "enqueued", "drained"}]
  /\ destroy \in DestroySteps
  /\ acknowledged \in SUBSET JobIds
  /\ ran \in SUBSET JobIds
  /\ bypass \in [JobIds -> Nat]

Active == In("queued") \cup In("running") \cup In("publishing")

\* The counter that admission trusts (pending_count_, changed under two different
\* mutexes) is the number of accepted jobs without a result, and neither it nor the
\* mailbox ever passes its limit (jobs.md: "max_pending_jobs bounds all accepted
\* work whose result has not yet been published").
AccountingExact ==
  /\ pending = Cardinality(Active)
  /\ pending <= MaxPending
  /\ Cardinality(In("completed")) <= MaxCompleted

\* A cancellation that request_cancel acknowledged decides the result: no later step
\* of the worker lets such a job report success or failure (jobs.md: "the final
\* generic result is cancelled even when a cooperative callback returns success").
CancelHonoured ==
  \A j \in acknowledged : phase[j] \in {"publishing", "completed", "drained", "discarded"}
                            => outcome[j] = "cancelled"

\* Conversely a result is cancelled only because of a recorded reason, and every
\* result that left its worker is decided.
VerdictExplained ==
  \A j \in JobIds : phase[j] \in {"publishing", "completed", "drained", "discarded"} =>
    /\ outcome[j] # "none"
    /\ outcome[j] = "cancelled" <=> Cancelled(j)
    /\ outcome[j] # "cancelled" => j \in ran

\* Priority cannot starve an older job: the jobs enqueued later that are dispatched
\* before it are bounded by the dispatches it needs to age to the highest rank.
BypassBound ==
  \A j \in JobIds : phase[j] # "unused" =>
                      bypass[j] <= AgingDispatches * (HighRank - priority[j])

\* The first cancellation reason wins.
FirstReasonWins == [][\A j \in JobIds : Cancelled(j) => token'[j] = token[j]]_vars

\* A token set while the job waits in the deque, by request_cancel or by the destructor,
\* keeps its callback from starting ever after: a destructor waits only for callbacks of
\* jobs that were taken before (jobs.md: shutdown "marks queued callbacks to be skipped").
\* A token set after the take promises no such thing.
QueuedMarkHolds ==
  \A j \in JobIds : [](phase[j] = "queued" /\ Cancelled(j) => [](j \notin ran))

\* Every accepted job gets its result while the pool lives: no notification is lost
\* between submitters, draining owner and workers.
EveryJobResolved ==
  \A j \in JobIds : phase[j] = "queued" ~> phase[j] \in {"completed", "drained"} \/ Stopping

\* A destructor that finds no worker in the wait for mailbox space after its last
\* notification joins all of them.
JoinsUnlessBlocked ==
  (destroy = "joining" /\ Asleep("asleep_space") \cup Asleep("blocking") = {})
    ~> destroy = "joined"

\* The comment of jobs.md on shutdown: results that cannot be published are discarded
\* "so destruction can join rather than deadlock".
ShutdownJoins == Stopping ~> destroy = "joined"

--------------------------------------------------------------------------------
\* The pool implements the contract of IJobSystem.
ContractStage(p) ==
  IF p \in {"queued", "running", "publishing"} THEN "pending"
  ELSE IF p = "completed" THEN "ready"
  ELSE IF p = "drained" THEN "returned"
  ELSE IF p = "discarded" THEN "lost" ELSE "unused"

Contract == INSTANCE JobContract WITH
  job <- [j \in JobIds |-> ContractStage(phase[j])],
  verdict <- [j \in JobIds |-> IF phase[j] \in {"completed", "drained"} THEN outcome[j]
                                                                       ELSE "none"],
  cancelled <- acknowledged,
  open <- ~Stopping

ImplementsContract == Contract!Spec
================================================================================

---------------------------- MODULE JobSystemProofs ----------------------------
(***************************************************************************)
(* Proofs about JobSystem, for every number of workers, callers and jobs and*)
(* every limit: typing, the meaning of a verdict and of an acknowledged     *)
(* cancellation, the two rules about cancellation tokens, the accounting,   *)
(* the bound on how often a job is passed, and the contract.                *)
(***************************************************************************)
EXTENDS JobSystem, FiniteSetTheorems, TLAPS

USE DEF NoJob, HighRank

LEMMA JobIdsAreNat == JobIds \subseteq Nat \ {0}
  BY IdsAssumption DEF JobIds

LEMMA RequestedType ==
  ASSUME NEW old \in Reasons, NEW reason \in Reasons
  PROVE  /\ Requested(old, reason) \in Reasons
         /\ reason # "none" => Requested(old, reason) # "none"
         /\ old # "none" => Requested(old, reason) = old
  BY DEF Requested

LEMMA NextJobIdType ==
  ASSUME NEW id \in JobIds
  PROVE  /\ NextJobId(id) \in JobIds \cup {0}
         /\ NextJobId(id) # 0 => NextJobId(id) = id + 1
  BY IdsAssumption DEF JobIds, NextJobId

LEMMA NotifyOneType ==
  ASSUME pc \in [Workers -> WorkerPcs], NotifyOne
  PROVE  pc' \in [Workers -> WorkerPcs]
  BY DEF NotifyOne, Asleep, WorkerPcs

LEMMA AwakenedType ==
  ASSUME pc \in [Workers -> WorkerPcs], NEW where
  PROVE  Awakened(where) \in [Workers -> WorkerPcs]
  BY DEF Awakened, WorkerPcs

\* A worker whose program counter is past the take holds a job: the part of the
\* invariant that typing needs, because most worker steps write at held[w].
Holding == \A w \in Workers : pc[w] \in RunningPcs \cup PublishingPcs => held[w] \in JobIds

TypeInv == TypeOK /\ Holding

LEMMA TypeInit == Init => TypeInv
  <1> SUFFICES ASSUME Init PROVE TypeInv
    OBVIOUS
  <1>1. FirstJobId \in JobIds
    BY IdsAssumption DEF JobIds
  <1>2. TypeOK
    BY <1>1 DEF Init, TypeOK, Phases, Reasons, WorkerPcs, DestroySteps
  <1>3. Holding
    BY DEF Init, Holding, RunningPcs, PublishingPcs
  <1> QED BY <1>2, <1>3 DEF TypeInv

LEMMA TypeStep == TypeInv /\ [Next]_vars => TypeInv'
  <1> SUFFICES ASSUME TypeInv, [Next]_vars PROVE TypeInv'
    OBVIOUS
  <1> USE JobIdsAreNat
  <1> USE DEF TypeInv
  <1>1. ASSUME NEW a \in Submitters, Submit(a) PROVE TypeInv'
    <2>1. CASE SubmitCheck(a)
      BY <2>1 DEF SubmitCheck, TypeOK, Holding, work, history
    <2>2. CASE SubmitRejected(a)
      BY <2>2 DEF SubmitRejected, TypeOK, Holding, work, history
    <2>3. CASE SubmitEnqueue(a)
      <3>1. nextId \in JobIds
        BY <2>3 DEF SubmitEnqueue, TypeOK
      <3>2. nextId' \in JobIds \cup {0}
        BY <2>3, <3>1, NextJobIdType DEF SubmitEnqueue
      <3>3. priority' \in [JobIds -> 0..HighRank]
        BY <2>3, <3>1, PriorityAssumption DEF SubmitEnqueue, TypeOK
      <3>4. phase' \in [JobIds -> Phases]
        BY <2>3, <3>1 DEF SubmitEnqueue, TypeOK, Phases
      <3>5. /\ enqueuedAt' \in [JobIds -> Nat]
            /\ pending' \in Int
            /\ call' \in [Submitters -> {"idle", "checked", "enqueued", "drained"}]
        BY <2>3, <3>1 DEF SubmitEnqueue, TypeOK
      <3>6. UNCHANGED <<token, outcome, dispatchCount, pc, held, destroy, history>>
        BY <2>3 DEF SubmitEnqueue
      <3> QED BY <3>2, <3>3, <3>4, <3>5, <3>6 DEF TypeOK, Holding, history
    <2>4. CASE SubmitNotify(a)
      <3>1. pc' \in [Workers -> WorkerPcs]
        BY <2>4, NotifyOneType DEF SubmitNotify, TypeOK
      <3>2. \A w \in Workers : pc'[w] \in RunningPcs \cup PublishingPcs => pc'[w] = pc[w]
        BY <2>4 DEF SubmitNotify, TypeOK, NotifyOne, Asleep, RunningPcs, PublishingPcs
      <3> QED BY <2>4, <3>1, <3>2 DEF SubmitNotify, TypeOK, Holding, work, history
    <2> QED BY <1>1, <2>1, <2>2, <2>3, <2>4 DEF Submit
  <1>2. ASSUME NEW c \in Callers, Drain(c) PROVE TypeInv'
    <2>0. c \in Submitters
      BY DEF Submitters
    <2>1. CASE DrainCompleted(c)
      BY <2>0, <2>1 DEF DrainCompleted, TypeOK, Holding, Phases, history
    <2>2. CASE DrainNotify(c)
      <3>1. pc' \in [Workers -> WorkerPcs]
        BY <2>2, AwakenedType DEF DrainNotify, TypeOK
      <3>2. \A w \in Workers : pc'[w] \in RunningPcs \cup PublishingPcs
                                => pc[w] \in RunningPcs \cup PublishingPcs
        BY <2>2 DEF DrainNotify, TypeOK, Awakened, RunningPcs, PublishingPcs
      <3> QED BY <2>0, <2>2, <3>1, <3>2 DEF DrainNotify, TypeOK, Holding, work, history
    <2> QED BY <1>2, <2>1, <2>2 DEF Drain
  <1>3. ASSUME NEW c \in Callers, NEW j \in JobIds, Cancel(c, j) PROVE TypeInv'
    <2> PICK reason \in CancelReasons : \/ CancelQueued(c, j, reason)
                                        \/ CancelMarkQueued(c, j, reason)
                                        \/ CancelRunning(c, j, reason)
      BY <1>3 DEF Cancel
    <2>0. Requested(token[j], reason) \in Reasons
      BY RequestedType, ReasonAssumption DEF TypeOK, Reasons
    <2>1. CASE CancelQueued(c, j, reason)
      BY <2>0, <2>1 DEF CancelQueued, TypeOK, Holding, Phases
    <2>2. CASE CancelMarkQueued(c, j, reason)
      <3>1. pc' \in [Workers -> WorkerPcs]
        BY <2>2, NotifyOneType DEF CancelMarkQueued, TypeOK
      <3>2. \A w \in Workers : pc'[w] \in RunningPcs \cup PublishingPcs => pc'[w] = pc[w]
        BY <2>2 DEF CancelMarkQueued, TypeOK, NotifyOne, Asleep, RunningPcs, PublishingPcs
      <3> QED BY <2>0, <2>2, <3>1, <3>2 DEF CancelMarkQueued, TypeOK, Holding
    <2>3. CASE CancelRunning(c, j, reason)
      BY <2>0, <2>3 DEF CancelRunning, TypeOK, Holding
    <2> QED BY <2>1, <2>2, <2>3
  <1>4. ASSUME NEW w \in Workers, WorkerStep(w) PROVE TypeInv'
    <2> USE DEF WorkerPcs, RunningPcs, PublishingPcs
    <2>1. CASE WorkerTake(w)
      <3> PICK j \in In("queued") :
             /\ phase' = [phase EXCEPT ![j] = "running"]
             /\ held' = [held EXCEPT ![w] = j]
             /\ enqueuedAt' = [enqueuedAt EXCEPT ![j] = 0]
             /\ bypass' = [k \in JobIds |-> IF Overtaken(k, j) THEN bypass[k] + 1
                                                               ELSE bypass[k]]
        BY <2>1 DEF WorkerTake
      <3>1. j \in JobIds
        BY DEF In
      <3>2. bypass' \in [JobIds -> Nat]
        BY DEF TypeOK
      <3>3. phase' \in [JobIds -> Phases] /\ held' \in [Workers -> JobIds \cup {NoJob}]
        BY <3>1 DEF TypeOK, Phases
      <3>4. UNCHANGED <<priority, token, outcome, nextId, pending, call,
                        destroy, acknowledged, ran>>
            /\ dispatchCount' \in Nat
            /\ pc' = [pc EXCEPT ![w] = "taken"]
        BY <2>1 DEF WorkerTake, TypeOK
      <3>5. enqueuedAt' \in [JobIds -> Nat]
        BY DEF TypeOK
      <3> QED BY <3>1, <3>2, <3>3, <3>4, <3>5 DEF TypeOK, Holding
    <2>2. CASE WorkerSleep(w)
      BY <2>2 DEF WorkerSleep, TypeOK, Holding, work, history
    <2>3. CASE WorkerExit(w)
      BY <2>3 DEF WorkerExit, TypeOK, Holding, work, history
    <2>4. CASE WorkerSkip(w)
      BY <2>4 DEF WorkerSkip, TypeOK, Holding, work, history
    <2>5. CASE WorkerBegin(w)
      BY <2>5 DEF WorkerBegin, TypeOK, Holding, work
    <2>12. CASE WorkerClear(w)
      BY <2>12 DEF WorkerClear, TypeOK, Holding, work, history
    <2>6. CASE WorkerReturn(w)
      BY <2>6 DEF WorkerReturn, TypeOK, Holding, history
    <2>7. CASE WorkerFinish(w)
      BY <2>7 DEF WorkerFinish, TypeOK, Holding, Phases, history
    <2>8. CASE WorkerPublish(w)
      BY <2>8 DEF WorkerPublish, Retire, TypeOK, Holding, Phases, history
    <2>9. CASE WorkerDiscard(w)
      BY <2>9 DEF WorkerDiscard, Retire, TypeOK, Holding, Phases, history
    <2>10. CASE WorkerFindsFull(w)
      BY <2>10 DEF WorkerFindsFull, TypeOK, Holding, work, history
    <2>11. CASE WorkerBlock(w)
      BY <2>11 DEF WorkerBlock, TypeOK, Holding, work, history
    <2> QED BY <1>4, <2>1, <2>2, <2>3, <2>4, <2>5, <2>6, <2>7, <2>8, <2>9, <2>10, <2>11,
            <2>12 DEF WorkerStep
  <1>5. ASSUME NEW w \in Workers, SpuriousWake(w) PROVE TypeInv'
    BY <1>5 DEF SpuriousWake, TypeOK, Holding, work, history, WorkerPcs, RunningPcs,
                PublishingPcs
  <1>6. CASE Destroy
    <2>1. CASE DestroyStop
      <3>1. \A j \in JobIds : Requested(token[j], "shutdown") \in Reasons
        BY RequestedType DEF TypeOK, Reasons
      <3> QED BY <2>1, <3>1 DEF DestroyStop, TypeOK, Holding, DestroySteps, history
    <2>2. CASE DestroyNotifyJobs
      <3>1. pc' \in [Workers -> WorkerPcs]
        BY <2>2, AwakenedType DEF DestroyNotifyJobs, TypeOK
      <3> QED BY <2>2, <3>1 DEF DestroyNotifyJobs, TypeOK, Holding, Awakened, RunningPcs,
                                PublishingPcs, DestroySteps, work, history
    <2>3. CASE DestroyNotifySpace
      <3>1. pc' \in [Workers -> WorkerPcs]
        BY <2>3, AwakenedType DEF DestroyNotifySpace, TypeOK
      <3> QED BY <2>3, <3>1 DEF DestroyNotifySpace, TypeOK, Holding, Awakened, RunningPcs,
                                PublishingPcs, DestroySteps, work, history
    <2>4. CASE DestroyJoin
      BY <2>4 DEF DestroyJoin, TypeOK, Holding, DestroySteps, work, history
    <2> QED BY <1>6, <2>1, <2>2, <2>3, <2>4 DEF Destroy
  <1>7. CASE UNCHANGED vars
    BY <1>7 DEF vars, TypeOK, Holding
  <1> QED BY <1>1, <1>2, <1>3, <1>4, <1>5, <1>6, <1>7 DEF Next

\* Every variable keeps its type, whatever the limits and however many threads share
\* the pool; in particular nothing is ever written outside the id range.
THEOREM TypeCorrect == Spec => []TypeOK
  <1>1. TypeInv => TypeOK
    BY DEF TypeInv
  <1> QED BY TypeInit, TypeStep, <1>1, PTL DEF Spec

--------------------------------------------------------------------------------
(* What a verdict means *)

BusyPcs == RunningPcs \cup PublishingPcs

\* The job a worker holds is in the structure its program counter says, and no two
\* workers hold one job.
Owned == /\ \A w \in Workers : /\ pc[w] \in RunningPcs => phase[held[w]] = "running"
                               /\ pc[w] \in PublishingPcs => phase[held[w]] = "publishing"
         /\ \A v, w \in Workers : pc[v] \in BusyPcs /\ pc[w] \in BusyPcs /\ v # w
                                  => held[v] # held[w]

\* Ids not handed out yet are unused, so submit never overwrites a job.
FreshIds == nextId # 0 => \A j \in JobIds : j >= nextId => phase[j] = "unused"

Untouched == \A j \in JobIds : phase[j] \in {"unused", "queued"}
                                => outcome[j] = "none" /\ j \notin ran

\* What the worker's local result says at each point of worker_loop.
LocalResult ==
  \A w \in Workers :
    /\ pc[w] \in {"taken", "cleared"} => outcome[held[w]] = "none" /\ held[w] \notin ran
    /\ pc[w] = "executing" => outcome[held[w]] = "none" /\ held[w] \in ran
    /\ pc[w] = "finishing" => /\ outcome[held[w]] # "cancelled"
                              /\ outcome[held[w]] = "none" => Cancelled(held[w])
                              /\ outcome[held[w]] # "none" => held[w] \in ran

AcknowledgedMarked == \A j \in acknowledged : Cancelled(j)

\* A token is set by an acknowledged request or by the destructor, by nothing else.
TokenOrigin == \A j \in JobIds : Cancelled(j) => j \in acknowledged \/ Stopping

VerdictInv == /\ TypeInv
              /\ Owned
              /\ FreshIds
              /\ Untouched
              /\ LocalResult
              /\ AcknowledgedMarked
              /\ TokenOrigin
              /\ VerdictExplained

LEMMA VerdictInit == Init => VerdictInv
  BY TypeInit DEF Init, VerdictInv, Owned, FreshIds, Untouched, LocalResult,
                  AcknowledgedMarked, TokenOrigin, Cancelled, VerdictExplained, RunningPcs,
                  PublishingPcs, BusyPcs

LEMMA VerdictStep == VerdictInv /\ [Next]_vars => VerdictInv'
  <1> SUFFICES ASSUME VerdictInv, [Next]_vars PROVE VerdictInv'
    OBVIOUS
  <1>0. TypeInv /\ TypeInv'
    BY TypeStep DEF VerdictInv
  <1> USE JobIdsAreNat
  <1> USE DEF VerdictInv, TypeInv, TypeOK, Holding, Owned, FreshIds, Untouched, LocalResult,
              AcknowledgedMarked, TokenOrigin, VerdictExplained, RunningPcs, PublishingPcs,
              BusyPcs, Cancelled, Stopping
  <1>1. ASSUME NEW a \in Submitters, Submit(a) PROVE VerdictInv'
    <2>1. CASE SubmitCheck(a)
      BY <1>0, <2>1 DEF SubmitCheck, work, history
    <2>2. CASE SubmitRejected(a)
      BY <1>0, <2>2 DEF SubmitRejected, work, history
    <2>3. CASE SubmitEnqueue(a)
      <3>1. nextId \in JobIds /\ phase[nextId] = "unused"
        BY <2>3 DEF SubmitEnqueue
      <3>2. NextJobId(nextId) # 0 => NextJobId(nextId) = nextId + 1
        BY <3>1, NextJobIdType
      <3>3. FreshIds'
        BY <2>3, <3>1, <3>2, <1>0 DEF SubmitEnqueue
      <3> QED BY <1>0, <2>3, <3>1, <3>3 DEF SubmitEnqueue, history
    <2>4. CASE SubmitNotify(a)
      BY <1>0, <2>4 DEF SubmitNotify, NotifyOne, Asleep, work, history
    <2> QED BY <1>1, <2>1, <2>2, <2>3, <2>4 DEF Submit
  <1>2. ASSUME NEW c \in Callers, Drain(c) PROVE VerdictInv'
    <2>1. CASE DrainCompleted(c)
      BY <1>0, <2>1 DEF DrainCompleted, history
    <2>2. CASE DrainNotify(c)
      BY <1>0, <2>2 DEF DrainNotify, Awakened, work, history
    <2> QED BY <1>2, <2>1, <2>2 DEF Drain
  <1>3. ASSUME NEW c \in Callers, NEW j \in JobIds, Cancel(c, j) PROVE VerdictInv'
    <2> PICK reason \in CancelReasons : \/ CancelQueued(c, j, reason)
                                        \/ CancelMarkQueued(c, j, reason)
                                        \/ CancelRunning(c, j, reason)
      BY <1>3 DEF Cancel
    <2>0. Requested(token[j], reason) # "none"
      BY ReasonAssumption DEF Requested
    <2>1. CASE CancelQueued(c, j, reason)
      BY <1>0, <2>0, <2>1 DEF CancelQueued
    <2>2. CASE CancelMarkQueued(c, j, reason)
      BY <1>0, <2>0, <2>2 DEF CancelMarkQueued, NotifyOne, Asleep
    <2>3. CASE CancelRunning(c, j, reason)
      BY <1>0, <2>0, <2>3 DEF CancelRunning
    <2> QED BY <2>1, <2>2, <2>3
  <1>4. ASSUME NEW w \in Workers, WorkerStep(w) PROVE VerdictInv'
    <2>1. CASE WorkerTake(w)
      <3> PICK j \in In("queued") :
             /\ phase' = [phase EXCEPT ![j] = "running"]
             /\ held' = [held EXCEPT ![w] = j]
        BY <2>1 DEF WorkerTake
      <3>1. j \in JobIds /\ phase[j] = "queued"
        BY DEF In
      <3>2. /\ UNCHANGED <<token, outcome, nextId, acknowledged, ran, destroy>>
            /\ pc[w] = "top"
            /\ pc' = [pc EXCEPT ![w] = "taken"]
        BY <2>1 DEF WorkerTake
      <3> QED BY <1>0, <3>1, <3>2
    <2>2. CASE WorkerSleep(w)
      BY <1>0, <2>2 DEF WorkerSleep, work, history
    <2>3. CASE WorkerExit(w)
      BY <1>0, <2>3 DEF WorkerExit, work, history
    <2>4. CASE WorkerSkip(w)
      BY <1>0, <2>4 DEF WorkerSkip, work, history
    <2>5. CASE WorkerBegin(w)
      BY <1>0, <2>5 DEF WorkerBegin, work
    <2>12. CASE WorkerClear(w)
      BY <1>0, <2>12 DEF WorkerClear, work, history
    <2>6. CASE WorkerReturn(w)
      BY <1>0, <2>6 DEF WorkerReturn, history
    <2>7. CASE WorkerFinish(w)
      BY <1>0, <2>7 DEF WorkerFinish, history
    <2>8. CASE WorkerPublish(w)
      BY <1>0, <2>8 DEF WorkerPublish, Retire, history
    <2>9. CASE WorkerDiscard(w)
      BY <1>0, <2>9 DEF WorkerDiscard, Retire, history
    <2>10. CASE WorkerFindsFull(w)
      BY <1>0, <2>10 DEF WorkerFindsFull, work, history
    <2>11. CASE WorkerBlock(w)
      BY <1>0, <2>11 DEF WorkerBlock, work, history
    <2> QED BY <1>4, <2>1, <2>2, <2>3, <2>4, <2>5, <2>6, <2>7, <2>8, <2>9, <2>10, <2>11,
            <2>12 DEF WorkerStep
  <1>5. ASSUME NEW w \in Workers, SpuriousWake(w) PROVE VerdictInv'
    BY <1>0, <1>5 DEF SpuriousWake, work, history
  <1>6. CASE Destroy
    <2>1. CASE DestroyStop
      BY <1>0, <2>1 DEF DestroyStop, Requested, history
    <2>2. CASE DestroyNotifyJobs
      BY <1>0, <2>2 DEF DestroyNotifyJobs, Awakened, work, history
    <2>3. CASE DestroyNotifySpace
      BY <1>0, <2>3 DEF DestroyNotifySpace, Awakened, work, history
    <2>4. CASE DestroyJoin
      BY <1>0, <2>4 DEF DestroyJoin, work, history
    <2> QED BY <1>6, <2>1, <2>2, <2>3, <2>4 DEF Destroy
  <1>7. CASE UNCHANGED vars
    BY <1>0, <1>7 DEF vars
  <1> QED BY <1>1, <1>2, <1>3, <1>4, <1>5, <1>6, <1>7 DEF Next

LEMMA VerdictInvariant == Spec => []VerdictInv
  BY VerdictInit, VerdictStep, PTL DEF Spec

\* Whatever the interleaving of cancellers, workers and the destructor, a job whose
\* cancellation was acknowledged carries a cancelled result from then on.
THEOREM CancelIsHonoured == Spec => []CancelHonoured
  <1>1. VerdictInv => CancelHonoured
    BY DEF VerdictInv, TypeInv, TypeOK, AcknowledgedMarked, VerdictExplained, CancelHonoured
  <1> QED BY VerdictInvariant, <1>1, PTL

\* A published result is decided, is cancelled exactly when a reason was recorded, and
\* reports success or failure only of a callback that ran.
THEOREM VerdictIsExplained == Spec => []VerdictExplained
  <1>1. VerdictInv => VerdictExplained
    BY DEF VerdictInv
  <1> QED BY VerdictInvariant, <1>1, PTL
--------------------------------------------------------------------------------
(* Rules about tokens *)

TokenRule == \A j \in JobIds : Cancelled(j) => token'[j] = token[j]

LEMMA TokenStep == VerdictInv /\ [Next]_vars => TokenRule
  <1> SUFFICES ASSUME VerdictInv, [Next]_vars PROVE TokenRule
    OBVIOUS
  <1> USE DEF VerdictInv, TypeInv, TypeOK, TokenRule, Cancelled, Requested
  <1>1. ASSUME NEW a \in Submitters, Submit(a) PROVE TokenRule
    BY <1>1 DEF Submit, SubmitCheck, SubmitRejected, SubmitEnqueue, SubmitNotify, work
  <1>2. ASSUME NEW c \in Callers, Drain(c) PROVE TokenRule
    BY <1>2 DEF Drain, DrainCompleted, DrainNotify, work
  <1>3. ASSUME NEW c \in Callers, NEW j \in JobIds, Cancel(c, j) PROVE TokenRule
    BY <1>3 DEF Cancel, CancelQueued, CancelMarkQueued, CancelRunning
  <1>4. ASSUME NEW w \in Workers, WorkerStep(w) PROVE TokenRule
    BY <1>4 DEF WorkerStep, WorkerTake, WorkerSleep, WorkerExit, WorkerSkip, WorkerClear,
       WorkerBegin, WorkerReturn, WorkerFinish, WorkerPublish, WorkerDiscard, Retire,
       WorkerFindsFull, WorkerBlock, work
  <1>5. ASSUME NEW w \in Workers, SpuriousWake(w) PROVE TokenRule
    BY <1>5 DEF SpuriousWake, work
  <1>6. CASE Destroy
    BY <1>6 DEF Destroy, DestroyStop, DestroyNotifyJobs, DestroyNotifySpace, DestroyJoin, work
  <1>7. CASE UNCHANGED vars
    BY <1>7 DEF vars
  <1> QED BY <1>1, <1>2, <1>3, <1>4, <1>5, <1>6, <1>7 DEF Next

\* A recorded cancellation reason is never replaced, not even by the shutdown.
THEOREM FirstReasonIsKept == Spec => FirstReasonWins
  <1>1. VerdictInv /\ [Next]_vars => [\A j \in JobIds : Cancelled(j) => token'[j] = token[j]]_vars
    BY TokenStep DEF TokenRule
  <1> QED BY <1>1, VerdictInvariant, PTL DEF Spec, FirstReasonWins

\* No worker can start job j any more: its token is set, it has not run, and no worker
\* that has read the token before is about to call it.
Barred(j) == /\ Cancelled(j) /\ j \notin ran
             /\ \A w \in Workers : pc[w] = "cleared" => held[w] # j

LEMMA MarkBars ==
  ASSUME VerdictInv, NEW j \in JobIds, phase[j] = "queued", Cancelled(j)
  PROVE  Barred(j)
  BY DEF VerdictInv, Owned, Untouched, RunningPcs, Barred

LEMMA WorkerKeepsBarred ==
  ASSUME VerdictInv, NEW j \in JobIds, Barred(j), Cancelled(j)', NEW w \in Workers, WorkerStep(w)
  PROVE  Barred(j)'
  <1> USE DEF VerdictInv, TypeInv, TypeOK, Barred
  <1>1. CASE WorkerClear(w)
    BY <1>1 DEF WorkerClear, history
  <1>2. CASE WorkerBegin(w)
    BY <1>2 DEF WorkerBegin
  <1>3. CASE WorkerTake(w)
    BY <1>3 DEF WorkerTake
  <1>4. CASE WorkerPublish(w) \/ WorkerDiscard(w)
    BY <1>4 DEF WorkerPublish, WorkerDiscard, Retire, history
  <1>5. CASE \/ WorkerSleep(w) \/ WorkerExit(w) \/ WorkerSkip(w) \/ WorkerReturn(w)
             \/ WorkerFinish(w) \/ WorkerFindsFull(w) \/ WorkerBlock(w)
    BY <1>5 DEF WorkerSleep, WorkerExit, WorkerSkip, WorkerReturn, WorkerFinish,
       WorkerFindsFull, WorkerBlock, history
  <1> QED BY <1>1, <1>2, <1>3, <1>4, <1>5 DEF WorkerStep

LEMMA BarredStep ==
  ASSUME VerdictInv, NEW j \in JobIds, Barred(j), [Next]_vars
  PROVE  Barred(j)'
  <1>0. Cancelled(j)'
    BY TokenStep DEF TokenRule, Barred, Cancelled
  <1> USE DEF VerdictInv, TypeInv, TypeOK, Barred
  <1>quiet. ASSUME UNCHANGED <<ran, held>>, \A w \in Workers : pc'[w] = "cleared" => pc[w] = "cleared"
            PROVE  Barred(j)'
    BY <1>0, <1>quiet
  <1>1. ASSUME NEW a \in Submitters, Submit(a) PROVE Barred(j)'
    BY <1>1, <1>quiet DEF Submit, SubmitCheck, SubmitRejected, SubmitEnqueue, SubmitNotify,
       NotifyOne, Asleep, history
  <1>2. ASSUME NEW c \in Callers, Drain(c) PROVE Barred(j)'
    BY <1>2, <1>quiet DEF Drain, DrainCompleted, DrainNotify, Awakened, history
  <1>3. ASSUME NEW c \in Callers, NEW k \in JobIds, Cancel(c, k) PROVE Barred(j)'
    BY <1>3, <1>quiet DEF Cancel, CancelQueued, CancelMarkQueued, CancelRunning, NotifyOne, Asleep
  <1>4. ASSUME NEW w \in Workers, WorkerStep(w) PROVE Barred(j)'
    BY <1>0, <1>4, WorkerKeepsBarred
  <1>5. ASSUME NEW w \in Workers, SpuriousWake(w) PROVE Barred(j)'
    BY <1>5, <1>quiet DEF SpuriousWake, history
  <1>6. CASE Destroy
    BY <1>6, <1>quiet DEF Destroy, DestroyStop, DestroyNotifyJobs, DestroyNotifySpace,
       DestroyJoin, Awakened, history
  <1>7. CASE UNCHANGED vars
    BY <1>7, <1>quiet DEF vars
  <1> QED BY <1>1, <1>2, <1>3, <1>4, <1>5, <1>6, <1>7 DEF Next

\* A job whose token is set while it waits in the deque, by whomever, never runs, although
\* the worker that takes it reads the token without a mutex.
THEOREM QueuedMarkIsKept == Spec => QueuedMarkHolds
  <1> SUFFICES ASSUME NEW j \in JobIds
               PROVE  Spec => [](phase[j] = "queued" /\ Cancelled(j) => [](j \notin ran))
    BY DEF QueuedMarkHolds
  <1>1. VerdictInv => (phase[j] = "queued" /\ Cancelled(j) => Barred(j))
    BY MarkBars
  <1>2. VerdictInv /\ Barred(j) /\ [Next]_vars => Barred(j)'
    BY BarredStep
  <1>3. Barred(j) => j \notin ran
    BY DEF Barred
  <1> QED BY <1>1, <1>2, <1>3, VerdictInvariant, PTL DEF Spec

--------------------------------------------------------------------------------
(* The counters *)

AccountingInv == VerdictInv /\ AccountingExact

LEMMA JobSetsFinite == \A S \in SUBSET JobIds : IsFiniteSet(S) /\ Cardinality(S) \in Nat
  <1>1. IsFiniteSet(JobIds)
    BY IdsAssumption, FS_Interval DEF JobIds
  <1> QED BY <1>1, FS_Subset, FS_CardinalityType

LEMMA AddedOne ==
  ASSUME NEW S \in SUBSET JobIds, NEW j \in JobIds, j \notin S
  PROVE  Cardinality(S \cup {j}) = Cardinality(S) + 1
  BY JobSetsFinite, FS_AddElement

LEMMA RemovedOne ==
  ASSUME NEW S \in SUBSET JobIds, NEW j \in S
  PROVE  Cardinality(S \ {j}) = Cardinality(S) - 1
  BY JobSetsFinite, FS_RemoveElement

LEMMA AccountingInit == Init => AccountingInv
  <1> SUFFICES ASSUME Init PROVE AccountingExact
    BY VerdictInit DEF AccountingInv
  <1>1. Active = {} /\ In("completed") = {}
    BY DEF Init, Active, In
  <1>2. Cardinality({}) = 0
    BY FS_EmptySet
  <1> QED BY <1>1, <1>2, LimitsAssumption DEF Init, AccountingExact

LEMMA AccountingStep == AccountingInv /\ [Next]_vars => AccountingInv'
  <1> SUFFICES ASSUME AccountingInv, [Next]_vars PROVE AccountingExact'
    BY VerdictStep DEF AccountingInv
  <1> USE DEF AccountingInv, VerdictInv, TypeInv, TypeOK, Holding
  <1>0. /\ Active \in SUBSET JobIds
        /\ In("completed") \in SUBSET JobIds
        /\ Cardinality(Active) \in Nat
        /\ Cardinality(In("completed")) \in Nat
        /\ pending = Cardinality(Active)
        /\ pending <= MaxPending
        /\ Cardinality(In("completed")) <= MaxCompleted
    BY JobSetsFinite DEF Active, In, AccountingExact
  <1> DEFINE Same == /\ pending' = pending
                     /\ Active' = Active
                     /\ In("completed")' = In("completed")
  <1>same. Same => AccountingExact'
    BY <1>0 DEF AccountingExact
  <1>1. ASSUME NEW a \in Submitters, Submit(a) PROVE AccountingExact'
    <2>1. CASE SubmitEnqueue(a)
      <3>1. nextId \in JobIds /\ phase[nextId] = "unused"
        BY <2>1, JobIdsAreNat DEF SubmitEnqueue, FreshIds
      <3>2. Active' = Active \cup {nextId} /\ nextId \notin Active
        BY <2>1, <3>1 DEF SubmitEnqueue, Active, In
      <3>3. In("completed")' = In("completed")
        BY <2>1, <3>1 DEF SubmitEnqueue, In
      <3>4. Cardinality(Active') = Cardinality(Active) + 1
        BY <1>0, <3>1, <3>2, AddedOne
      <3>5. pending' = pending + 1 /\ pending < MaxPending
        BY <2>1 DEF SubmitEnqueue
      <3> QED BY <1>0, <3>3, <3>4, <3>5, LimitsAssumption DEF AccountingExact
    <2>2. CASE ~SubmitEnqueue(a)
      BY <1>1, <2>2, <1>same DEF Submit, SubmitCheck, SubmitRejected, SubmitNotify, work,
         Active, In
    <2> QED BY <2>1, <2>2
  <1>2. ASSUME NEW c \in Callers, Drain(c) PROVE AccountingExact'
    <2>1. CASE DrainCompleted(c)
      <3>1. Active' = Active /\ In("completed")' = {}
        BY <2>1 DEF DrainCompleted, Active, In
      <3>2. Cardinality(In("completed")') = 0 /\ Cardinality(Active') = Cardinality(Active)
        BY <3>1, FS_EmptySet
      <3>3. pending' = pending
        BY <2>1 DEF DrainCompleted
      <3> QED BY <1>0, <3>2, <3>3, LimitsAssumption DEF AccountingExact
    <2>2. CASE DrainNotify(c)
      BY <2>2, <1>same DEF DrainNotify, work, Active, In
    <2> QED BY <1>2, <2>1, <2>2 DEF Drain
  <1>3. ASSUME NEW c \in Callers, NEW j \in JobIds, Cancel(c, j) PROVE AccountingExact'
    <2> PICK reason \in CancelReasons : \/ CancelQueued(c, j, reason)
                                        \/ CancelMarkQueued(c, j, reason)
                                        \/ CancelRunning(c, j, reason)
      BY <1>3 DEF Cancel
    <2>1. CASE CancelQueued(c, j, reason)
      <3>1. Active' = Active \ {j} /\ j \in Active
        BY <2>1 DEF CancelQueued, Active, In
      <3>2. In("completed")' = In("completed") \cup {j} /\ j \notin In("completed")
        BY <2>1 DEF CancelQueued, In
      <3>3. pending' = pending - 1 /\ Cardinality(In("completed")) < MaxCompleted
        BY <1>0, <2>1, LimitsAssumption DEF CancelQueued, MailboxFull
      <3> QED BY <1>0, <3>1, <3>2, <3>3, AddedOne, RemovedOne, LimitsAssumption
              DEF AccountingExact
    <2>2. CASE CancelMarkQueued(c, j, reason) \/ CancelRunning(c, j, reason)
      BY <2>2, <1>same DEF CancelMarkQueued, CancelRunning, Active, In
    <2> QED BY <2>1, <2>2
  <1>4. ASSUME NEW w \in Workers, WorkerStep(w) PROVE AccountingExact'
    <2>1. CASE WorkerTake(w)
      <3> PICK j \in In("queued") : phase' = [phase EXCEPT ![j] = "running"]
        BY <2>1 DEF WorkerTake
      <3>1. Active' = Active /\ In("completed")' = In("completed")
        BY DEF Active, In
      <3> QED BY <2>1, <3>1, <1>same DEF WorkerTake
    <2>2. CASE WorkerFinish(w)
      <3>1. phase[held[w]] = "running"
        BY <2>2 DEF WorkerFinish, Owned, RunningPcs
      <3>2. Active' = Active /\ In("completed")' = In("completed")
        BY <2>2, <3>1 DEF WorkerFinish, Active, In
      <3> QED BY <2>2, <3>2, <1>same DEF WorkerFinish
    <2>3. ASSUME NEW where \in {"completed", "discarded"}, pc[w] = "publish", Retire(w, where),
                 where = "completed" => ~MailboxFull
          PROVE AccountingExact'
      <3>1. held[w] \in JobIds /\ phase[held[w]] = "publishing"
        BY <2>3 DEF Owned, PublishingPcs, RunningPcs
      <3>2. Active' = Active \ {held[w]} /\ held[w] \in Active
        BY <2>3, <3>1 DEF Retire, Active, In
      <3>3. pending' = pending - 1 /\ Cardinality(Active') = pending - 1
        BY <1>0, <2>3, <3>2, RemovedOne DEF Retire
      <3>4. CASE where = "completed"
        <4>1. /\ In("completed")' = In("completed") \cup {held[w]}
              /\ held[w] \notin In("completed")
          BY <2>3, <3>1, <3>4 DEF Retire, In
        <4>2. Cardinality(In("completed")) < MaxCompleted
          BY <1>0, <2>3, <3>4, LimitsAssumption DEF MailboxFull
        <4> QED BY <1>0, <3>1, <3>3, <4>1, <4>2, AddedOne, LimitsAssumption
                DEF AccountingExact
      <3>5. CASE where = "discarded"
        <4>1. In("completed")' = In("completed")
          BY <2>3, <3>1, <3>5 DEF Retire, In
        <4> QED BY <1>0, <3>3, <4>1, LimitsAssumption DEF AccountingExact
      <3> QED BY <3>4, <3>5
    <2>4. CASE WorkerPublish(w)
      BY <2>3, <2>4 DEF WorkerPublish
    <2>5. CASE WorkerDiscard(w)
      BY <2>3, <2>5 DEF WorkerDiscard
    <2>6. CASE \/ WorkerSleep(w) \/ WorkerExit(w) \/ WorkerSkip(w) \/ WorkerClear(w)
               \/ WorkerBegin(w) \/ WorkerReturn(w) \/ WorkerFindsFull(w) \/ WorkerBlock(w)
      BY <2>6, <1>same DEF WorkerSleep, WorkerExit, WorkerSkip, WorkerClear, WorkerBegin,
         WorkerReturn, WorkerFindsFull, WorkerBlock, work, Active, In
    <2> QED BY <1>4, <2>1, <2>2, <2>4, <2>5, <2>6 DEF WorkerStep
  <1>5. ASSUME NEW w \in Workers, SpuriousWake(w) PROVE AccountingExact'
    BY <1>5, <1>same DEF SpuriousWake, work, Active, In
  <1>6. CASE Destroy
    BY <1>6, <1>same DEF Destroy, DestroyStop, DestroyNotifyJobs, DestroyNotifySpace,
                         DestroyJoin, work, Active, In
  <1>7. CASE UNCHANGED vars
    BY <1>7, <1>same DEF vars, Active, In
  <1> QED BY <1>1, <1>2, <1>3, <1>4, <1>5, <1>6, <1>7 DEF Next

LEMMA AccountingInvariant == Spec => []AccountingInv
  BY AccountingInit, AccountingStep, PTL DEF Spec

\* The pending counter, changed under two different mutexes, always equals the number
\* of jobs it stands for, and both documented limits hold for every limit.
THEOREM LimitsHold == Spec => []AccountingExact
  <1>1. AccountingInv => AccountingExact
    BY DEF AccountingInv
  <1> QED BY AccountingInvariant, <1>1, PTL
--------------------------------------------------------------------------------
(* Aging bounds how often a job is passed *)

\* Each younger job that passes is one dispatch, and the age of a job is counted in
\* dispatches: the bound on its age is the bound on those that pass it.
PassedWhileAging == \A k \in JobIds : bypass[k] <= dispatchCount - enqueuedAt[k]

\* An id that is not handed out yet has been passed by nobody.
UnusedUnpassed == \A k \in JobIds : phase[k] = "unused" => bypass[k] = 0

BoundedByAging == \A k \in JobIds : bypass[k] <= AgingDispatches * (HighRank - priority[k])

BypassInv == VerdictInv /\ UnusedUnpassed /\ PassedWhileAging /\ BoundedByAging

\* A job that has not aged to the highest rank is younger than the age that takes it
\* there.
LEMMA AgeBelowRank ==
  ASSUME NEW d \in Nat, NEW a \in Nat \ {0}, NEW p \in 0..HighRank,
         p + d \div a < HighRank
  PROVE  d < a * (HighRank - p)
  <1> DEFINE q == d \div a
             r == d % a
  <1>1. q \in Int /\ r \in 0..(a - 1) /\ d = a * q + r
    OBVIOUS
  <1>2. q \in Nat
    OBVIOUS
  <1>3. q + p < HighRank
    OBVIOUS
  <1> HIDE DEF q, r
  <1>4. CASE p = 0 /\ q = 0
    BY <1>1, <1>4
  <1>5. CASE p = 0 /\ q = 1
    BY <1>1, <1>5
  <1>6. CASE p = 1 /\ q = 0
    BY <1>1, <1>6
  <1> QED BY <1>2, <1>3, <1>4, <1>5, <1>6

\* A job is passed by a younger one only while its age has not raised it to the highest
\* rank: at equal ranks the older one goes first.
LEMMA PassedBelowHighest ==
  ASSUME VerdictInv, PassedWhileAging,
         NEW j \in In("queued"), Best(j), NEW k \in JobIds, Overtaken(k, j)
  PROVE  dispatchCount - enqueuedAt[k] < AgingDispatches * (HighRank - priority[k])
  <1> DEFINE age == dispatchCount - enqueuedAt[k]
  <1> USE DEF VerdictInv, TypeInv, TypeOK
  <1>1. age \in Nat /\ bypass[k] \in Nat /\ bypass[k] <= age
    BY DEF PassedWhileAging
  <1>2. k \in In("queued") /\ j \in JobIds /\ k < j /\ ~Cancelled(j)
    BY DEF Overtaken, In
  <1>3. DispatchedBefore(j, k)
    BY <1>2 DEF Best
  <1>4. EffectivePriority(j) > EffectivePriority(k)
    BY <1>2, <1>3, JobIdsAreNat DEF DispatchedBefore
  <1>5. /\ enqueuedAt[j] \in Nat /\ priority[j] \in 0..HighRank
        /\ (dispatchCount - enqueuedAt[j]) \div AgingDispatches \in Int
    BY <1>2, LimitsAssumption
  <1>6. EffectivePriority(j) \in Int /\ EffectivePriority(j) <= HighRank
    BY <1>5 DEF EffectivePriority
  <1>7. age \div AgingDispatches \in Int
    BY <1>1, LimitsAssumption
  <1>8. priority[k] + age \div AgingDispatches < HighRank
    BY <1>4, <1>6, <1>7 DEF EffectivePriority
  <1> QED BY <1>1, <1>8, AgeBelowRank, LimitsAssumption

LEMMA BypassInit == Init => BypassInv
  BY VerdictInit, LimitsAssumption
     DEF Init, BypassInv, UnusedUnpassed, PassedWhileAging, BoundedByAging

LEMMA BypassStep == BypassInv /\ [Next]_vars => BypassInv'
  <1> SUFFICES ASSUME BypassInv, [Next]_vars PROVE BypassInv'
    OBVIOUS
  <1>0. VerdictInv /\ VerdictInv'
    BY VerdictStep DEF BypassInv
  <1>t. TypeOK /\ TypeOK'
    BY <1>0 DEF VerdictInv, TypeInv
  <1>quiet. ASSUME UNCHANGED <<priority, dispatchCount, bypass>>,
                   \A k \in JobIds : enqueuedAt'[k] \in {enqueuedAt[k], 0},
                   \A k \in JobIds : phase'[k] = "unused" => phase[k] = "unused"
            PROVE  BypassInv'
    <2>1. PassedWhileAging'
      BY <1>t, <1>quiet DEF BypassInv, PassedWhileAging, TypeOK
    <2> QED BY <1>0, <1>t, <1>quiet, <2>1 DEF BypassInv, UnusedUnpassed, BoundedByAging
  <1>1. ASSUME NEW a \in Submitters, Submit(a) PROVE BypassInv'
    <2>1. CASE SubmitEnqueue(a)
      <3>1. nextId \in JobIds /\ phase[nextId] = "unused"
        <4>1. nextId # 0 /\ nextId \in JobIds
          BY <2>1, <1>t DEF SubmitEnqueue, TypeOK
        <4>2. nextId >= nextId
          BY <4>1, JobIdsAreNat
        <4> QED BY <4>1, <4>2, <1>0 DEF VerdictInv, FreshIds
      <3>2. bypass[nextId] = 0
        BY <3>1 DEF BypassInv, UnusedUnpassed
      <3>3. /\ bypass' = bypass /\ dispatchCount' = dispatchCount
            /\ enqueuedAt' = [enqueuedAt EXCEPT ![nextId] = dispatchCount]
            /\ phase' = [phase EXCEPT ![nextId] = "queued"]
            /\ \A k \in JobIds \ {nextId} : priority'[k] = priority[k]
        BY <2>1, <1>t DEF SubmitEnqueue, TypeOK, history
      <3>4. priority'[nextId] \in 0..HighRank
        BY <3>1, <1>t DEF TypeOK
      <3>5. AgingDispatches * (HighRank - priority'[nextId]) >= 0
        <4> PICK r \in {0, 1, 2} : HighRank - priority'[nextId] = r
          BY <3>4
        <4> QED BY LimitsAssumption
      <3>6. UnusedUnpassed' /\ PassedWhileAging'
        BY <3>1, <3>2, <3>3, <1>t DEF BypassInv, UnusedUnpassed, PassedWhileAging, TypeOK
      <3>7. BoundedByAging'
        BY <3>2, <3>3, <3>5 DEF BypassInv, BoundedByAging
      <3> QED BY <1>0, <3>6, <3>7 DEF BypassInv
    <2>2. CASE ~SubmitEnqueue(a)
      BY <1>1, <2>2, <1>quiet DEF Submit, SubmitCheck, SubmitRejected, SubmitNotify, work,
         history
    <2> QED BY <2>1, <2>2
  <1>2. ASSUME NEW c \in Callers, Drain(c) PROVE BypassInv'
    BY <1>2, <1>t, <1>quiet DEF Drain, DrainCompleted, DrainNotify, TypeOK, work, history
  <1>3. ASSUME NEW c \in Callers, NEW j \in JobIds, Cancel(c, j) PROVE BypassInv'
    BY <1>3, <1>t, <1>quiet DEF Cancel, CancelQueued, CancelMarkQueued, CancelRunning, TypeOK
  <1>4. ASSUME NEW w \in Workers, WorkerStep(w) PROVE BypassInv'
    <2>1. CASE WorkerTake(w)
      <3> PICK j \in In("queued") :
             /\ Best(j)
             /\ phase' = [phase EXCEPT ![j] = "running"]
             /\ bypass' = [k \in JobIds |-> IF Overtaken(k, j) THEN bypass[k] + 1
                                                               ELSE bypass[k]]
        BY <2>1 DEF WorkerTake
      <3>1. /\ UNCHANGED priority
            /\ \A k \in JobIds : enqueuedAt'[k] \in {enqueuedAt[k], 0}
            /\ dispatchCount' = dispatchCount + 1
        BY <2>1, <1>t DEF WorkerTake, TypeOK
      <3>2. UnusedUnpassed'
        BY <1>t DEF BypassInv, UnusedUnpassed, Overtaken, In, TypeOK
      <3>3. PassedWhileAging'
        BY <3>1, <1>t DEF BypassInv, PassedWhileAging, TypeOK
      <3>4. ASSUME NEW k \in JobIds
            PROVE  bypass'[k] <= AgingDispatches * (HighRank - priority[k])
        <4> DEFINE most == AgingDispatches * (HighRank - priority[k])
        <4>1. most \in Int /\ bypass[k] \in Int /\ bypass[k] <= most
          BY <1>t, LimitsAssumption DEF BypassInv, BoundedByAging, TypeOK
        <4>2. /\ dispatchCount - enqueuedAt[k] \in Int
              /\ bypass[k] <= dispatchCount - enqueuedAt[k]
          BY <1>t DEF BypassInv, PassedWhileAging, TypeOK
        <4>3. Overtaken(k, j) => dispatchCount - enqueuedAt[k] < most
          BY <1>0, PassedBelowHighest DEF BypassInv
        <4> HIDE DEF most
        <4>4. bypass'[k] <= most
          BY <4>1, <4>2, <4>3
        <4> QED BY <4>4 DEF most
      <3> QED BY <1>0, <3>1, <3>2, <3>3, <3>4 DEF BypassInv, BoundedByAging
    <2>2. CASE ~WorkerTake(w)
      <3>1. UNCHANGED <<priority, enqueuedAt, dispatchCount, bypass>>
        BY <1>4, <2>2 DEF WorkerStep, WorkerSleep, WorkerExit, WorkerSkip, WorkerClear,
           WorkerBegin, WorkerReturn, WorkerFinish, WorkerPublish, WorkerDiscard, Retire,
           WorkerFindsFull, WorkerBlock, work, history
      <3>2. \A k \in JobIds : phase'[k] = "unused" => phase[k] = "unused"
        BY <1>4, <2>2, <1>t DEF WorkerStep, WorkerSleep, WorkerExit, WorkerSkip,
           WorkerClear, WorkerBegin, WorkerReturn, WorkerFinish, WorkerPublish,
           WorkerDiscard, Retire, WorkerFindsFull, WorkerBlock, work, history, TypeOK
      <3> QED BY <3>1, <3>2, <1>quiet
    <2> QED BY <2>1, <2>2
  <1>5. ASSUME NEW w \in Workers, SpuriousWake(w) PROVE BypassInv'
    BY <1>5, <1>quiet DEF SpuriousWake, work, history
  <1>6. CASE Destroy
    BY <1>6, <1>quiet DEF Destroy, DestroyStop, DestroyNotifyJobs, DestroyNotifySpace,
       DestroyJoin, work, history
  <1>7. CASE UNCHANGED vars
    BY <1>7, <1>quiet DEF vars
  <1> QED BY <1>1, <1>2, <1>3, <1>4, <1>5, <1>6, <1>7 DEF Next

\* However busy the pool and whatever is submitted, the younger jobs dispatched before a
\* queued one are bounded by the dispatches it needs to age to the highest rank.
THEOREM AgingBoundsBypass == Spec => []BypassBound
  <1>1. BypassInv => BypassBound
    BY DEF BypassInv, BoundedByAging, BypassBound
  <1> QED BY BypassInit, BypassStep, <1>1, PTL DEF Spec

--------------------------------------------------------------------------------
(* The pool implements the contract *)

\* The contract counts as the pool does (each module has its instance of FiniteSets).
LEMMA SameCount == \A S : Contract!Cardinality(S) = Cardinality(S)
  BY DEF Contract!Cardinality, Cardinality, Contract!IsFiniteSet, IsFiniteSet

\* The contract's structures, read through the refinement mapping.
LEMMA MappedSets ==
  ASSUME TypeOK
  PROVE  /\ Contract!In("pending") = Active
         /\ Contract!In("ready") = In("completed")
         /\ \A j \in JobIds : /\ phase[j] = "unused" <=> ContractStage(phase[j]) = "unused"
                              /\ j \in Active <=> ContractStage(phase[j]) = "pending"
  BY DEF TypeOK, Phases, Contract!In, In, Active, ContractStage

LEMMA RoomMapped ==
  ASSUME TypeOK
  PROVE  Contract!Room <=> ~MailboxFull
  <1>1. Contract!In("ready") = In("completed")
    BY MappedSets
  <1>2. Cardinality(In("completed")) \in Nat
    BY JobSetsFinite DEF In
  <1> QED BY <1>1, <1>2, SameCount, LimitsAssumption DEF Contract!Room, MailboxFull

Stages == [j \in JobIds |-> ContractStage(phase[j])]
ResultOf == [j \in JobIds |-> IF phase[j] \in {"completed", "drained"} THEN outcome[j]
                                                                     ELSE "none"]

LEMMA ContractInit == Init => Contract!Init
  BY DEF Init, Contract!Init, ContractStage, Stopping

LEMMA ContractStep == AccountingInv /\ [Next]_vars => [Contract!Next]_(Contract!vars)
  <1> SUFFICES ASSUME AccountingInv, [Next]_vars
               PROVE  Contract!Next \/ UNCHANGED Contract!vars
    OBVIOUS
  <1> USE DEF AccountingInv, VerdictInv, TypeInv, TypeOK, Holding
  <1>0. TypeOK /\ TypeOK'
    BY TypeStep
  <1>same. ASSUME Stages' = Stages, ResultOf' = ResultOf,
                  UNCHANGED acknowledged, Stopping' = Stopping
           PROVE  UNCHANGED Contract!vars
    BY <1>same DEF Contract!vars, Stages, ResultOf
  <1>quiet. ASSUME UNCHANGED <<phase, outcome, acknowledged>>, Stopping' = Stopping
            PROVE  UNCHANGED Contract!vars
    BY <1>same, <1>quiet DEF Stages, ResultOf
  <1>1. ASSUME NEW a \in Submitters, Submit(a)
        PROVE  Contract!Next \/ UNCHANGED Contract!vars
    <2>1. CASE SubmitEnqueue(a)
      <3>1. nextId \in JobIds /\ phase[nextId] = "unused"
        BY <2>1, JobIdsAreNat DEF SubmitEnqueue, FreshIds
      <3>2. Stages' = [Stages EXCEPT ![nextId] = "pending"]
        BY <2>1, <3>1 DEF SubmitEnqueue, Stages, ContractStage
      <3>3. ResultOf' = ResultOf
        BY <2>1, <3>1 DEF SubmitEnqueue, ResultOf
      <3>4. /\ Contract!Cardinality(Contract!In("pending")) < MaxPending
            /\ Stages[nextId] = "unused"
        BY <2>1, <3>1, MappedSets, SameCount
           DEF SubmitEnqueue, AccountingExact, Stages, ContractStage
      <3>5. UNCHANGED <<acknowledged, destroy>> /\ ~Stopping
        BY <2>1 DEF SubmitEnqueue, history
      <3>6. Contract!Accept(nextId)
        BY <3>2, <3>3, <3>4, <3>5 DEF Contract!Accept, Stages, ResultOf, Stopping
      <3> QED BY <3>1, <3>6 DEF Contract!Next
    <2>2. CASE ~SubmitEnqueue(a)
      BY <1>1, <2>2, <1>quiet DEF Submit, SubmitCheck, SubmitRejected, SubmitNotify, work,
         history, Stopping
    <2> QED BY <2>1, <2>2
  <1>2. ASSUME NEW c \in Callers, Drain(c)
        PROVE  Contract!Next \/ UNCHANGED Contract!vars
    <2>1. CASE DrainCompleted(c)
      <3>1. Stages' = [j \in JobIds |-> IF Stages[j] = "ready" THEN "returned" ELSE Stages[j]]
        BY <2>1 DEF DrainCompleted, Stages, ContractStage, Phases
      <3>2. ResultOf' = ResultOf
        BY <2>1 DEF DrainCompleted, ResultOf
      <3>3. Contract!Collect
        BY <2>1, <3>1, <3>2 DEF DrainCompleted, Contract!Collect, Stages, ResultOf,
           Stopping, history
      <3> QED BY <3>3 DEF Contract!Next
    <2>2. CASE DrainNotify(c)
      BY <2>2, <1>quiet DEF DrainNotify, work, history, Stopping
    <2> QED BY <1>2, <2>1, <2>2 DEF Drain
  <1>3. ASSUME NEW c \in Callers, NEW j \in JobIds, Cancel(c, j)
        PROVE  Contract!Next \/ UNCHANGED Contract!vars
    <2> PICK reason \in CancelReasons : \/ CancelQueued(c, j, reason)
                                        \/ CancelMarkQueued(c, j, reason)
                                        \/ CancelRunning(c, j, reason)
      BY <1>3 DEF Cancel
    <2>1. CASE CancelQueued(c, j, reason)
      <3>1. /\ Stages[j] = "pending"
            /\ Stages' = [Stages EXCEPT ![j] = "ready"]
        BY <2>1 DEF CancelQueued, Stages, ContractStage
      <3>2. ResultOf' = [ResultOf EXCEPT ![j] = "cancelled"]
        BY <2>1 DEF CancelQueued, ResultOf
      <3>3. Contract!Cancel(j)
        BY <2>1, <3>1, <3>2, RoomMapped
           DEF CancelQueued, Contract!Cancel, Stages, ResultOf, Stopping
      <3> QED BY <3>3 DEF Contract!Next
    <2>2. CASE CancelMarkQueued(c, j, reason) \/ CancelRunning(c, j, reason)
      <3>1. Stages[j] = "pending"
        BY <2>2 DEF CancelMarkQueued, CancelRunning, Stages, ContractStage
      <3>2. Stages' = Stages /\ ResultOf' = ResultOf
        BY <2>2 DEF CancelMarkQueued, CancelRunning, Stages, ResultOf
      <3>3. Contract!Cancel(j)
        BY <2>2, <3>1, <3>2 DEF CancelMarkQueued, CancelRunning, Contract!Cancel, Stages,
           ResultOf, Stopping
      <3> QED BY <3>3 DEF Contract!Next
    <2> QED BY <2>1, <2>2
  <1>4. ASSUME NEW w \in Workers, WorkerStep(w)
        PROVE  Contract!Next \/ UNCHANGED Contract!vars
    <2>1. CASE WorkerTake(w)
      <3> PICK j \in In("queued") : phase' = [phase EXCEPT ![j] = "running"]
        BY <2>1 DEF WorkerTake
      <3>1. Stages' = Stages /\ ResultOf' = ResultOf
        BY <2>1 DEF WorkerTake, In, Stages, ResultOf, ContractStage
      <3> QED BY <2>1, <3>1, <1>same DEF WorkerTake, Stopping
    <2>2. CASE WorkerReturn(w) \/ WorkerFinish(w)
      <3>1. held[w] \in JobIds /\ phase[held[w]] = "running"
        BY <2>2 DEF WorkerReturn, WorkerFinish, Owned, RunningPcs
      <3>2. Stages' = Stages /\ ResultOf' = ResultOf
        BY <2>2, <3>1 DEF WorkerReturn, WorkerFinish, Stages, ResultOf, ContractStage
      <3> QED BY <2>2, <3>2, <1>same DEF WorkerReturn, WorkerFinish, Stopping, history
    <2>3. CASE WorkerPublish(w)
      <3> PICK j \in JobIds : j = held[w] /\ phase[j] = "publishing"
        BY <2>3 DEF WorkerPublish, Owned, PublishingPcs
      <3> PICK v \in Contract!Verdicts : v = outcome[j]
        BY DEF VerdictExplained, Contract!Verdicts
      <3>1. Stages[j] = "pending" /\ Stages' = [Stages EXCEPT ![j] = "ready"]
        BY <2>3 DEF WorkerPublish, Retire, Stages, ContractStage
      <3>2. ResultOf' = [ResultOf EXCEPT ![j] = v]
        BY <2>3 DEF WorkerPublish, Retire, ResultOf
      <3>3. ~MailboxFull /\ UNCHANGED <<acknowledged, destroy>>
        BY <2>3 DEF WorkerPublish, Retire, history
      <3>4. Contract!MayReport(j, v)
        BY DEF VerdictExplained, AcknowledgedMarked, TokenOrigin, Contract!MayReport,
                    Stopping
      <3>5. Contract!Report(j, v)
        BY <3>1, <3>2, <3>3, <3>4, RoomMapped
           DEF Contract!Report, Stages, ResultOf, Stopping
      <3> QED BY <3>5 DEF Contract!Next
    <2>4. CASE WorkerDiscard(w)
      <3> PICK j \in JobIds : j = held[w] /\ phase[j] = "publishing"
        BY <2>4 DEF WorkerDiscard, Owned, PublishingPcs
      <3>2. Stages[j] = "pending" /\ Stages' = [Stages EXCEPT ![j] = "lost"]
        BY <2>4 DEF WorkerDiscard, Retire, Stages, ContractStage
      <3>3. ResultOf' = ResultOf
        BY <2>4 DEF WorkerDiscard, Retire, ResultOf
      <3>4. MailboxFull /\ Stopping /\ UNCHANGED <<acknowledged, destroy>>
        BY <2>4 DEF WorkerDiscard, Retire, history
      <3>5. Contract!Lose(j)
        BY <3>2, <3>3, <3>4, RoomMapped DEF Contract!Lose, Stages, ResultOf, Stopping
      <3> QED BY <3>5 DEF Contract!Next
    <2>5. CASE \/ WorkerSleep(w) \/ WorkerExit(w) \/ WorkerSkip(w) \/ WorkerClear(w)
               \/ WorkerBegin(w) \/ WorkerFindsFull(w) \/ WorkerBlock(w)
      BY <2>5, <1>quiet DEF WorkerSleep, WorkerExit, WorkerSkip, WorkerClear, WorkerBegin,
         WorkerFindsFull, WorkerBlock, work, history, Stopping
    <2> QED BY <1>4, <2>1, <2>2, <2>3, <2>4, <2>5 DEF WorkerStep
  <1>5. ASSUME NEW w \in Workers, SpuriousWake(w)
        PROVE  Contract!Next \/ UNCHANGED Contract!vars
    BY <1>5, <1>quiet DEF SpuriousWake, work, history, Stopping
  <1>6. CASE Destroy
    <2>1. CASE DestroyStop
      <3>1. Contract!Close
        BY <2>1 DEF DestroyStop, Contract!Close, Stopping, history
      <3> QED BY <3>1 DEF Contract!Next
    <2>2. CASE DestroyNotifyJobs \/ DestroyNotifySpace \/ DestroyJoin
      BY <2>2, <1>quiet DEF DestroyNotifyJobs, DestroyNotifySpace, DestroyJoin, work,
         history, Stopping
    <2> QED BY <1>6, <2>1, <2>2 DEF Destroy
  <1>7. CASE UNCHANGED vars
    BY <1>7, <1>quiet DEF vars, Stopping
  <1> QED BY <1>1, <1>2, <1>3, <1>4, <1>5, <1>6, <1>7 DEF Next

\* The thread pool implements the contract of a job system: an accepted job has at most
\* one result, reported in its turn, and results get lost only in a destruction.
THEOREM PoolImplementsContract == Spec => ImplementsContract
  BY ContractInit, ContractStep, AccountingInvariant, PTL
     DEF Spec, ImplementsContract, Contract!Spec
================================================================================

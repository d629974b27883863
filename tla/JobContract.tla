------------------------------ MODULE JobContract ------------------------------
(***************************************************************************)
(* What IJobSystem (engine/jobs/job_system.hpp) promises the owner of a job *)
(* system, whatever backend runs the jobs: an accepted job is pending,      *)
(* yields at most one result, that result is collected once, and a job      *)
(* whose cancellation was acknowledged never reports success or failure.    *)
(* Results may be dropped only after the owner began the destruction.       *)
(***************************************************************************)
EXTENDS Integers, FiniteSets

CONSTANTS JobIds,        \* the ids the system can still hand out
          MaxPending,    \* JobSystemDesc.max_pending_jobs
          MaxCompleted   \* JobSystemDesc.max_completed_results

VARIABLES job,           \* id -> where the job is in its life
          verdict,       \* id -> the state its result carries, "none" before
          cancelled,     \* ids whose request_cancel returned ok
          open           \* FALSE once the destructor has run its first step

vars == <<job, verdict, cancelled, open>>

Verdicts == {"succeeded", "failed", "cancelled"}

In(stage) == {j \in JobIds : job[j] = stage}
Room == Cardinality(In("ready")) < MaxCompleted

Init == /\ job = [j \in JobIds |-> "unused"]
        /\ verdict = [j \in JobIds |-> "none"]
        /\ cancelled = {}
        /\ open = TRUE

Accept(j) == /\ open
             /\ job[j] = "unused"
             /\ Cardinality(In("pending")) < MaxPending
             /\ job' = [job EXCEPT ![j] = "pending"]
             /\ UNCHANGED <<verdict, cancelled, open>>

\* A job is reported cancelled only if someone asked for it or the system closes.
MayReport(j, v) == /\ j \in cancelled => v = "cancelled"
                   /\ v = "cancelled" => j \in cancelled \/ ~open

Report(j, v) == /\ job[j] = "pending"
                /\ Room
                /\ MayReport(j, v)
                /\ job' = [job EXCEPT ![j] = "ready"]
                /\ verdict' = [verdict EXCEPT ![j] = v]
                /\ UNCHANGED <<cancelled, open>>

\* The acknowledgement may carry the cancelled result with it.
Cancel(j) == /\ job[j] = "pending"
             /\ cancelled' = cancelled \cup {j}
             /\ \/ UNCHANGED <<job, verdict>>
                \/ /\ Room
                   /\ job' = [job EXCEPT ![j] = "ready"]
                   /\ verdict' = [verdict EXCEPT ![j] = "cancelled"]
             /\ UNCHANGED open

Collect == /\ open
           /\ job' = [j \in JobIds |-> IF job[j] = "ready" THEN "returned" ELSE job[j]]
           /\ UNCHANGED <<verdict, cancelled, open>>

Close == /\ open
         /\ open' = FALSE
         /\ UNCHANGED <<job, verdict, cancelled>>

Lose(j) == /\ ~open
           /\ job[j] = "pending"
           /\ ~Room
           /\ job' = [job EXCEPT ![j] = "lost"]
           /\ UNCHANGED <<verdict, cancelled, open>>

Next == \/ \E j \in JobIds : Accept(j) \/ Cancel(j) \/ Lose(j)
        \/ \E j \in JobIds, v \in Verdicts : Report(j, v)
        \/ Collect
        \/ Close

Spec == Init /\ [][Next]_vars
================================================================================

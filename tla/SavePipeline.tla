------------------------------ MODULE SavePipeline ------------------------------
(***************************************************************************)
(* How the application saves: the parts of                                  *)
(* game/application/heartstead_application_mode.cpp that queue snapshots,   *)
(* consume the scheduler's results, retry checkpoints and leave a session,  *)
(* composed with the scheduler's worker.                                    *)
(*                                                                         *)
(* One frame of update() is poll_save_results (two drains, then one step    *)
(* per result), submit_due_checkpoint_retry, and the state's own update,    *)
(* which may end in autosave_if_due; the worker steps in between.  The      *)
(* counter "at" says which of these the owner thread is about to do.        *)
(***************************************************************************)
EXTENDS SaveScheduler, CheckpointRetry

ASSUME DatabasesAssumption == Roots = Databases /\ "none" \notin Roots

VARIABLES
  at,        \* where the owner thread is
  quit,      \* how far shutdown() is
  app,       \* application_state: without a session, playing, or leaving it
  session,   \* the database root of the active session
  intent,    \* pending_saves and pending_checkpoint_attempts: why the owner waits for an id
  batch,     \* results drained and not yet consumed
  retries,   \* checkpoint_retries
  saveError, \* required_save_error
  told,      \* history: roots whose user was told that no checkpoint will follow
  lastExit,  \* history: the newest save that had to succeed before the session goes
  failed     \* shutdown's first_failure

owner == <<at, quit, app, session, intent, batch, retries, saveError, told, lastExit, failed>>
vars == <<request, stage, result, cancelled, active, reserved, nextId, mailbox, disk,
          at, quit, app, session, intent, batch, retries, saveError, told, lastExit, failed>>

Init ==
  /\ SchedulerInit
  /\ at = "poll" /\ quit = "no"
  /\ app = "menu" /\ session = "none"
  /\ intent = [i \in Requests |-> "none"]
  /\ batch = <<>>
  /\ retries = [r \in Roots |-> NoEntry]
  /\ saveError = FALSE
  /\ told = {}
  /\ lastExit = 0
  /\ failed = FALSE

--------------------------------------------------------------------------------
(* queue_active_save *)

QueueSave(why, bytes) ==
  /\ Admits(bytes)
  /\ Submit("snapshot", session, bytes)
  /\ intent' = [intent EXCEPT ![nextId] = why]
  /\ IF why = "autosave" THEN UNCHANGED <<saveError, lastExit>>
                         ELSE saveError' = FALSE /\ lastExit' = nextId

--------------------------------------------------------------------------------
(* update(): poll_save_results *)

\* last_runtime_time_ms is read once per frame, before the results are.
PollPool ==
  /\ at = "poll" /\ quit \in {"no", "poll"}
  /\ DrainPool
  /\ retries' = IF quit = "no" THEN Elapsed(retries) ELSE retries
  /\ at' = "drain"
  /\ UNCHANGED <<quit, app, session, intent, batch, saveError, told, lastExit, failed>>

PollResults ==
  /\ at = "drain"
  /\ DrainTyped
  /\ batch' = mailbox
  /\ at' = "consume"
  /\ UNCHANGED <<quit, app, session, intent, retries, saveError, told, lastExit, failed>>

\* consume_checkpoint_result: only a busy database is tried again.
Outcome(i) == IF result[i].state = "succeeded" THEN "completed"
              ELSE IF result[i].error = "busy" THEN "retryable" ELSE "terminal"

ConsumeCheckpoint(i) ==
  LET root == request[i].root
  IN  /\ retries' = Noted(retries, root, Outcome(i))
      /\ told' = IF Disposition(retries, root, Outcome(i)) \in {"exhausted", "terminal"}
                 THEN told \cup {root} ELSE told
      /\ UNCHANGED saveError

ConsumeRefused(i) ==
  /\ result[i].state # "succeeded"
  /\ saveError' = (saveError \/ intent[i] # "autosave")
  /\ UNCHANGED <<retries, told>>

\* Mutant: a save that was not compacted settles the root as well.
ConsumeAlways(i) ==
  LET root == request[i].root
  IN  /\ result[i].state = "succeeded"
      /\ retries' = Settle(retries, root)
      /\ UNCHANGED <<told, saveError>>

\* A save that was accepted but not compacted leaves a checkpoint to be made.
ConsumeAccepted(i) ==
  LET root == request[i].root
  IN  /\ result[i].state = "succeeded"
      /\ CASE result[i].compacted ->
                retries' = Settle(retries, root) /\ UNCHANGED told
           [] ~result[i].compacted /\ result[i].error # "error" ->
                IF MayDefer(retries, root)
                THEN retries' = Deferred(retries, root, request[i].bytes) /\ UNCHANGED told
                ELSE told' = told \cup {root} /\ UNCHANGED retries
           [] OTHER -> told' = told \cup {root} /\ UNCHANGED retries
      /\ UNCHANGED saveError

Consume ==
  /\ at = "consume" /\ batch # <<>>
  /\ LET i == Head(batch)
     IN  /\ IF intent[i] = "checkpoint" THEN ConsumeCheckpoint(i)
                                        ELSE ConsumeRefused(i) \/ ConsumeAccepted(i)
         /\ intent' = [intent EXCEPT ![i] = "none"]
         /\ Forget(i)
  /\ batch' = Tail(batch)
  /\ UNCHANGED <<at, quit, app, session, lastExit, failed>>

\* shutdown() forgets an older save's error once it has polled.
EndConsume ==
  /\ at = "consume" /\ batch = <<>>
  /\ at' = IF quit = "no" THEN "submit" ELSE "wait"
  /\ quit' = IF quit = "poll" THEN "first" ELSE quit
  /\ saveError' = (saveError /\ quit # "poll")
  /\ UNCHANGED <<schedulerVars, app, session, intent, batch, retries, told, lastExit, failed>>

--------------------------------------------------------------------------------
(* update(): submit_due_checkpoint_retry *)

\* A submission the scheduler or its pool rejects leaves the retry due.
RetryCheckpoint(r) ==
  /\ Admits(retries[r].bytes)
  /\ Submit("checkpoint", r, retries[r].bytes)
  /\ intent' = [intent EXCEPT ![nextId] = "checkpoint"]
  /\ retries' = Submitted(retries, r)

SubmitDue ==
  /\ at = "submit"
  /\ IF HasCapacity /\ Due(retries) # {}
     THEN \E r \in Due(retries) :
            \/ RetryCheckpoint(r)
            \/ ~Admits(retries[r].bytes) /\ UNCHANGED <<schedulerVars, intent, retries>>
     ELSE UNCHANGED <<schedulerVars, intent, retries>>
  /\ at' = "act"
  /\ UNCHANGED <<quit, app, session, batch, saveError, told, lastExit, failed>>

--------------------------------------------------------------------------------
(* update(): input, the application state and autosave_if_due *)

Act == at = "act" /\ at' = "poll" /\ UNCHANGED <<quit, batch, retries, told, failed>>

StayPut ==
  /\ Act
  /\ app = "unloading" => active # {}
  /\ UNCHANGED <<schedulerVars, app, session, intent, saveError, lastExit>>

StartSession(r) ==
  /\ Act
  /\ app = "menu"
  /\ app' = "playing" /\ session' = r
  /\ UNCHANGED <<schedulerVars, intent, saveError, lastExit>>

Autosave(bytes) ==
  /\ Act
  /\ app = "playing" /\ HasCapacity
  /\ QueueSave("autosave", bytes)
  /\ UNCHANGED <<app, session>>

\* A rejected save leaves the player in the session.
ExitSession(bytes) ==
  /\ Act
  /\ app = "playing"
  /\ QueueSave("exit", bytes)
  /\ app' = "unloading"
  /\ UNCHANGED session

\* Mutant: unload_session does not wait for the save in flight.
UnloadEarly ==
  /\ Act
  /\ app = "unloading"
  /\ app' = "menu" /\ session' = "none" /\ saveError' = FALSE
  /\ UNCHANGED <<schedulerVars, intent, lastExit>>

\* case session_unloading: a save error sends the user to a failure screen.
Unload ==
  /\ Act
  /\ app = "unloading" /\ active = {}
  /\ app' = "menu" /\ session' = "none" /\ saveError' = FALSE
  /\ UNCHANGED <<schedulerVars, intent, lastExit>>

--------------------------------------------------------------------------------
(* shutdown() *)

BeginShutdown ==
  /\ at = "poll" /\ quit = "no"
  /\ quit' = "poll"
  /\ UNCHANGED <<schedulerVars, at, app, session, intent, batch, retries, saveError, told,
                 lastExit, failed>>

\* wait_for_pending_saves: results, nothing left to wait for, or thirty seconds without any.
WaitResults ==
  /\ at = "wait" /\ active # {} /\ mailbox # <<>>
  /\ DrainTyped
  /\ batch' = mailbox
  /\ at' = "collect"
  /\ UNCHANGED <<quit, app, session, intent, retries, saveError, told, lastExit, failed>>

Collect ==
  /\ at = "collect" /\ at' = "consume"
  /\ DrainPool
  /\ UNCHANGED <<quit, app, session, intent, batch, retries, saveError, told, lastExit, failed>>

EndWait ==
  /\ at = "wait"
  /\ \/ active = {} /\ failed' = (failed \/ saveError)
     \/ active # {} /\ mailbox = <<>> /\ failed' = TRUE
  /\ at' = IF quit = "first" THEN "final" ELSE "stop"
  /\ UNCHANGED <<schedulerVars, quit, app, session, intent, batch, retries, saveError, told, lastExit>>

FinalSave(bytes) ==
  /\ at = "final"
  /\ quit' = "second"
  /\ \/ /\ session # "none" /\ QueueSave("shutdown", bytes)
        /\ at' = "wait" /\ UNCHANGED failed
     \/ /\ session # "none" /\ ~Admits(bytes)
        /\ at' = "stop" /\ failed' = TRUE
        /\ UNCHANGED <<schedulerVars, intent, saveError, lastExit>>
     \/ /\ session = "none"
        /\ at' = "wait"
        /\ UNCHANGED <<schedulerVars, intent, saveError, lastExit, failed>>
  /\ UNCHANGED <<app, session, batch, retries, told>>

\* unload_session, then SaveScheduler::shutdown up to the join.
StopScheduler ==
  /\ at = "stop" /\ at' = "joining"
  /\ CancelAll
  /\ app' = "menu" /\ session' = "none"
  /\ UNCHANGED <<request, active, reserved, nextId, worker, quit, intent, batch, retries, saveError,
                 told, lastExit, failed>>

Stopped ==
  /\ at = "joining" /\ Joined
  /\ Discard
  /\ at' = "down"
  /\ UNCHANGED <<quit, app, session, intent, batch, retries, saveError, told, lastExit, failed>>

--------------------------------------------------------------------------------
\* A newly accepted snapshot is owed a checkpoint again.
WorkerStep(i) ==
  /\ \/ Start(i) \/ CompactAccepted(i) \/ Checkpoint(i) \/ Publish(i)
     \/ Finish(i, at = "joining")
  /\ UNCHANGED owner

JournalStep(i) ==
  /\ Journal(i)
  /\ told' = IF result'[i].state = "succeeded" THEN told \ {request[i].root} ELSE told
  /\ UNCHANGED <<at, quit, app, session, intent, batch, retries, saveError, lastExit, failed>>

Worker == \E i \in Requests : WorkerStep(i) \/ JournalStep(i)

Frame == \/ PollPool \/ PollResults \/ Consume \/ EndConsume \/ SubmitDue
         \/ StayPut \/ Unload
         \/ \E r \in Roots : StartSession(r)
         \/ \E b \in Sizes : ExitSession(b) \/ Autosave(b)

Shutdown == \/ WaitResults \/ Collect \/ EndWait \/ StopScheduler \/ Stopped
            \/ \E b \in Sizes : FinalSave(b)

Next == Worker \/ Frame \/ BeginShutdown \/ Shutdown

\* The pool's thread and the owner's loop are scheduled; nobody has to quit.
Spec == Init /\ [][Next]_vars
FairSpec == Spec /\ WF_vars(Worker) /\ WF_vars(Frame) /\ WF_vars(Shutdown)

--------------------------------------------------------------------------------
(* Properties *)

TypeOK ==
  /\ SchedulerTypeOK
  /\ at \in {"poll", "drain", "consume", "submit", "act", "wait", "collect", "final",
             "stop", "joining", "down"}
  /\ quit \in {"no", "poll", "first", "second"}
  /\ app \in {"menu", "playing", "unloading"}
  /\ session \in Roots \cup {"none"}
  /\ intent \in [Requests -> {"none", "autosave", "exit", "shutdown", "checkpoint"}]
  /\ batch \in Seq(Requests)
  /\ retries \in [Roots -> [wait : 0..MaximumDelay, bytes : 0..MaxRequestBytes,
                            attempts : 0..MaxAttempts, inFlight : BOOLEAN]]
  /\ saveError \in BOOLEAN /\ failed \in BOOLEAN
  /\ told \subseteq Roots
  /\ lastExit \in 0..LastRequestId

\* Memory: what the owner has reserved is what its active requests were measured at, and it
\* covers every snapshot a job of the pool has still to work on (submit, account_completed).
ReservationCovers ==
  /\ reserved = Bytes(active)
  /\ InStage(Unfinished \ {"published"}) \subseteq active

\* Nothing is dropped: a request is answered once, in the mailbox or in the drained batch, and
\* the owner remembers until then what it was for (the comment in SharedState::publish).  The
\* stopping scheduler discards what is left.
EveryRequestAnswered ==
  at \notin {"joining", "down"} =>
    \A i \in Requests :
      /\ intent[i] # "none" <=> i \in active \cup Positions(batch)
      /\ i \in active => stage[i] \in Unfinished \ {"published"} \/ i \in Positions(mailbox)

\* An accepted snapshot that is not compacted has a checkpoint scheduled or in flight, or the
\* result that will schedule one on its way, or its user was told (consume_save_results).
CheckpointOwed ==
  at # "down" =>
    \A r \in Roots : Pending(r) =>
      \/ retries[r] # NoEntry
      \/ r \in told
      \/ \E i \in Requests : intent[i] \notin {"none", "checkpoint"} /\ request[i].root = r

\* A root never goes back to an older snapshot (queue order, single worker).
NewestSnapshotWins == [][\A r \in Databases : disk'[r].accepted >= disk[r].accepted]_vars

\* A session is left without an error only when its final save is on disk
\* (session_unloading, shutdown).
Leaves == session # "none" /\ session' = "none" /\ ~saveError /\ ~failed
ExitSaveDurable == [][Leaves => disk[session].accepted = lastExit]_vars

\* Every deferred checkpoint is attempted until it is settled or given up.
DeferredSettled ==
  \A r \in Roots : retries[r] # NoEntry ~> retries[r] = NoEntry \/ nextId = 0 \/ quit # "no"

\* Shutdown waits for results and for the worker, and ends (wait_for_pending_saves, shutdown).
ShutdownEnds == quit # "no" ~> at = "down"
================================================================================

---------------------------- MODULE CheckpointRetry ----------------------------
(***************************************************************************)
(* SaveCheckpointRetryQueue (engine/save/save_checkpoint_retry.cpp): what   *)
(* one call makes of the owner's retry table.  The table maps a database    *)
(* root to the checkpoint still owed to it.  A time stamp is kept as the    *)
(* number of frames left to wait, so the checks against a clock that runs   *)
(* backwards have nothing to refuse.                                        *)
(***************************************************************************)
EXTENDS Integers, FiniteSets

CONSTANTS Roots,          \* the database roots of the save slots
          InitialDelay,   \* SaveCheckpointRetryPolicy.initial_delay_ms
          MaximumDelay,   \* maximum_delay_ms
          MaxAttempts,    \* max_attempts
          MaxDeferred     \* max_pending_checkpoints

ASSUME PolicyAssumption == /\ InitialDelay \in Nat \ {0}
                           /\ MaximumDelay \in Nat
                           /\ InitialDelay <= MaximumDelay
                           /\ MaxAttempts \in Nat \ {0}
                           /\ MaxDeferred \in Nat \ {0}

\* A reservation of zero bytes is refused, so zero marks a root that is owed nothing.
NoEntry == [wait |-> 0, bytes |-> 0, attempts |-> 0, inFlight |-> FALSE]

Owed(table) == {r \in Roots : table[r] # NoEntry}

\* defer refuses while an attempt is in flight, and a new root when the table is full.
MayDefer(table, r) == IF table[r] # NoEntry THEN ~table[r].inFlight
                      ELSE Cardinality(Owed(table)) < MaxDeferred

Deferred(table, r, bytes) ==
  [table EXCEPT ![r] = [wait |-> InitialDelay, bytes |-> bytes, attempts |-> 0, inFlight |-> FALSE]]

\* next_due takes the one that has been due longest; any due root stands for it here.
Due(table) == {r \in Owed(table) : /\ ~table[r].inFlight
                                   /\ table[r].attempts < MaxAttempts
                                   /\ table[r].wait = 0}

Submitted(table, r) == [table EXCEPT ![r].inFlight = TRUE, ![r].attempts = @ + 1]

\* Mutant: the maximum delay is not applied.
DelayUncapped(attempts) == InitialDelay * 2 ^ attempts

\* retry_delay_ms doubles once per attempt up to the maximum.
Delay(attempts) == LET doubled == InitialDelay * 2 ^ attempts
                   IN  IF doubled \in 0..MaximumDelay THEN doubled ELSE MaximumDelay

\* note_outcome: the disposition, "refused" when no attempt of that root is in flight.
Disposition(table, r, outcome) ==
  IF ~table[r].inFlight THEN "refused"
  ELSE IF outcome # "retryable" THEN outcome
  ELSE IF table[r].attempts >= MaxAttempts THEN "exhausted" ELSE "scheduled"

\* Mutant: a retryable outcome leaves the entry in flight.
NotedInFlight(table, r, outcome) ==
  CASE Disposition(table, r, outcome) = "refused" -> table
    [] Disposition(table, r, outcome) = "scheduled" ->
         [table EXCEPT ![r].wait = Delay(table[r].attempts)]
    [] OTHER -> [table EXCEPT ![r] = NoEntry]

Noted(table, r, outcome) ==
  CASE Disposition(table, r, outcome) = "refused" -> table
    [] Disposition(table, r, outcome) = "scheduled" ->
         [table EXCEPT ![r].inFlight = FALSE, ![r].wait = Delay(table[r].attempts)]
    [] OTHER -> [table EXCEPT ![r] = NoEntry]

\* note_completed_externally erases the entry, in flight or not.
Settle(table, r) == [table EXCEPT ![r] = NoEntry]

Elapsed(table) == [r \in Roots |-> [table[r] EXCEPT !.wait = IF @ > 0 THEN @ - 1 ELSE 0]]
================================================================================

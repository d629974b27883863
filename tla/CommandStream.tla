----------------------------- MODULE CommandStream -----------------------------
(***************************************************************************)
(* What a connected player may rely on (docs/architecture/networking.md,    *)
(* "Authority and command flow"): the authoritative server executes the     *)
(* commands a client issued exactly once and in the order of their          *)
(* sequence numbers, and a result reaches the client only for a command     *)
(* that was executed.                                                       *)
(***************************************************************************)
EXTENDS Naturals, Sequences

CONSTANT LastCommand  \* how many commands a client issues at most

VARIABLES issued,     \* how many sequence numbers the client has handed out
          log,        \* the sequence numbers in the order of their execution
          answered    \* the sequence numbers whose result the client has seen

vars == <<issued, log, answered>>

Init == /\ issued = 0
        /\ log = <<>>
        /\ answered = {}

Issue == /\ issued < LastCommand
         /\ issued' = issued + 1
         /\ UNCHANGED <<log, answered>>

Execute == /\ Len(log) < issued
           /\ log' = Append(log, Len(log) + 1)
           /\ UNCHANGED <<issued, answered>>

Answer == \E n \in 1..Len(log) : /\ answered' = answered \cup {n}
                                 /\ UNCHANGED <<issued, log>>

Next == Issue \/ Execute \/ Answer

Spec == Init /\ [][Next]_vars
================================================================================

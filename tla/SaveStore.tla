------------------------------- MODULE SaveStore -------------------------------
(***************************************************************************)
(* What a save database promises about full snapshots                       *)
(* (docs/architecture/save_database.md): a register whose accepted value    *)
(* survives every crash.  Snapshots are numbered in the order in which they *)
(* are offered; 0 is the state before the first one.                        *)
(***************************************************************************)
EXTENDS Integers

VARIABLES current,    \* the snapshot a reader gets
          accepted    \* the latest snapshot reported as durably accepted

vars == <<current, accepted>>

Init == current = 0 /\ accepted = 0

\* A snapshot becomes readable; whether it is also safe is not known yet.
Offer == /\ current' > current
         /\ UNCHANGED accepted

Accept == /\ accepted' = current
          /\ UNCHANGED current

\* A crash may take back what was never accepted, and nothing else.
Crash == /\ current' \in accepted..current
         /\ UNCHANGED accepted

Next == Offer \/ Accept \/ Crash

Spec == Init /\ [][Next]_vars
================================================================================

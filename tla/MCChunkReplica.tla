----------------------------- MODULE MCChunkReplica -----------------------------
(* Two chunks: a player around the first, on the way, and around the second.      *)
EXTENDS ChunkReplica

CONSTANTS c1, c2

Between == [desired |-> {c1, c2}, retain |-> {c1, c2}]
MCPlaces == {[desired |-> {c1}, retain |-> {c1}], Between, [desired |-> {c2}, retain |-> {c1, c2}]}

\* The behaviours in which no frame applies an edit while chunk messages stay queued.
\* Some frame always can be one of them: it may take nothing from the wire, or its head.
WaitingSpec == /\ Init /\ [][Next /\ EditsWait]_vars
               /\ ServerFairness /\ WF_vars(Frame /\ EditsWait)
================================================================================

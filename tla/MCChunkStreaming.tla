---------------------------- MODULE MCChunkStreaming ----------------------------
(* A line of three chunks: walking along it, looking back, and a teleport. *)
EXTENDS ChunkStreaming

CONSTANTS c1, c2, c3

View(r, p, k) == [required |-> r, predicted |-> p, retained |-> k]

MCViews == {View({c1}, {c1, c2}, {c1, c2}),
            View({c1, c2}, {c2, c3}, {c1, c2}),
            View({c3}, {}, {c3})}
================================================================================

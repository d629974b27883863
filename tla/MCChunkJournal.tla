----------------------------- MODULE MCChunkJournal -----------------------------
EXTENDS ChunkJournal, TLC

CONSTANTS wa, wb, ra, ca, cb, none

MCSymmetry == Permutations(Writers)
================================================================================

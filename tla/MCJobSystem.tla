------------------------------ MODULE MCJobSystem ------------------------------
EXTENDS JobSystem, TLC

CONSTANTS w1, w2, c1

MCSymmetry == Permutations(Workers)
================================================================================

-------------------------- MODULE MCProcessContainment --------------------------
EXTENDS ProcessContainment, TLC
CONSTANTS l, k1, k2, out, err
Symmetric == Permutations(Kids) \cup Permutations(Streams)
================================================================================

---------------------------- MODULE MCEvidenceLog ----------------------------
EXTENDS EvidenceLog, TLC
CONSTANTS a, b, c, x, y
Symmetric == Permutations(Ids) \cup Permutations(Bodies)
================================================================================

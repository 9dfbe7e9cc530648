---------------------------- MODULE MCTaskPoolBuild ----------------------------
EXTENDS TaskPoolBuild, TLC
CONSTANTS p1, p2, r1
MCEvents == {1, 2}
\* A candidate beside an event of every kind, a second candidate only when it is late:
\* the pool is then refused after both were certified.
MCHistories == {h \in [MCEvents -> Kinds] : h[1] = "candidate" /\ h[2] # "candidate"}
Symmetric == Permutations(Builders)
================================================================================

----------------------------- MODULE MCResultStore -----------------------------
EXTENDS ResultStore, TLC
CONSTANTS p1, p2, r1, r2, r3, a, b
MCProcs == {p1, p2}
MCRecords == {r1, r2, r3}
\* r1 and r3 share a result_id and differ in digest.
MCIdOf == (r1 :> a) @@ (r2 :> b) @@ (r3 :> a)
Symmetric == Permutations(MCProcs)
================================================================================

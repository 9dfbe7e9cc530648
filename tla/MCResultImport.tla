----------------------------- MODULE MCResultImport -----------------------------
EXTENDS ResultImport, TLC
CONSTANTS i1, i2, st1, st2, q1, q2, m1, m2, c1, c2, c3
Run(c, n) == [cell |-> c, run |-> n]
\* m2 disagrees with m1 about c1 and agrees about c2; c3 is outside the pool.
MCSource == (m1 :> {Run(c1, 2), Run(c2, 2)}) @@ (m2 :> {Run(c1, 3), Run(c2, 2), Run(c3, 2)})
\* One row of one cell.
MCSourceOne == m1 :> {Run(c1, 2)}
\* Lock paths of stores and receipts interleave.
MCRank == (st1 :> 1) @@ (q1 :> 2) @@ (st2 :> 3) @@ (q2 :> 4)
Symmetric == Permutations(Importers)
================================================================================

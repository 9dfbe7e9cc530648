--------------------------- MODULE MCRollingSelection ---------------------------
EXTENDS RollingSelection, TLC
CONSTANTS a, b, r1, r2
At(cutoff, start, end) == [cutoff |-> cutoff, start |-> start, end |-> end]
Life(resolved, material, check) == [resolved |-> resolved, material |-> material, check |-> check]
\* a is history from the start; b is resolved before the strict window, arrives in it, and
\* its label is known only at the last moment of the maturity lag.
MCCalendars == {[t \in {a, b} |-> IF t = a THEN Life(0, 0, 0) ELSE Life(1, 2, 3)]}
MCWindows == {[from |-> 0, to |-> 0], [from |-> 0, to |-> 2], [from |-> 2, to |-> 2]}
Symmetric == Permutations(Runners)
MCStrict   == At(1, 2, 2)
MCReplayed == {At(0, 0, 1), At(1, 1, 2)}
================================================================================

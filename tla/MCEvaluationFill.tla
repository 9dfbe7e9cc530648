--------------------------- MODULE MCEvaluationFill ---------------------------
EXTENDS EvaluationFill, TLC
CONSTANTS f1, f2, c1, c2, p1, p2, s1, s2
\* Both plans ask for both cells: every two calls overlap.
MCPlanCells == [p \in Plans |-> Cells]
\* Sound: every CHOOSE of the module is from a set of one element.
Symmetric == Permutations(Fillers) \cup Permutations(Plans)
               \cup Permutations(Cells) \cup Permutations(Scorings)
================================================================================

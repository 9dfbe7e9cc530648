-------------------------- MODULE MCReplicateCampaign --------------------------
EXTENDS ReplicateCampaign, TLC
CONSTANTS o1, o2
Out(kind, cost) == [kind |-> kind, cost |-> cost]
\* Within the limit, above it, and an Agent failure without cost.
MCOutcomes == {Out("scoreable", 1), Out("scoreable", 2), Out("retainable", 0)}
\* Also above every limit, and a Result of no use.
MCAllOutcomes == MCOutcomes \cup {Out("scoreable", 3), Out("unusable", 1)}
Symmetric == Permutations(Operators)
================================================================================

SPECIFICATION FairSpec
CONSTANTS
  o1 = o1  o2 = o2
  Operators = {o1}
  N = 3
  Budget = 4
  Limit = 1
  NewLimit = 2
  Outcomes <- MCAllOutcomes
  MaxFaults = 2
  Nobody = Nobody
INVARIANT WithinBudget
PROPERTIES AuthorityStays InterruptedCompletionSettles AmendmentTakesEffect

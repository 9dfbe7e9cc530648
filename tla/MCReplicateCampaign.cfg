SPECIFICATION Spec
CONSTANTS
  o1 = o1  o2 = o2
  Operators = {o1, o2}
  N = 2
  Budget = 3
  Limit = 1
  NewLimit = 2
  Outcomes <- MCOutcomes
  MaxFaults = 1
  Nobody = Nobody
SYMMETRY Symmetric
INVARIANTS PaidOnce NothingPaidPastAStop AcceptedIsAuthorized

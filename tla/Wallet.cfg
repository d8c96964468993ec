SPECIFICATION Spec
CONSTANTS
  Users = {u1}
  Ids = {i1, i2}
  Refs = {"r1"}
  Topups = {"t1"}
  Guests = {"g1"}
  Credits <- SmallGrants
  Sizes = {2}
  MaxCost = 3
  Ceiling = 4
  TrialCost = 1
  TrialTurns = 1
  Period = 1
  Validity = 1
  Horizon = 1
CHECK_DEADLOCK FALSE
INVARIANTS CreditsConserved OneProviderCall BudgetExact TypeOK
PROPERTIES StaleNeverSpent
SYMMETRY Alike

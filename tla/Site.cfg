SPECIFICATION Spec
CONSTANTS
  Users = {ada, bo}
  MaxSessions = 2
  MaxCalls = 2
  MaxPolls = 1
  Currencies = {TRY, USD}
  Lira = TRY
  Bad = Bad
  PlanKinds <- SomeKinds
  Accounts <- SomeAccounts
  Capabilities <- SomeCaps
  Needs <- SomeNeeds
  MaxLoads = 3
  MaxSelections = 2
  Decisions <- SomeDecisions
  Folders = {f1, f2}
  Names = {n1, n2}
  Lessons = {l1}
  MaxRemote = 1
  Students = {u1}
  Questions = {q1}
  MaxAsks = 2
  MaxSwitches = 2
  MaxOpens = 2
  MaxFiles = 1
  Limits <- SomePlans
  FreePlan <- Free
  Results <- SomeResults
  None = None
  Off = Off
CHECK_DEADLOCK FALSE
SYMMETRY Alike
INVARIANTS ConsentKept RewardSound SessionsApart OrderedAsShown PackAsPlanned ScoreIsTrue ConfirmedStays AssistantInOrder

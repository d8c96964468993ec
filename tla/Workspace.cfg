SPECIFICATION FairSpec
CONSTANTS
  Accounts = {a}
  Jobs = {j1, j2}
  Wanted = j1
  Sources <- MCSources
  GuestLimit <- MCGuestLimit
  PlanLimit <- MCPlanLimit
  MaxClicks = 2
  None = None
CHECK_DEADLOCK FALSE
INVARIANTS OneAnalysis ShownTogether SampleNeverFull
PROPERTIES SessionKept BusyEnds

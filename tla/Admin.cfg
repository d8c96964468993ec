SPECIFICATION Spec
CONSTANTS
  Lists = {jobs}
  Lone = {jobs}
  Queue = rewards
  Health = {billing}
  Growth = {ads}
  Tokens = {t1, t2}
  MaxSessions = 1
  MaxLoads = 2
  Accounts = {1, 2}
  Filters = {"all", "two"}
  Matches <- SomeMatches
  MaxReads = 3
  Owners = {o1, o2}
  Jobs = {j1, j2}
  MaxOpens = 2
  Rewards = {r1}
  TTL = 1
  MaxDraws = 3
  Messages = {m1, m2}
  Users = {u1, u2}
  MaxDialogs = 3
  MaxForms = 2
  None = None
  Off = Off
CHECK_DEADLOCK FALSE
SYMMETRY Alike
INVARIANTS  RecordsCurrent WorkScoped ReleaseConfirmed DeskApart

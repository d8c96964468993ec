SPECIFICATION Spec
CONSTANTS
  Orders = {o1, o2, o3}
  Plans = {"plus", "pro"}
  Packs = {}
  Channels = {"manual"}
  Terms = {1, 2}
  Requests = {}
  Horizon = 2
  Wait = 1
  MaxDrops = 0
  Features = {"admin"}
  o1 = o1
  o2 = o2
  o3 = o3
SYMMETRY References
INVARIANTS OneActiveRow PeriodsDisjoint
PROPERTIES EndedForGood
CHECK_DEADLOCK FALSE

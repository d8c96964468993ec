SPECIFICATION Spec
CONSTANTS
  Orders = {o1, o2}
  Plans = {"plus"}
  Packs = {}
  Channels = {"iyzico"}
  Terms = {2}
  Requests = {"r1"}
  Horizon = 1
  Wait = 1
  MaxDrops = 0
  Features = {}
  o1 = o1
  o2 = o2
PROPERTIES NoPaidDayLost
CHECK_DEADLOCK FALSE

SPECIFICATION Spec
CONSTANTS
  Orders = {o1, o2}
  Plans = {"plus"}
  Packs = {}
  Channels = {"iyzico"}
  Terms = {1}
  Requests = {"r1"}
  Horizon = 0
  Wait = 0
  MaxDrops = 1
  Features = {"referrals", "refunds"}
  o1 = o1
  o2 = o2
SYMMETRY References
INVARIANTS ActivatedOnce PaidIsProven CouponOnce
PROPERTIES SettledIsFinal
CHECK_DEADLOCK FALSE

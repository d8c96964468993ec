SPECIFICATION LiveSpec
CONSTANTS
  Orders = {o1}
  Plans = {"plus"}
  Packs = {}
  Channels = {"iyzico", "paytr"}
  Terms = {1}
  Requests = {"r1", "r2"}
  Horizon = 0
  Wait = 0
  MaxDrops = 2
  Features = {"windows"}
  o1 = o1
PROPERTIES PaymentHonoured
CHECK_DEADLOCK FALSE

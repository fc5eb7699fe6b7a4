SPECIFICATION Spec
CONSTANTS
  t1 = t1
  t2 = t2
  NoTab = NoTab
  Orders <- MCOrders
  Amount <- MCAmount
  Rate = 30
  Tabs <- MCTabs
  Asked = {4, 5}
  MaxRequests = 4
  MaxPayouts = 2
INVARIANTS CreditedIffApproved RequestsBoundedByOverlap
PROPERTIES DecisionsAreFinal
SYMMETRY Symmetry
CHECK_DEADLOCK FALSE

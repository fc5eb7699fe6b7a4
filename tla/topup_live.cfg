SPECIFICATION Spec
CONSTANTS
  NoEvent = NoEvent
  w1 = w1
  w2 = w2
  TopUps = {"single", "cart"}
  Asked <- MCAsked
  DirectPay = {}
  Bonus <- MCBonus
  Lines <- LinesWithFree
  Cart <- MCCart
  Orders <- MCOrders
  Price <- MCPrice
  Recurring = {"o1"}
  Discounted = {"o1", "o3"}
  UsageLimit = 1
  Outcomes <- AllCollected
  Events <- WrongAmount
  Configured = {"svix", "token"}
  Workers <- MCWorkers
  StartBalance = 1
  OtherPrice = 1
  MaxFailures = 1
  MaxOther = 0
PROPERTIES CollectedIsCreditedOrFlagged FundedOrdersArePaid
CHECK_DEADLOCK FALSE

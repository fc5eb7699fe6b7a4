SPECIFICATION Spec
CONSTANTS
  NoEvent = NoEvent
  w1 = w1
  w2 = w2
  TopUps = {"cart", "plain"}
  Asked <- MCAsked
  DirectPay = {}
  Bonus <- MCBonus
  Lines <- MCLines
  Cart <- MCCart
  Orders <- MCOrders
  Price <- MCPrice
  Recurring = {"o3"}
  Discounted = {"o1", "o3"}
  UsageLimit = 1
  Outcomes <- MCOutcomes
  Events <- Crossing
  Configured = {"token"}
  Workers <- MCWorkers
  StartBalance = 1
  OtherPrice = 1
  MaxFailures = 1
  MaxOther = 1
INVARIANTS BooksBalance StatusMatchesLedger CreditOnlyWhenCollected FulfilledExactlyOnce
SYMMETRY Symmetry
CHECK_DEADLOCK FALSE

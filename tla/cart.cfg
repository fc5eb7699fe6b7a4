SPECIFICATION Spec
CONSTANTS
  t1 = t1
  t2 = t2
  pa = pa
  pb = pb
  Plans <- MCPlans
  Price <- MCPrice
  Seller <- MCSeller
  QrisReady = {"s"}
  Durations = {0}
  Tabs <- MCTabs
  StartBalance = 2
  MaxLines = 3
  MaxCheckouts = 2
INVARIANTS NoLineLost BooksBalance AllOrNothing CompletedIsDecided
SYMMETRY Symmetry
CHECK_DEADLOCK FALSE

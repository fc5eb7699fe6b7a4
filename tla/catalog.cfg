SPECIFICATION ShopSpec
CONSTANTS
  t1 = t1
  t2 = t2
  b1 = b1
  b2 = b2
  NoCoupon = NoCoupon
  NullStock = NullStock
  Windows <- MCWindows
  Buyers <- MCBuyers
  Sessions <- MCSessions
  MaxCrashes = 1
SYMMETRY Symmetry
INVARIANTS QuoteHonoured OversoldOnlyByOverlap RedeemedWithinLimit RowsBoundedByOverlap
PROPERTY OnboardedStoreIsSellable
CHECK_DEADLOCK FALSE

SPECIFICATION Spec
CONSTANTS
  s1 = s1
  s2 = s2
  free = free
  Free = {free}
  j1 = j1
  j2 = j2
  NoSub = NoSub
  Customers <- MCCustomers
  Procs <- MCProcs
  Price = 1
  Period = 1
  GraceDays = 1
  Advance = 0
  ExtendBy = 1
  MaxTime = 3
  MaxTopUps = 2
  MaxEdits = 1
INVARIANTS ChargedOncePerPeriod EachChargeBuysOnePeriod LicenseFollowsStatus
PROPERTIES  CancelledIsNotRenewed
CHECK_DEADLOCK FALSE

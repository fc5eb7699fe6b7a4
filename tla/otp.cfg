SPECIFICATION OtpSpec
CONSTANTS
  w1 = w1
  w2 = w2
  w3 = w3
  Counters <- MCCounters
  Limit <- MCLimit
  Absent = Absent
  Number = "number"
  Other = "other"
  MAX_ATTEMPTS = 2
  MaxStaff = 1
SYMMETRY Interchangeable
INVARIANTS LimitIsExact LimitsExceededOnlyByOverlap VerifiedNumberIsReached
CHECK_DEADLOCK FALSE

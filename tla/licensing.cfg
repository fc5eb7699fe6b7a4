SPECIFICATION Spec
CONSTANTS
  d1 = d1
  d2 = d2
  w1 = w1
  w2 = w2
  Calls <- AllCalls
  Devices <- TwoDevices
  Procs <- MCProcs
  SeatLimit = 1
  TTL = 0
  Grace = 0
  NoProc = NoProc
  NoDevice = NoDevice
INVARIANTS SeatsNeverExceeded AnswersHeld
SYMMETRY Symmetry

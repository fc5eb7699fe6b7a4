SPECIFICATION Spec
CONSTANTS
  p1 = p1
  p2 = p2
  NoProc = NoProc
  NoJob = NoJob
  Orders <- MCOrders
  Wallets <- MCWallets
  StartBalance <- MCStart
  UsageLimit = 1
  TopUpAmount = 2
  MaxTopUps = 1
  Jobs <- MCJobs
  Procs <- MCProcs
INVARIANTS ChargedExactlyOnce FulfilledExactlyOnce InvoicesAreSequential RedemptionsAreCounted
SYMMETRY Symmetry
CHECK_DEADLOCK FALSE

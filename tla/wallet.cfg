SPECIFICATION Spec
CONSTANTS
  w1 = w1
  w2 = w2
  c1 = c1
  c2 = c2
  none = none
  Wallets <- MCWallets
  Refs <- MCRefs
  Types <- MCTypes
  Requests <- MCRequests
  Callers <- MCCallers
  NoCaller = none
INVARIANTS LedgerReplays AnswerIsOnRecord
PROPERTIES ImplementsLedger CallsReturn

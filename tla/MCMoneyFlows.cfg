SPECIFICATION FairSpec
CONSTANTS
  s1 = s1
  k2 = k2
  k1 = k1
  payTo = payTo
  thief = thief
  Sends = {s1}
  N = 3
  Purses <- Wealth
  Payees = {payTo, thief}
  ServerBuilt <- Transactions
  Offered <- AnyKind
  Rotations = {k1, k2}
CHECK_DEADLOCK FALSE
INVARIANTS
  PlainErrorMeansUnsent
  PurchaseIsTraceable
  KeyOnFileWorks
PROPERTIES
  MovesMoneyOnce
  FlowsEnd

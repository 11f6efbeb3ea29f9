SPECIFICATION FairSpec
CONSTANTS
  c1 = c1
  c2 = c2
  treasury = treasury
  stranger = stranger
  NoLimit = NoLimit
  NoOffer = NoOffer
  Recipients <- TwoPayees
  AllowedRecipients <- Pinned
  Calls <- TwoCalls
  Amounts = {1, 2, 3}
  PaysToken = TRUE
  MaxSpend <- Capped
  MaxTotal <- Budgeted
CHECK_DEADLOCK FALSE
INVARIANTS
  PaymentsWithinLimits
  Reconciled
  SerialBudget
PROPERTIES
  KeepsPromise
  CallsEnd

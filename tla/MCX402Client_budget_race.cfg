SPECIFICATION Spec
CONSTANTS
  c1 = c1
  c2 = c2
  treasury = treasury
  stranger = stranger
  NoLimit = NoLimit
  NoOffer = NoOffer
  Recipients <- TwoPayees
  AllowedRecipients <- Pinned
  Calls <- TwoCalls
  Amounts = {2}
  PaysToken = FALSE
  MaxSpend <- Capped
  MaxTotal <- Budgeted
CHECK_DEADLOCK FALSE
INVARIANT BudgetAcrossAllCalls

SPECIFICATION Spec
CONSTANTS
  c1 = c1
  w1 = w1
  w2 = w2
  w3 = w3
  disk = disk
  memory = memory
  treasury = treasury
  NoLimit = NoLimit
  NoOffer = NoOffer
  Absent = Absent
  Calls = {c1}
  Workers <- ThreeWorkers
  Stores = {disk, memory}
  StoreOf <- StoreOfMC
  Durable = {disk}
  Failing = {disk}
  Prices = {1, 2}
  MaxTotal = 3
  Overlap = TRUE
  Retries = 1
  MaxAge = 1
  MaxClock = 2
CHECK_DEADLOCK FALSE
INVARIANTS
  OnePaymentOneService
  ServedIsPaid
  DenialIsExplained

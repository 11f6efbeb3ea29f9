SPECIFICATION FairSpec
CONSTANTS
  v1 = v1
  v2 = v2
  s1 = s1
  w1 = w1
  w2 = w2
  w3 = w3
  w4 = w4
  disk = disk
  memory = memory
  Absent = Absent
  NoStore = NoStore
  Stores = {disk, memory}
  Durable = {disk}
  Failing = {disk}
  StoreOf <- StoreOfMC
  Verifications <- TwoVerifications
  Sigs = {s1}
  Workers <- FourWorkers
  Amounts = {1, 2}
  Retries = 2
  MaxAge = 1
  MaxClock = 2
CHECK_DEADLOCK FALSE
INVARIANTS
  AcceptedIsPaid
  MarkedIsSpent
PROPERTIES
  UnstoredIsRecent
  VerificationsEnd

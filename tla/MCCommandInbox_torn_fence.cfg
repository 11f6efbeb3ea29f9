SPECIFICATION Spec
CONSTANTS
  p1 = p1
  a2 = a2
  p3 = p3
  a3 = a3
  x = x
  y = y
  Commands <- PatchAndActions
  SeqOf <- SeqOfMC
  TypeOf <- TypeOfMC
  Expiry <- ExpiryMC
  KeysOf <- KeysOfMC
  Authentic <- PatchAndActions
  Allowed <- PatchAndActions
  Keys <- BothKeys
  Provisioned = Provisioned
  Missing = Missing
  NoCommand = NoCommand
  AckCap = 3
  FaultSets <- TornFiles
  MaxClock = 1
  MaxStarts = 2
CHECK_DEADLOCK FALSE
INVARIANTS
  AtMostOnce

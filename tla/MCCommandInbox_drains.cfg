SPECIFICATION FairSpec
CONSTANTS
  p1 = p1
  a2 = a2
  p3 = p3
  a3 = a3
  x = x
  y = y
  Commands <- AllCommands
  SeqOf <- SeqOfMC
  TypeOf <- TypeOfMC
  Expiry <- ExpiryMC
  KeysOf <- KeysOfMC
  Authentic <- AllCommands
  Allowed <- AllCommands
  Keys <- BothKeys
  Provisioned = Provisioned
  Missing = Missing
  NoCommand = NoCommand
  AckCap = 2
  FaultSets <- OneKindOfTrouble
  MaxClock = 1
  MaxStarts = 2
CHECK_DEADLOCK FALSE
INVARIANTS
  ActionsAtMostOnce
  AppliedIsDurable
  AcksAreTrue
PROPERTIES
  ActionsInOrder
  DrainsEnd

SPECIFICATION FairSpec
CONSTANTS
  t1 = t1
  t2 = t2
  Terminals = {t1, t2}
  Pids = {1, 2}
  MaxSignals = 2
  MaxCommands = 5
CHECK_DEADLOCK FALSE
INVARIANTS
  OneTickAtATime
  StoppedIsTheLastWord
  OneAgentProcess
  RecordMatchesCloud
  SeqsIncrease
PROPERTIES
  SignalledExits

SPECIFICATION Spec
CONSTANTS
  t1 = t1
  t2 = t2
  t3 = t3
  mint = mint
  rug = rug
  other = other
  Never = Never
  NoIntent = NoIntent
  Mode = "live"
  Trades <- ThreeTrades
  Sizes = {0, 1, 2, 3}
  Tokens = {mint, rug}
  Denied = {rug}
  Listed = {mint, rug}
  Allow = {"buy"}
  MaxNotional = 2
  MaxDaily = 1
  Cooldown = 2
  DayLength = 3
  MaxClock = 4
SYMMETRY TradeSymmetry
CHECK_DEADLOCK FALSE
INVARIANTS
  SpendIsExact
  CooldownIsTrue

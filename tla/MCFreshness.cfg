SPECIFICATION FreshSpec
CONSTANTS
  r1 = r1
  r2 = r2
  g1 = g1
  g2 = g2
  g3 = g3
  a1 = a1
  a2 = a2
  t1 = t1
  t2 = t2
  MaxTime = 5
  Requests = {r1, r2}
  RequestMaxAge = 1
  MaxSkew = 2
  StoreLimit = 1
  MaxCopies = 2
  NoExpiry = NoExpiry
  Gets = {g1, g2, g3}
  CacheTtl = 1
  LastKnownTtl = 3
  FetchTimeout = 1
  NoPrice = NoPrice
  Attempts = {a1, a2}
  Pieces <- AllPieces
  Kind <- KindOf
  Claim <- ClaimOf
  Accepted <- AllPieces
  Authentic <- AuthenticPieces
  Rule <- DipRule
  Unset = Unset
  Missing = Missing
  Submissions <- Submitted
  Bare = Bare
  NoSubmission = NoSubmission
  EvidenceMaxAge = 0
  Ahead = 1
  MaxLives = 2
  Terminals = {t1, t2}
  MaxKeys = 3
  MaxCash = 2
  MaxCommands = 3
SYMMETRY Symmetry
CHECK_DEADLOCK FALSE
INVARIANTS
  NonceIsSpentOnce
  PriceIsRecent
  SignedIsJustified
  TradesOnceAsTold
  LandsAsAsked
  KeyOnFileTrades
  FundsReachable
PROPERTIES
  NullMeansOutage
  RetiredKeyIsOut
  PauseKeepsCaps

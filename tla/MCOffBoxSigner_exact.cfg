SPECIFICATION SignerSpec
CONSTANTS
  a1 = a1
  a2 = a2
  MaxTime = 2
  Attempts = {a1, a2}
  Pieces <- AllPieces
  Kind <- KindOf
  Claim <- ClaimOf
  Accepted <- AllPieces
  Authentic <- AuthenticPieces
  Rule <- DipRule
  Unset = Unset
  Missing = Missing
  Submissions <- Submitted
  Bare = Bare
  NoSubmission = NoSubmission
  EvidenceMaxAge = 1
  Ahead = 1
  MaxLives = 2
SYMMETRY AttemptSymmetry
CHECK_DEADLOCK FALSE
INVARIANT ExactlyThatTrade

SPECIFICATION Spec
CONSTANTS
  H = 2
  Size = 21
  MaxChanges = 2
  MaxChanged = 9
INVARIANTS ClaimOK HonestProofVerifies TiledAnswersAgree VerifiedInclusionIsTrue VerifiedConsistencyIsTrue
CHECK_DEADLOCK FALSE

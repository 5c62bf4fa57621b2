SPECIFICATION FairSpec
CONSTANTS
  Nobody = Nobody
  asha = asha
  bina = bina
  Candidates = {asha}
  Lookups <- OnePlain
  RequireApproval = FALSE
  VerifyCallerEmail = TRUE
  MaxAttempts = 2
  MaxToolChain = 2
  MaxQuestions = 1
  Faults = {}
CHECK_DEADLOCK FALSE
PROPERTIES NothingWaitsForEver KeepsPromise

SPECIFICATION Spec
CONSTANTS
  Nobody = Nobody
  asha = asha
  bina = bina
  Candidates = {asha, bina}
  Lookups <- Everyone
  RequireApproval = TRUE
  VerifyCallerEmail = TRUE
  MaxAttempts = 1
  MaxToolChain = 2
  MaxQuestions = 1
  Faults = {"database", "model", "recogniser"}
CHECK_DEADLOCK FALSE
INVARIANTS TypeOK ScreeningIsEarned ChargedOnlyWhenEarned FinalStatusStands
PROPERTIES FirstOutcomeWins

SPECIFICATION Spec
CONSTANTS
  c1 = c1
  c2 = c2
  j1 = j1
  j2 = j2
  c3 = c3
  j3 = j3
  w1 = w1
  w2 = w2
  Candidates = {c1, c2}
  Jobs = {j1, j2}
  Workspaces = {w1}
  Runners = {}
  Requests = {q1, q2}
  WorkspaceOf <- MCWorkspaceOf
  AppliedTo <- MCAppliedTo
  Unrouted = {}
  AutoMode = {}
  Paused = {}
  ScreeningLimit <- OneEach
  Hidings = {"archived", "not_application"}
  Judgements = {"hired"}
  Batch = 1
  MaxLists = 2
  MaxActs = 5
  MaxApprovals = 2
  MaxMails = 2
INVARIANTS
  TypeOK
  OnlyApprovedAreInvited
  RowsStandForMails
  QuotaOverdraftIsBounded
PROPERTIES
  ClearanceIsGiven
  JudgementOutlivesScreening
SYMMETRY RequestSymmetry
CHECK_DEADLOCK FALSE

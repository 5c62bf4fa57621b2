SPECIFICATION FairSpec
CONSTANTS
  c1 = c1
  c2 = c2
  j1 = j1
  j2 = j2
  c3 = c3
  j3 = j3
  w1 = w1
  w2 = w2
  Candidates = {c1, c2, c3}
  Jobs = {j1, j2, j3}
  Workspaces = {w1, w2}
  Runners = {r1, r2}
  Requests = {q1}
  WorkspaceOf <- MCWorkspaceOf
  AppliedTo <- MCAppliedTo
  Unrouted = {c2}
  AutoMode = {w1, w2}
  Paused = {}
  ScreeningLimit <- NoneForTheSecond
  Hidings = {"archived"}
  Judgements = {}
  Batch = 2
  MaxLists = 1
  MaxActs = 2
  MaxApprovals = 0
  MaxMails = 0
PROPERTIES
  QueueIsWorkedOff
CHECK_DEADLOCK FALSE

SPECIFICATION Spec
CONSTANTS
  Owner = "owner"
  OpenJobs = {"j1", "j2"}
  TitleWords <- MCTitleWords
  MatchThreshold = 30
  DefaultJob = "j1"
  Mails = {"first", "again", "other", "news", "quoting"}
  Mail <- MCMail
  AutoRoute = TRUE
  Pollers = {poll1, poll2}
  MaxPerPoll = 2
  RollOff = 2
  MaxGenerations = 2
  Forwarded = {"first", "quoting"}
  Calls = {call1, call2}
  MaxConcurrentCalls = 1
  MaxLegs = 3
  Workloads <- MCWorkloads
INVARIANTS
  TypeOK
  NoMailIsLost
PROPERTIES
  DrainedExitWaits
SYMMETRY WorkerSymmetry
CHECK_DEADLOCK FALSE

SPECIFICATION FairSpec
CONSTANTS
  Plans = {1}
  Mandates = {m1}
  Activations = {}
  Month = 5
  DaysLeft = 1
  RenewAhead = 1
  RetryDays = 1
  LastDay = 3
  MaxInvoices = 2
  MaxTries = 2
  Starts = {"active"}
  Faults = {"lost_answer"}
PROPERTIES
  KeepsPromise
  FailuresResolve
CHECK_DEADLOCK FALSE

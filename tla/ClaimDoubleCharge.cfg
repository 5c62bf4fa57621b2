SPECIFICATION Spec
CONSTANTS
  Plans = {1}
  Mandates = {m1}
  Activations = {}
  Month = 5
  DaysLeft = 1
  RenewAhead = 1
  RetryDays = 1
  LastDay = 4
  MaxInvoices = 1
  MaxTries = 2
  Starts = {"active"}
  Faults = {"lost_answer"}
INVARIANT RetryCannotDoubleCharge
CHECK_DEADLOCK FALSE

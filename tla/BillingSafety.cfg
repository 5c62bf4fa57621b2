SPECIFICATION Spec
CONSTANTS
  Plans = {1, 2}
  Mandates = {m1, a1}
  Activations = {a1}
  Month = 5
  DaysLeft = 1
  RenewAhead = 1
  RetryDays = 1
  LastDay = 3
  MaxInvoices = 2
  MaxTries = 2
  Starts = {"active", "trial", "pending_payment"}
  Faults = {"crash", "gateway", "late_payment"}
INVARIANTS
  TypeOK
  OnePeriodOneInvoice
  LedgerAgrees
PROPERTIES
  PaidStands
CHECK_DEADLOCK FALSE

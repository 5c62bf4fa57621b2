SPECIFICATION Spec
CONSTANTS
  Requests = {q1, q2}
  Admins = {"asha", "ben", "eve"}
  FirstRole <- MCRole
  Invited = {"eve"}
  FirstSessions <- MCSessions
  Workspaces = {"acme", "tiny", "fresh"}
  FirstStatus <- MCStatus
  People = {"pia", "raj", "sam", "kit"}
  FirstMembers <- MCMembers
  FirstLogins <- MCLogins
  MemberLimit = 3
  Coupon = {"off", "minutes", "new"}
  Offer <- MCOffer
  Grants = {"minutes"}
  Caps = {1, 2, 3}
  Prices = {1, 2}
  Bodies = {1, 2}
  Entries = {"post", "faq"}
  Texts = {1, 2}
  OnSite <- MCOnSite
  Workloads <- MCWorkloads
INVARIANTS
  TypeOK
  OutStaysOut
  CapHolds
  LedgerAccounts
  SiteShowsThePublished
PROPERTIES
  AnOwnerRemains
  ComesBackOrIsErased
  PublishedStands
SYMMETRY PanelSymmetry
CHECK_DEADLOCK FALSE

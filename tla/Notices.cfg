SPECIFICATION Spec
CONSTANTS
  Invoices = {i1, i2}
  Summaries = {s1, s2}
  Alerts = {a1}
  Letters = {l1}
  Sessions = {c1, c2}
  Hooks = {h1, h2}
  Scenes <- MCScenes
INVARIANTS
  TypeOK
  ToldOnce
PROPERTIES
  EverybodyIsTried
  StatusMovesOn
  StopIsKept
CHECK_DEADLOCK FALSE

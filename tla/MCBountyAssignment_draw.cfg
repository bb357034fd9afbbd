\* Two people, two draws at once (the sweep's and a maintainer's), releases by deadline and by decision, one crash.
CONSTANTS
  u1 = u1  u2 = u2
  x1 = x1  x2 = x2
  pr1 = pr1
  d1 = d1  c1 = c1
  User = {u1, u2}
  Application = {x1, x2}
  Applicant <- Once
  Pull = {}
  Author <- NoOne
  Delivery = {}
  ClosedDelivery = {}
  Reopens = FALSE
  NewcomersOnly = TRUE
  Drawer = {"sweep", "maintainer"}
  Decides = TRUE
  MaxExtensions = 1
  MaxAssignments = 2
  MaxCrashes = 1
SPECIFICATION Spec
INVARIANTS OneHolder
CHECK_DEADLOCK FALSE

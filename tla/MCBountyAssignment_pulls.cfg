\* A pull request opened, closed, reopened and merged while its author holds the bounty or does not; its webhooks late, lost or overtaking each other; one crash.
CONSTANTS
  u1 = u1  u2 = u2
  x1 = x1  x2 = x2
  pr1 = pr1
  d1 = d1  c1 = c1
  User = {u1, u2}
  Application = {x1, x2}
  Applicant <- Once
  Pull = {pr1}
  Author <- Own
  Delivery = {d1, c1}
  ClosedDelivery = {c1}
  Reopens = TRUE
  NewcomersOnly = FALSE
  Drawer = {"sweep"}
  Decides = FALSE
  MaxExtensions = 0
  MaxAssignments = 2
  MaxCrashes = 1
SPECIFICATION FairSpec
PROPERTIES NotStranded WinnerIsTold PullIsRecorded
INVARIANTS PrBelongsToHolder PoolIsComplete
CHECK_DEADLOCK FALSE

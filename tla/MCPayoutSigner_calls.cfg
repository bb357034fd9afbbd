\* Three calls on one ledger, both routes, the escrow reassigned and refunded, a day boundary.
CONSTANTS
  c1 = c1  c2 = c2  c3 = c3
  a1 = a1  a2 = a2  a3 = a3
  b1 = b1  b2 = b2
  p1 = p1  p2 = p2  p3 = p3
  pr1 = pr1  pr2 = pr2
  r1 = r1  r2 = r2
  Call = {c1, c2, c3}
  Approval = {a1, a2, a3}
  Genuine = {a1, a2, a3}
  Payout = {p1, p2, p3}
  Bounty = {b1, b2}
  Pull = {pr1, pr2}
  Recipient = {r1, r2}
  Escrowed = {b2}
  Currency = {"USDC"}
  Terms <- SomeTerms
  PerBountyMax <- MCPerBountyMax
  DailyMax <- MCDailyMax
  EscrowOnMainnet = TRUE
  MaxDay = 2
SYMMETRY Calls
SPECIFICATION Spec
INVARIANTS Accounted DailyCap OkMeansPaid RefusalMeansUnsent
PROPERTIES PaysOnce
CHECK_DEADLOCK FALSE

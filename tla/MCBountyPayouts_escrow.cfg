\* A maintainer-funded bounty: two merges, two approve handlers at once,
\* the escrow reassigned or refunded meanwhile, crashes of either process.
CONSTANTS
  c1 = c1  c2 = c2  d1 = d1  d2 = d2
  a1 = a1  a2 = a2
  b1 = b1
  p1 = p1  p2 = p2
  pr1 = pr1  pr2 = pr2
  r1 = r1  r2 = r2
  Call = {c1, c2}
  Delivery = {d1, d2}
  Approval = {a1, a2}
  Genuine = {a1, a2}
  Payout = {p1, p2}
  Bounty = {b1}
  Pull = {pr1, pr2}
  Recipient = {r1, r2}
  Escrowed = {b1}
  Currency = {"USDC"}
  Terms <- EscrowTerms
  PayoutTerms <- EscrowRows
  PerBountyMax <- MCPerBountyMax
  DailyMax <- MCDailyMax
  EscrowOnMainnet = FALSE
  MaxDay = 2
  AgentCrashes = 1
SPECIFICATION FairSystemSpec
INVARIANTS ShownIsTrue PaidIsKnown
PROPERTIES ApprovedIsResolved
CHECK_DEADLOCK FALSE

\* One funded bounty from the funding to its end.
CONSTANTS
  b1 = b1  fu = fu  at = at  u1 = u1  u2 = u2
  NoEscrow = NoEscrow
  Bounty = {b1}
  B = b1
  Key = {fu, at, u1}
  Funder = fu
  Attestor = at
  Applicant = {u1}
  Terms = {}
  Wealth <- RichFunder
  Gift = {1}
  BpsUnit = 1
  MaxBps = 0
  MaxTime = 1
  Offer <- Various
  MaxPrepares = 2
  MaxAssignments = 2
  MaxProposals = 0
  MaxFailures = 0
  MaxCrashes = 1
SPECIFICATION FundedSpec
INVARIANTS NeverMistaken OnlyWhatChainSaid PaidAsAdvertised
CHECK_DEADLOCK FALSE

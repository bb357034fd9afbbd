\* Draw mode under the fairness of the scheduler: agreements and closings are followed.
CONSTANTS
  b1 = b1  fu = fu  at = at  u1 = u1  u2 = u2
  NoEscrow = NoEscrow
  Bounty = {b1}
  B = b1
  Key = {fu, at, u1}
  Funder = fu
  Attestor = at
  Applicant = {u1}
  Terms = {}
  Wealth <- RichFunder
  Gift = {}
  BpsUnit = 1
  MaxBps = 0
  MaxTime = 1
  Offer <- OnlyDrawn
  MaxPrepares = 1
  MaxAssignments = 1
  MaxProposals = 1
  MaxFailures = 1
  MaxCrashes = 0
SPECIFICATION FairFundedSpec
CHECK_DEADLOCK FALSE
PROPERTIES AgreementIsKept ClosedIsNoticed

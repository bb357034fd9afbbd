CONSTANTS
  a1 = a1  x1 = x1
  NoWallet = NoWallet
  Account = {a1}
  Wallet = {x1}
  Applicant = {a1}
  Winner = {a1}
  Leaver = {a1}
  MaxAttempts = 1
  Batch = 1
SPECIFICATION FairSpec
INVARIANTS PaymentIsReported ForgottenIsKnown
PROPERTIES NoneIsBlocked ErasureFinishes
CHECK_DEADLOCK FALSE

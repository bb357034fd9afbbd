CONSTANTS
  w1 = w1  w2 = w2  x1 = x1  x2 = x2  s1 = s1  s2 = s2  s3 = s3
  a1 = a1  a2 = a2  c1 = c1  c2 = c2
  NoStatement = NoStatement  NoWallet = NoWallet  NoApproval = NoApproval  NoTerms = NoTerms
  Winner = {w1}
  Wallet = {x1}
  Statement = {s1, s2, s3}
  Approval = {a1, a2}
  Call = {c1}
  Lines <- OneWinner
  Supersedes <- Chained
  EventMax = 3
  MaxCrashes = 1
SPECIFICATION FairSpec
INVARIANTS RecordsAreTrue
PROPERTIES InFlightIsSettled
CHECK_DEADLOCK FALSE

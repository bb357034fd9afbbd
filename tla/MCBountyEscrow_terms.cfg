\* One bounty, every key in every role, two instants after the first.
CONSTANTS
  b1 = b1
  NoEscrow = NoEscrow
  fu = fu  at = at  co = co
  Bounty = {b1}
  Key = {fu, at, co}
  Terms <- SomeTerms
  Wealth <- SomeWealth
  Gift = {1}
  BpsUnit = 10
  MaxBps = 5
  MaxTime = 2
SPECIFICATION FairSpec
INVARIANTS FeeIsQuoted
PROPERTIES FundsReturn KeepsPromise
CHECK_DEADLOCK FALSE

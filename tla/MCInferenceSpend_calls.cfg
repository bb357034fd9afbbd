\* Two calls of the agent and one of another client, two quotes, one crash of either process.
CONSTANTS
  c1 = c1  c2 = c2  s1 = s1
  q1 = q1  q2 = q2
  Call = {c1, c2, s1}
  Stray = {s1}
  Quote = {q1, q2}
  Amount <- Amounts
  Phase = {"LIVE", "P1"}
  PhaseOf <- Phases
  AgentFee = 1
  SignerFee = 2
  ChainFee = {0, 2}
  MaxPerCall = 3
  AgentCeiling = 6
  Allocation <- Allocations
  SignerCeiling = 5
  MaxCrashes = 1
SPECIFICATION FairSpec
INVARIANTS OnePaymentPerQuote NothingUncounted
PROPERTIES ReservationsResolved AgentHoldsFirst SignerHoldsFirst
CHECK_DEADLOCK FALSE

SPECIFICATION Spec
CONSTANTS
  c1 = c1  c2 = c2  c3 = c3  c4 = c4  k1 = k1  a1 = a1  a2 = a2
  t1 = t1  t2 = t2  t3 = t3  x1 = x1  hash1 = hash1  hash2 = hash2
  NoCall = NoCall  NoKey = NoKey  NoExt = NoExt  NoCap = NoCap  NoLimit = NoLimit
  Calls = {c1, c2, c3}
  Keys = {}
  KeyOf <- Unkeyed
  BodyOf <- AnyBody
  Agents = {a1}
  AgentOf <- OneAgent
  PriceOf <- MixedPriceOf
  RailsOf <- MixedRails
  Fallback = TRUE
  SlowCalls = {c2, c3}
  TopUps = {}
  AmountOf <- OneDepositOf
  ExtOf <- NoExtOf
  Plans <- SmallPlans
  MonthlyLimit = NoLimit
  DailyLimitOf <- NoDailyLimit
  MonthLen = 1
  MaxNow = 1
  MaxSubs = 2
SYMMETRY PairSymmetry
INVARIANTS
  AllowanceMatchesLedger
\* Every call is answered once: the instance runs out of calls.
CHECK_DEADLOCK FALSE

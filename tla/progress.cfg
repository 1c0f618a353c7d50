SPECIFICATION ProgressSpec
CONSTANTS
  Payments = {p1}
  Handlers = {d1, d2}
  Price = 2
  Opening = 2
  MaxSpent = 2
  Intents = {i1, i2}
  Transactions = {x1}
  Transfer <- SmallTransfer
  Hashes = {lower}
  TxOf <- OneTransaction
  Amounts = {1, 2}
  Confirms = {r1, r2}
  NoHash = NoHash
  Partners = {m1, m2}
  Passes = {f1, f2}
  Interval = 1
  MaxAttempts = 2
  Mortal = {f2}
  LastHour = 1
INVARIANTS
  PaidIsAccountedFor RefundedIsReversed BalanceIsExplained
  CreditFitsIntent ToldIsRecorded
PROPERTIES
  CreditsAreEarned PaidIsNoticed TransfersAreCreditedOnce FeedsAreRun
\* Checkouts and intents come to an end.
CHECK_DEADLOCK FALSE

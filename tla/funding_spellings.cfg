SPECIFICATION FundingSpec
CONSTANTS
  Payments = {p1}
  Handlers = {d1}
  Price = 2
  Opening = 0
  MaxSpent = 0
  Intents = {i1}
  Transactions = {x1}
  Transfer <- SmallTransfer
  Hashes = {lower, upper}
  TxOf <- OneTransaction
  Amounts = {2}
  Confirms = {r1, r2}
  NoHash = NoHash
INVARIANTS
  TransferFundsOnce
\* Every checkout and intent comes to an end.
CHECK_DEADLOCK FALSE

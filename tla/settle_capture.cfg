SPECIFICATION SettleSpec
CONSTANTS
  c1 = c1  c2 = c2  o1 = o1  k1 = k1  k2 = k2  hash1 = hash1
  payer1 = payer1  server1 = server1  sweep1 = sweep1
  NoOpen = NoOpen  NoCall = NoCall
  Opens = {o1}
  Calls = {c1}
  Keys = {k1}
  KeyOf <- OwnKeyOf
  BodyOf <- OwnBodyOf
  PriceOf <- UnitPriceOf
  Cheapest = 1
  Budget = 1
  Deposits = {2}
  LostAcks = {c1}
  Payers = {payer1}
  Servers = {server1}
  Sweeps = {sweep1}
  Slow = {payer1, sweep1}
  LostRows = FALSE
INVARIANTS
  NeverOverCaptured
  SettledIsCaptured
\* Every request is answered once: the instance runs out of requests.
CHECK_DEADLOCK FALSE

SPECIFICATION Spec
CONSTANTS
  c1 = c1  c2 = c2  c3 = c3  c4 = c4  o1 = o1  o2 = o2  k1 = k1  k2 = k2
  hash1 = hash1  hash2 = hash2  NoOpen = NoOpen  NoCall = NoCall
  Opens = {o1}
  Calls = {c1, c2}
  Keys = {k1}
  KeyOf <- SharedKeyOf
  BodyOf <- SharedBodyOf
  PriceOf <- SharedPriceOf
  Cheapest = 1
  Budget = 4
  Deposits = {4}
  LostAcks = {c1, c2}
INVARIANT KeyMeteredAtMostOnce
\* Every request is answered once: the instance runs out of requests.
CHECK_DEADLOCK FALSE

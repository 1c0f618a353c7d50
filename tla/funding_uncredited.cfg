SPECIFICATION StripeSpec
CONSTANTS
  Payments = {p1}
  Handlers = {d1}
  Price = 1
  Opening = 0
  MaxSpent = 0
INVARIANT ConfirmedIsCredited

SPECIFICATION OperationsSpec
CONSTANTS
  Credentials = {token, charge}
  Lightning = {token}
  Requests = {r1, r2, r3}
  Authorizations = {a1, a2}
  Calls = {k1, k2}
  Passes = {q1, q2}
  Spellings = {"lower"}
  Jobs = {j1}
  Crons = {n1, n2}
  Cadence = 2
  LastTime = 3
  Keys = {"s1", "s2"}
  Inputs <- SmallInputs
  Imports = {"i1", "i2"}
  Operators = {"o1", "o2"}
  MaxRecords <- SmallImports
INVARIANTS
  OneCallPerClaim ResultsAreSettled FailuresKeepThePayment
  RevenueIsSettledOnce ReportedIsOnRecord
  RunsAgreeWithCharges OperatorsDecide RegistrationsAgree
PROPERTIES
  SpentStaysSpent RunsArePaced
\* Requests, calls, passes and imports come to an end.
CHECK_DEADLOCK FALSE

--------------------------- MODULE PrepaidWallet ---------------------------
(***************************************************************************)
(* What the billing ledger promises a customer (docs/billing.md,           *)
(* "Accounting model" and "Idempotency"), without rows, statuses of        *)
(* idempotency keys, sweeps or crashes: a purchase holds its cost, and     *)
(* then either keeps it for good or gives it back, once; at most one       *)
(* purchase of a request is ever held or paid; a purchase moves exactly    *)
(* its cost and never overdraws the prepaid funds.  Deposits and           *)
(* corrections are free to set the funds to anything.                      *)
(***************************************************************************)
EXTENDS Integers

CONSTANTS
  Purchases,  \* attempts to buy one result
  RequestOf,  \* the request each attempt belongs to ...
  NoRequest,  \* ... or none: the attempt stands alone
  CostOf      \* what each attempt costs

VARIABLES
  funds,      \* prepaid money available
  purchase,   \* "none", "held", "paid" or "returned"
  pocket      \* where the cost was taken: "none", "prepaid" or "allowance"

wvars == <<funds, purchase, pocket>>

WInit ==
  /\ funds = 0
  /\ purchase = [p \in Purchases |-> "none"]
  /\ pocket = [p \in Purchases |-> "none"]

Rivals(p) ==
  {q \in Purchases \ {p} : RequestOf[q] = RequestOf[p] /\ RequestOf[p] # NoRequest}

\* Money arrives, or an operator corrects the balance.
Deposit ==
  /\ funds' \in Nat
  /\ UNCHANGED <<purchase, pocket>>

Hold(p, from) ==
  /\ purchase[p] = "none"
  /\ \A q \in Rivals(p) : purchase[q] \notin {"held", "paid"}
  /\ from = "prepaid" => funds >= CostOf[p]
  /\ funds' = IF from = "prepaid" THEN funds - CostOf[p] ELSE funds
  /\ purchase' = [purchase EXCEPT ![p] = "held"]
  /\ pocket' = [pocket EXCEPT ![p] = from]

Pay(p) ==
  /\ purchase[p] = "held"
  /\ purchase' = [purchase EXCEPT ![p] = "paid"]
  /\ UNCHANGED <<funds, pocket>>

Return(p) ==
  /\ purchase[p] = "held"
  /\ purchase' = [purchase EXCEPT ![p] = "returned"]
  /\ funds' = IF pocket[p] = "prepaid" THEN funds + CostOf[p] ELSE funds
  /\ UNCHANGED pocket

WNext ==
  \/ Deposit
  \/ \E p \in Purchases :
       Pay(p) \/ Return(p) \/ \E from \in {"prepaid", "allowance"} : Hold(p, from)

WSpec == WInit /\ [][WNext]_wvars
=============================================================================

--------------------------- MODULE PaymentCredit ---------------------------
(***************************************************************************)
(* What the external funding layer promises (docs/external-payments.md):   *)
(* a payment is credited only after its provider has it, once, and for     *)
(* exactly what was received.  StripeTopup and UsdcTopup implement it.     *)
(***************************************************************************)
EXTENDS Integers

CONSTANTS
  Deposits,  \* everything a customer could pay
  AmountOf   \* what each is worth

VARIABLES
  received,  \* the deposits the provider, or the chain, holds
  credited   \* what the ledger has credited for each

Init == received = {} /\ credited = [d \in Deposits |-> 0]

Receive(d) ==
  /\ received' = received \cup {d}
  /\ UNCHANGED credited

Credit(d) ==
  /\ d \in received /\ credited[d] = 0
  /\ credited' = [credited EXCEPT ![d] = AmountOf[d]]
  /\ UNCHANGED received

Next == \E d \in Deposits : Receive(d) \/ Credit(d)

Spec == Init /\ [][Next]_<<received, credited>>
=============================================================================

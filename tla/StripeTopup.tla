---------------------------- MODULE StripeTopup ----------------------------
(***************************************************************************)
(* Stripe top-ups (src/src/billing/external/service.ts): checkout rows,    *)
(* the webhook that confirms, fails, reviews and refunds them, and the     *)
(* credit each makes on the billing ledger.                                *)
(*                                                                         *)
(* Stripe raises events; a raised event is delivered any number of times,  *)
(* in any order, until and even after it was acknowledged.  Each delivery  *)
(* runs a handler that reads the row, writes it and calls the ledger, with *)
(* an await between any two of these; a call may fail or the process die   *)
(* between two of them, which leaves the event unacknowledged.             *)
(***************************************************************************)
EXTENDS Integers, FiniteSetsExt

CONSTANTS
  Payments,  \* checkouts of one account
  Handlers,  \* deliveries handled at once
  Price,     \* what each checkout is for, in units a refund can split
  Opening,   \* balance from other credits
  MaxSpent   \* bound: what capability calls may consume

ASSUME PriceAssumption == Price \in Nat \ {0} /\ {Opening, MaxSpent} \subseteq Nat

VARIABLES
  checkout,  \* Stripe: state of each Checkout Session
  refunded,  \* Stripe: amount_refunded of each charge
  raised,    \* Stripe: events
  acked,     \* Stripe: events answered with 200
  row,       \* rafid_external_payments: status, and is the intent id recorded?
  credit,    \* billing_ledger: credit_purchase of each payment
  reversed,  \* billing_ledger: refund events with an adjustment
  balance,   \* credit_balance_micros of the account
  spent,     \* what calls have taken
  pc, at,    \* where each handler is, and its event
  available  \* the balance a refund handler has read

stripe == <<checkout, refunded, raised>>
ledger == <<credit, reversed, balance, spent>>
handler == <<pc, at, available>>
stripeVars == <<stripe, acked, row, ledger, handler>>

Ev(type, p, n) == [type |-> type, of |-> p, amount |-> n]
NoEvent == [type |-> "none", of |-> "none", amount |-> 0]

StripeInit ==
  /\ checkout = [p \in Payments |-> "none"]
  /\ refunded = [p \in Payments |-> 0]
  /\ raised = {} /\ acked = {}
  /\ row = [p \in Payments |-> [status |-> "none", intent |-> FALSE]]
  /\ credit = [p \in Payments |-> 0]
  /\ reversed = {} /\ balance = Opening /\ spent = 0
  /\ pc = [h \in Handlers |-> "idle"]
  /\ at = [h \in Handlers |-> NoEvent]
  /\ available = [h \in Handlers |-> 0]

---------------------------------------------------------------------------
(* The customer and Stripe.                                                *)

\* createStripeCheckout: the session exists before its row; the insert may
\* never come, and then the customer never sees the URL.
OpenCheckout(p) ==
  /\ checkout[p] = "none"
  /\ checkout' = [checkout EXCEPT ![p] = "open"]
  /\ UNCHANGED <<refunded, raised, acked, row, ledger, handler>>

RecordCheckout(p) ==
  /\ checkout[p] # "none" /\ row[p].status = "none"
  /\ row' = [row EXCEPT ![p].status = "created"]
  /\ UNCHANGED <<stripe, acked, ledger, handler>>

\* A card is declined; the session stays open.
AttemptFails(p) ==
  /\ checkout[p] = "open" /\ row[p].status # "none"
  /\ raised' = raised \cup {Ev("payment_failed", p, 0)}
  /\ UNCHANGED <<checkout, refunded, acked, row, ledger, handler>>

\* The session completes; a delayed method completes it unpaid.
Complete(p, paid) ==
  /\ checkout[p] = "open" /\ row[p].status # "none"
  /\ checkout' = [checkout EXCEPT ![p] = IF paid THEN "paid" ELSE "unpaid"]
  /\ raised' = raised \cup {Ev("completed", p, IF paid THEN Price ELSE 0)}
  /\ UNCHANGED <<refunded, acked, row, ledger, handler>>

Expire(p) ==
  /\ checkout[p] = "open"
  /\ checkout' = [checkout EXCEPT ![p] = "expired"]
  /\ raised' = raised \cup {Ev("expired", p, 0)}
  /\ UNCHANGED <<refunded, acked, row, ledger, handler>>

\* charge.refunded carries what was refunded so far.
Refund(p, n) ==
  /\ checkout[p] = "paid" /\ n > refunded[p]
  /\ refunded' = [refunded EXCEPT ![p] = n]
  /\ raised' = raised \cup {Ev("refunded", p, n)}
  /\ UNCHANGED <<checkout, acked, row, ledger, handler>>

\* A paid call takes from the balance (BillingLedger models how).
Spend ==
  /\ balance > 0 /\ spent < MaxSpent
  /\ balance' = balance - 1 /\ spent' = spent + 1
  /\ UNCHANGED <<stripe, acked, row, credit, reversed, handler>>

---------------------------------------------------------------------------
(* The webhook.                                                            *)

Idle(h) ==
  /\ pc' = [pc EXCEPT ![h] = "idle"] /\ at' = [at EXCEPT ![h] = NoEvent]
  /\ available' = [available EXCEPT ![h] = 0]

Ack(h) == acked' = acked \cup {at[h]} /\ Idle(h)

To(h, s) == pc' = [pc EXCEPT ![h] = s] /\ UNCHANGED <<at, available>>

\* What the row read makes the handler return without a write: a refund
\* looks for a confirmed payment by its intent id, the others for one that
\* is still created.
Ignored(e) ==
  IF e.type = "refunded" THEN row[e.of].status # "confirmed" \/ ~row[e.of].intent
  ELSE row[e.of].status # "created"

\* Mutant: the webhook answers before it works.
DeliverAckFirst(h, e) ==
  /\ pc[h] = "idle" /\ e \in raised
  /\ acked' = acked \cup {e}
  /\ IF Ignored(e) THEN UNCHANGED handler
     ELSE /\ pc' = [pc EXCEPT ![h] = "read"] /\ at' = [at EXCEPT ![h] = e]
          /\ UNCHANGED available
  /\ UNCHANGED <<stripe, row, ledger>>

Deliver(h, e) ==
  /\ pc[h] = "idle" /\ e \in raised
  /\ IF Ignored(e) THEN acked' = acked \cup {e} /\ UNCHANGED handler
     ELSE /\ pc' = [pc EXCEPT ![h] = "read"] /\ at' = [at EXCEPT ![h] = e]
          /\ UNCHANGED <<acked, available>>
  /\ UNCHANGED <<stripe, row, ledger>>

\* updateExternalPayment writes by id alone; the metadata comes from the row
\* the handler read, which for a created row holds no intent id.
Write(p, s, i) == row' = [row EXCEPT ![p] = [status |-> s, intent |-> i]]

Confirm(h) ==
  /\ pc[h] = "read" /\ at[h].type = "completed" /\ at[h].amount > 0
  /\ Write(at[h].of, "confirmed", TRUE)
  /\ To(h, "confirmed")
  /\ UNCHANGED <<stripe, acked, ledger>>

\* Mutant: the credit does not look for an earlier one.
FundAgain(h) ==
  /\ pc[h] = "confirmed"
  /\ LET e == at[h] IN
       /\ credit' = [credit EXCEPT ![e.of] = @ + e.amount]
       /\ balance' = balance + e.amount
  /\ Ack(h)
  /\ UNCHANGED <<stripe, row, reversed, spent>>

\* fundExternalCredit: applyCredit finds a credit of the same payment.
Fund(h) ==
  /\ pc[h] = "confirmed"
  /\ LET e == at[h] IN
       IF credit[e.of] # 0 THEN UNCHANGED <<credit, balance>>
       ELSE /\ credit' = [credit EXCEPT ![e.of] = e.amount]
            /\ balance' = balance + e.amount
  /\ Ack(h)
  /\ UNCHANGED <<stripe, row, reversed, spent>>

\* Completed, but not paid.
Review(h) ==
  /\ pc[h] = "read" /\ at[h].type = "completed" /\ at[h].amount = 0
  /\ Write(at[h].of, "requires_review", FALSE)
  /\ Ack(h)
  /\ UNCHANGED <<stripe, ledger>>

Fail(h) ==
  /\ pc[h] = "read" /\ at[h].type \in {"expired", "payment_failed"}
  /\ Write(at[h].of, "failed", FALSE)
  /\ Ack(h)
  /\ UNCHANGED <<stripe, ledger>>

ReadBalance(h) ==
  /\ pc[h] = "read" /\ at[h].type = "refunded"
  /\ pc' = [pc EXCEPT ![h] = "balance"]
  /\ available' = [available EXCEPT ![h] = balance]
  /\ UNCHANGED <<stripe, acked, row, ledger, at>>

\* Mutant: an adjustment that the ledger rejects is passed over.
ReverseOrSkip(h) ==
  /\ pc[h] = "balance" /\ available[h] >= at[h].amount
  /\ IF at[h] \in reversed \/ balance < at[h].amount THEN UNCHANGED <<reversed, balance>>
     ELSE reversed' = reversed \cup {at[h]} /\ balance' = balance - at[h].amount
  /\ To(h, "reversed")
  /\ UNCHANGED <<stripe, acked, row, credit, spent>>

\* Mutant: the adjustment has no external id.
ReverseAgain(h) ==
  /\ pc[h] = "balance" /\ available[h] >= at[h].amount /\ balance >= at[h].amount
  /\ reversed' = reversed \cup {at[h]} /\ balance' = balance - at[h].amount
  /\ To(h, "reversed")
  /\ UNCHANGED <<stripe, acked, row, credit, spent>>

\* adjustCredit: idempotent per event, and rejected if the balance has gone
\* below the amount since it was read (the event is then delivered again).
Reverse(h) ==
  /\ pc[h] = "balance" /\ available[h] >= at[h].amount
  /\ IF at[h] \in reversed THEN UNCHANGED <<reversed, balance>>
     ELSE /\ balance >= at[h].amount
          /\ reversed' = reversed \cup {at[h]} /\ balance' = balance - at[h].amount
  /\ To(h, "reversed")
  /\ UNCHANGED <<stripe, acked, row, credit, spent>>

MarkRefunded(h) ==
  /\ pc[h] = "reversed"
  /\ Write(at[h].of, "refunded", TRUE)
  /\ Ack(h)
  /\ UNCHANGED <<stripe, ledger>>

FlagRefund(h) ==
  /\ pc[h] = "balance" /\ available[h] < at[h].amount
  /\ Write(at[h].of, "requires_review", TRUE)
  /\ Ack(h)
  /\ UNCHANGED <<stripe, ledger>>

\* A call fails, the answer is lost or the process dies.
Crash(h) ==
  /\ pc[h] # "idle"
  /\ Idle(h)
  /\ UNCHANGED <<stripe, acked, row, ledger>>

---------------------------------------------------------------------------
StripeStep(p) ==
  \/ OpenCheckout(p) \/ RecordCheckout(p) \/ AttemptFails(p) \/ Expire(p)
  \/ \E paid \in BOOLEAN : Complete(p, paid)
  \/ \E n \in 1..Price : Refund(p, n)

Work(h) ==
  \/ Confirm(h) \/ Fund(h) \/ Review(h) \/ Fail(h)
  \/ ReadBalance(h) \/ Reverse(h) \/ MarkRefunded(h) \/ FlagRefund(h)

StripeNext ==
  \/ \E p \in Payments : StripeStep(p)
  \/ Spend
  \/ \E h \in Handlers :
       \/ \E e \in raised : Deliver(h, e)
       \/ Work(h) \/ Crash(h)

StripeSpec == StripeInit /\ [][StripeNext]_stripeVars

Events ==
  {Ev("completed", p, n) : p \in Payments, n \in {0, Price}}
    \cup {Ev(t, p, 0) : t \in {"expired", "payment_failed"}, p \in Payments}
    \cup {Ev("refunded", p, n) : p \in Payments, n \in 1..Price}

\* A handler goes on or fails; Stripe delivers the completed event of a paid
\* session again until it is acknowledged; its handling does not fail for ever.
StripeFairness ==
  /\ \A h \in Handlers : WF_stripeVars(Work(h) \/ Crash(h))
  /\ \A p \in Payments :
       /\ SF_stripeVars(\E h \in Handlers :
            LET e == Ev("completed", p, Price) IN e \in raised \ acked /\ Deliver(h, e))
       /\ SF_stripeVars(\E h \in Handlers : at[h].of = p /\ Confirm(h))

---------------------------------------------------------------------------
(* Properties.                                                             *)

StripeTypeOK ==
  /\ checkout \in [Payments -> {"none", "open", "paid", "unpaid", "expired"}]
  /\ refunded \in [Payments -> 0..Price]
  /\ raised \subseteq Events /\ acked \subseteq raised /\ reversed \subseteq raised
  /\ row \in [Payments -> [status : {"none", "created", "confirmed", "failed",
                                     "refunded", "requires_review"},
                           intent : BOOLEAN]]
  /\ credit \in [Payments -> {0, Price}]
  /\ balance \in Nat /\ spent \in 0..MaxSpent
  /\ pc \in [Handlers -> {"idle", "read", "confirmed", "balance", "reversed"}]
  /\ at \in [Handlers -> Events \cup {NoEvent}]
  /\ available \in [Handlers -> Nat]

Promise == INSTANCE PaymentCredit WITH
  Deposits <- Payments,
  AmountOf <- [p \in Payments |-> Price],
  received <- {p \in Payments : checkout[p] = "paid"},
  credited <- credit

(* engine.ts, fundExternalCredit: the same external payment can fund a
   balance at most once, and only what Stripe was paid, however often and in
   whatever order its events are delivered and wherever a handler dies. *)
CreditsAreEarned == Promise!Spec

Attempted(p) == Ev("payment_failed", p, 0) \in raised

(* Once the completed event of a paid session is acknowledged, Stripe never
   sends it again: the credit was made, or the row is one that
   reconciliation.ts reports (confirmed without a credit) or an operator
   reviews or has refunded.  Only a declined attempt on the same session may
   have failed the row before. *)
PaidIsAccountedFor ==
  \A p \in Payments :
    Ev("completed", p, Price) \in acked /\ ~Attempted(p)
      => credit[p] = Price \/ row[p].status \in {"confirmed", "refunded", "requires_review"}

(* docs/external-payments.md, Refunds: the row says refunded only if the
   ledger holds a reversal of that payment. *)
RefundedIsReversed ==
  \A p \in Payments :
    row[p].status = "refunded" => \E e \in reversed : e.of = p

(* The balance is what was credited, less what was spent and one reversal
   per refund event: a refund delivered again after a crash between the
   adjustment and the row reverses nothing twice. *)
BalanceIsExplained ==
  balance = Opening + MapThenSumSet(LAMBDA p : credit[p], {p \in Payments : credit[p] # 0})
            - MapThenSumSet(LAMBDA e : e.amount, reversed) - spent

(* A paid session is noticed: its row does not stay created. *)
PaidIsNoticed ==
  \A p \in Payments : checkout[p] = "paid" ~> row[p].status # "created"

(* types.ts: for a confirmed row the matching credit_purchase has been, or is
   about to be, in the same transaction, written. *)
ConfirmedIsCredited ==
  \A p \in Payments :
    row[p].status = "confirmed" /\ (\A h \in Handlers : at[h].of # p) => credit[p] = Price

=============================================================================

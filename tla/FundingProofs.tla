------------------------- MODULE FundingProofs ----------------------------
(***************************************************************************)
(* Proofs about the external funding of an account, by Stripe and in USDC, *)
(* for every set of checkouts, deliveries, intents, transactions, hashes   *)
(* and confirmations, every price, amount and opening balance.             *)
(*                                                                         *)
(*   StripeTyped           type correctness of StripeTopup                 *)
(*   PaidAccountedFor      an acknowledged payment is credited or visible  *)
(*   RefundedReversed      a refunded row has a reversal                   *)
(*   BalanceExplained      the balance is what its rows add up to          *)
(*   StripeImplementsCredit   StripeTopup implements PaymentCredit         *)
(*                                                                         *)
(*   UsdcTyped             type correctness of UsdcTopup                   *)
(*   CreditFits            a credited transfer is the one its intent asked *)
(*                         for, and is not a late one                      *)
(*   AmountsDiffer         open intents have different amounts             *)
(*   ToldRecorded          what a customer is told is on record            *)
(*   SpellingCredited      each submitted hash is credited at most once    *)
(*   UsdcImplementsCredit  UsdcTopup implements PaymentCredit, if no       *)
(*                         transaction is submitted in two spellings       *)
(***************************************************************************)
EXTENDS StripeTopup, UsdcTopup, SumTheorems, TLAPS

---------------------------------------------------------------------------
(* Stripe.                                                               *)

\* What a raised event says about its session and its row.
RaisedInv ==
  \A e \in raised :
    /\ e.type = "completed" => row[e.of].status # "none"
    /\ e.type = "completed" /\ e.amount # 0 => checkout[e.of] = "paid"
    /\ e.type = "expired" => checkout[e.of] = "expired"

\* What the place of a handler says about its event.
HandlerInv ==
  \A h \in Handlers :
    /\ pc[h] # "idle" => at[h] \in raised
    /\ pc[h] = "confirmed" => at[h].type = "completed" /\ at[h].amount # 0
    /\ pc[h] \in {"balance", "reversed"} => at[h].type = "refunded"
    /\ pc[h] = "reversed" => at[h] \in reversed

\* Only a declined attempt or an expiry fails a row.
FailedInv ==
  \A p \in Payments :
    row[p].status = "failed" => Attempted(p) \/ checkout[p] = "expired"

StripeInv ==
  /\ StripeTypeOK /\ RaisedInv /\ HandlerInv /\ FailedInv
  /\ PaidIsAccountedFor /\ RefundedIsReversed

Acc(p) == Ev("completed", p, Price)

---------------------------------------------------------------------------
\* The fields of an event, and when two events are the same.
LEMMA EventFields ==
  ASSUME NEW e \in Events
  PROVE  /\ e.of \in Payments /\ e.amount \in 0..Price
         /\ e.type \in {"completed", "expired", "payment_failed", "refunded"}
         /\ e = Ev(e.type, e.of, e.amount)
         /\ e.type = "completed" => e.amount \in {0, Price}
         /\ e.type \in {"expired", "payment_failed"} => e.amount = 0
         /\ e.type = "refunded" => e.amount # 0
BY PriceAssumption DEF Events, Ev

LEMMA EvFields ==
  ASSUME NEW t, NEW p, NEW n
  PROVE  Ev(t, p, n).type = t /\ Ev(t, p, n).of = p /\ Ev(t, p, n).amount = n
BY DEF Ev

LEMMA EvIsEvent ==
  ASSUME NEW p \in Payments
  PROVE  /\ Ev("completed", p, 0) \in Events /\ Ev("completed", p, Price) \in Events
         /\ Ev("expired", p, 0) \in Events /\ Ev("payment_failed", p, 0) \in Events
         /\ \A n \in 1..Price : Ev("refunded", p, n) \in Events
BY DEF Events

LEMMA StripeInvInit == StripeInit => StripeInv
BY PriceAssumption DEF StripeInit, StripeInv, StripeTypeOK, RaisedInv, HandlerInv, FailedInv,
   PaidIsAccountedFor, RefundedIsReversed, NoEvent

\* The customer's and Stripe's steps.
LEMMA StripeStepKeepsInv ==
  ASSUME StripeInv, NEW p \in Payments, StripeStep(p)
  PROVE  StripeInv'
PROOF
<1> USE PriceAssumption, EvIsEvent DEF StripeInv, ledger, handler
<1>1. CASE OpenCheckout(p)
  BY <1>1 DEF OpenCheckout, StripeTypeOK, RaisedInv, HandlerInv, FailedInv,
     PaidIsAccountedFor, RefundedIsReversed, Attempted
<1>2. CASE RecordCheckout(p)
  <2>1. StripeTypeOK' /\ RaisedInv' /\ HandlerInv' /\ FailedInv' /\ RefundedIsReversed'
    BY <1>2 DEF RecordCheckout, stripe, StripeTypeOK, RaisedInv, HandlerInv, FailedInv,
       RefundedIsReversed, Attempted
  <2>2. Acc(p) \notin acked
    <3>1. Acc(p) \in raised => row[p].status # "none"
      BY EvFields DEF Acc, RaisedInv
    <3> QED
      BY <1>2, <3>1 DEF RecordCheckout, StripeTypeOK
  <2>3. PaidIsAccountedFor'
    BY <1>2, <2>2 DEF RecordCheckout, stripe, PaidIsAccountedFor, Attempted, Acc, StripeTypeOK
  <2> QED
    BY <2>1, <2>3
<1>3. CASE AttemptFails(p)
  <2>1. StripeTypeOK' /\ RaisedInv' /\ HandlerInv'
    BY <1>3, EvFields DEF AttemptFails, StripeTypeOK, RaisedInv, HandlerInv
  <2>2. FailedInv' /\ PaidIsAccountedFor' /\ RefundedIsReversed'
    BY <1>3 DEF AttemptFails, FailedInv, PaidIsAccountedFor, RefundedIsReversed, Attempted
  <2> QED
    BY <2>1, <2>2
<1>4. CASE Expire(p)
  <2>1. StripeTypeOK' /\ HandlerInv'
    BY <1>4 DEF Expire, StripeTypeOK, HandlerInv
  <2>2. RaisedInv'
    BY <1>4, EvFields, EventFields DEF Expire, RaisedInv, StripeTypeOK
  <2>3. FailedInv' /\ PaidIsAccountedFor' /\ RefundedIsReversed'
    BY <1>4, EvFields DEF Expire, FailedInv, PaidIsAccountedFor, RefundedIsReversed,
       Attempted, StripeTypeOK
  <2> QED
    BY <2>1, <2>2, <2>3
<1>5. ASSUME NEW paid \in BOOLEAN, Complete(p, paid) PROVE StripeInv'
  <2>1. StripeTypeOK' /\ HandlerInv'
    BY <1>5 DEF Complete, StripeTypeOK, HandlerInv
  <2>2. RaisedInv'
    BY <1>5, EvFields, EventFields DEF Complete, RaisedInv, StripeTypeOK
  <2>3. FailedInv' /\ PaidIsAccountedFor' /\ RefundedIsReversed'
    BY <1>5, EvFields DEF Complete, FailedInv, PaidIsAccountedFor, RefundedIsReversed,
       Attempted, StripeTypeOK
  <2> QED
    BY <2>1, <2>2, <2>3
<1>6. ASSUME NEW n \in 1..Price, Refund(p, n) PROVE StripeInv'
  <2>1. StripeTypeOK' /\ HandlerInv'
    BY <1>6 DEF Refund, StripeTypeOK, HandlerInv
  <2>2. RaisedInv'
    BY <1>6, EvFields, EventFields DEF Refund, RaisedInv, StripeTypeOK
  <2>3. FailedInv' /\ PaidIsAccountedFor' /\ RefundedIsReversed'
    BY <1>6, EvFields DEF Refund, FailedInv, PaidIsAccountedFor, RefundedIsReversed,
       Attempted, StripeTypeOK
  <2> QED
    BY <2>1, <2>2, <2>3
<1> QED
  BY <1>1, <1>2, <1>3, <1>4, <1>5, <1>6 DEF StripeStep

LEMMA SpendKeepsInv == StripeInv /\ Spend => StripeInv'
BY PriceAssumption DEF StripeInv, Spend, stripe, handler, StripeTypeOK, RaisedInv, HandlerInv,
   FailedInv, PaidIsAccountedFor, RefundedIsReversed, Attempted

\* A delivery; an ignored completed event finds its row past "created".
LEMMA DeliverKeepsInv ==
  ASSUME StripeInv, NEW h \in Handlers, NEW e \in raised, Deliver(h, e)
  PROVE  StripeInv'
PROOF
<1> USE PriceAssumption DEF StripeInv, Deliver, stripe, ledger, handler
<1>1. e \in Events
  BY DEF StripeTypeOK
<1>2. StripeTypeOK' /\ RaisedInv' /\ HandlerInv' /\ FailedInv' /\ RefundedIsReversed'
  BY <1>1 DEF StripeTypeOK, RaisedInv, HandlerInv, FailedInv, RefundedIsReversed, Attempted
<1>3. PaidIsAccountedFor'
  <2> SUFFICES ASSUME NEW p \in Payments, Acc(p) \in acked', ~Attempted(p)
               PROVE  credit[p] = Price
                      \/ row[p].status \in {"confirmed", "refunded", "requires_review"}
    BY DEF PaidIsAccountedFor, Acc, Attempted
  <2>1. CASE Acc(p) \in acked
    BY <2>1 DEF PaidIsAccountedFor, Acc
  <2>2. CASE Acc(p) \notin acked
    <3>1. e = Acc(p) /\ Ignored(e)
      BY <2>2
    <3>2. row[p].status \notin {"none", "created"} /\ checkout[p] = "paid"
      BY <3>1, EvFields DEF Ignored, Acc, RaisedInv
    <3> QED
      BY <3>2 DEF FailedInv, StripeTypeOK
  <2> QED
    BY <2>1, <2>2
<1> QED
  BY <1>2, <1>3

---------------------------------------------------------------------------
\* The writes of a handler.

\* A handler that ends keeps what is said about handlers.
LEMMA IdleKeepsHandlers ==
  ASSUME StripeInv, NEW h \in Handlers, Idle(h), UNCHANGED <<raised, reversed>>
  PROVE  HandlerInv' /\ pc' \in [Handlers -> {"idle", "read", "confirmed", "balance", "reversed"}]
         /\ at' \in [Handlers -> Events \cup {NoEvent}] /\ available' \in [Handlers -> Nat]
BY DEF StripeInv, StripeTypeOK, HandlerInv, Idle

\* A written status that is not "none" or "created" keeps a paid checkout
\* accounted for, unless it is "failed" by an event of the session.
LEMMA WriteKeepsInv ==
  ASSUME StripeInv, NEW h \in Handlers, pc[h] # "idle",
         NEW s \in {"confirmed", "failed", "refunded", "requires_review"}, NEW i \in BOOLEAN,
         Write(at[h].of, s, i), UNCHANGED <<stripe, ledger>>,
         s = "failed" => at[h].type \in {"expired", "payment_failed"},
         s = "refunded" => at[h] \in reversed,
         acked' \subseteq acked \cup {at[h]},
         at[h].type = "completed" /\ at[h].amount # 0 => acked' = acked,
         HandlerInv',
         pc' \in [Handlers -> {"idle", "read", "confirmed", "balance", "reversed"}],
         at' \in [Handlers -> Events \cup {NoEvent}], available' \in [Handlers -> Nat]
  PROVE  StripeInv'
PROOF
<1> USE PriceAssumption DEF StripeInv, stripe, ledger, Write
<1>1. at[h] \in raised /\ at[h] \in Events
  BY DEF HandlerInv, StripeTypeOK
<1>2. at[h].of \in Payments /\ at[h] = Ev(at[h].type, at[h].of, at[h].amount)
  BY <1>1, EventFields
<1>3. StripeTypeOK'
  BY <1>1, <1>2 DEF StripeTypeOK
<1>4. RaisedInv'
  BY <1>2, EventFields DEF RaisedInv, StripeTypeOK
<1>5. s = "failed" => Attempted(at[h].of) \/ checkout[at[h].of] = "expired"
  BY <1>1, <1>2, EventFields DEF Attempted, RaisedInv
<1>6. FailedInv'
  BY <1>2, <1>5 DEF FailedInv, Attempted, StripeTypeOK
<1>7. RefundedIsReversed'
  BY <1>2 DEF RefundedIsReversed, StripeTypeOK
<1>8. PaidIsAccountedFor'
  <2> SUFFICES ASSUME NEW p \in Payments, Acc(p) \in acked', ~Attempted(p)
               PROVE  credit[p] = Price
                      \/ row'[p].status \in {"confirmed", "refunded", "requires_review"}
    BY DEF PaidIsAccountedFor, Acc, Attempted
  <2>1. Acc(p) \in acked
    BY EvFields DEF Acc
  <2>2. checkout[p] = "paid"
    BY <2>1, EvFields DEF Acc, RaisedInv, StripeTypeOK
  <2>3. CASE p = at[h].of
    BY <2>2, <2>3, <1>5 DEF StripeTypeOK
  <2>4. CASE p # at[h].of
    BY <2>1, <2>4 DEF PaidIsAccountedFor, Acc, StripeTypeOK
  <2> QED
    BY <2>3, <2>4
<1> QED
  BY <1>3, <1>4, <1>6, <1>7, <1>8

LEMMA HandlerKeepsInv ==
  ASSUME StripeInv, NEW h \in Handlers, Work(h) \/ Crash(h)
  PROVE  StripeInv'
PROOF
<1> USE PriceAssumption
<1>1. CASE Confirm(h)
  <2>1. /\ HandlerInv' /\ at' \in [Handlers -> Events \cup {NoEvent}]
        /\ pc' \in [Handlers -> {"idle", "read", "confirmed", "balance", "reversed"}]
        /\ available' \in [Handlers -> Nat]
    BY <1>1 DEF Confirm, To, StripeInv, StripeTypeOK, HandlerInv, stripe, ledger
  <2> QED
    BY <1>1, <2>1, WriteKeepsInv DEF Confirm
<1>2. CASE Fund(h)
  <2>1. at[h] \in raised /\ at[h].type = "completed" /\ at[h].amount # 0
    BY <1>2 DEF Fund, StripeInv, HandlerInv
  <2>2. at[h].of \in Payments /\ at[h].amount = Price /\ at[h] = Acc(at[h].of)
    BY <2>1, EventFields DEF StripeInv, StripeTypeOK, Acc
  <2>3. credit' = [credit EXCEPT ![at[h].of] = Price] /\ balance' \in Nat
    BY <1>2, <2>2 DEF Fund, StripeInv, StripeTypeOK
  <2>4. /\ HandlerInv' /\ at' \in [Handlers -> Events \cup {NoEvent}]
        /\ pc' \in [Handlers -> {"idle", "read", "confirmed", "balance", "reversed"}]
        /\ available' \in [Handlers -> Nat]
    BY <1>2, IdleKeepsHandlers DEF Fund, Ack, stripe
  <2>5. StripeTypeOK' /\ RaisedInv' /\ FailedInv' /\ RefundedIsReversed'
    BY <1>2, <2>1, <2>3, <2>4 DEF Fund, Ack, StripeInv, StripeTypeOK, RaisedInv, FailedInv,
       RefundedIsReversed, Attempted, stripe
  <2>6. PaidIsAccountedFor'
    BY <1>2, <2>2, <2>3, EvFields DEF Fund, Ack, StripeInv, PaidIsAccountedFor, Attempted, Acc,
       StripeTypeOK, stripe
  <2> QED
    BY <2>4, <2>5, <2>6 DEF StripeInv
<1>3. CASE Review(h)
  <2>1. /\ HandlerInv' /\ at' \in [Handlers -> Events \cup {NoEvent}]
        /\ pc' \in [Handlers -> {"idle", "read", "confirmed", "balance", "reversed"}]
        /\ available' \in [Handlers -> Nat]
    BY <1>3, IdleKeepsHandlers DEF Review, Ack, stripe, ledger
  <2> QED
    BY <1>3, <2>1, WriteKeepsInv DEF Review, Ack
<1>4. CASE Fail(h)
  <2>1. /\ HandlerInv' /\ at' \in [Handlers -> Events \cup {NoEvent}]
        /\ pc' \in [Handlers -> {"idle", "read", "confirmed", "balance", "reversed"}]
        /\ available' \in [Handlers -> Nat]
    BY <1>4, IdleKeepsHandlers DEF Fail, Ack, stripe, ledger
  <2> QED
    BY <1>4, <2>1, WriteKeepsInv DEF Fail, Ack
<1>5. CASE ReadBalance(h)
  BY <1>5 DEF ReadBalance, stripe, ledger, StripeInv, StripeTypeOK, RaisedInv, HandlerInv,
     FailedInv, PaidIsAccountedFor, RefundedIsReversed, Attempted
<1>6. CASE Reverse(h)
  <2>1. at[h] \in raised /\ at[h] \in Events /\ at[h].amount \in Nat
    BY <1>6, EventFields DEF Reverse, StripeInv, HandlerInv, StripeTypeOK
  <2>2. StripeTypeOK'
    BY <1>6, <2>1 DEF Reverse, To, StripeInv, StripeTypeOK, stripe
  <2>3. HandlerInv'
    BY <1>6, <2>1 DEF Reverse, To, StripeInv, StripeTypeOK, HandlerInv, stripe
  <2>4. RaisedInv' /\ FailedInv' /\ PaidIsAccountedFor' /\ RefundedIsReversed'
    BY <1>6 DEF Reverse, To, StripeInv, RaisedInv, FailedInv, PaidIsAccountedFor,
       RefundedIsReversed, Attempted, stripe
  <2> QED
    BY <2>2, <2>3, <2>4 DEF StripeInv
<1>7. CASE MarkRefunded(h)
  <2>1. /\ HandlerInv' /\ at' \in [Handlers -> Events \cup {NoEvent}]
        /\ pc' \in [Handlers -> {"idle", "read", "confirmed", "balance", "reversed"}]
        /\ available' \in [Handlers -> Nat]
    BY <1>7, IdleKeepsHandlers DEF MarkRefunded, Ack, stripe, ledger
  <2>2. at[h] \in reversed /\ at[h].type = "refunded"
    BY <1>7 DEF MarkRefunded, StripeInv, HandlerInv
  <2> QED
    BY <1>7, <2>1, <2>2, WriteKeepsInv DEF MarkRefunded, Ack
<1>8. CASE FlagRefund(h)
  <2>1. /\ HandlerInv' /\ at' \in [Handlers -> Events \cup {NoEvent}]
        /\ pc' \in [Handlers -> {"idle", "read", "confirmed", "balance", "reversed"}]
        /\ available' \in [Handlers -> Nat]
    BY <1>8, IdleKeepsHandlers DEF FlagRefund, Ack, stripe, ledger
  <2>2. at[h].type = "refunded"
    BY <1>8 DEF FlagRefund, StripeInv, HandlerInv
  <2> QED
    BY <1>8, <2>1, <2>2, WriteKeepsInv DEF FlagRefund, Ack
<1>9. CASE Crash(h)
  <2>1. HandlerInv' /\ StripeTypeOK'
    BY <1>9, IdleKeepsHandlers DEF Crash, stripe, ledger, StripeInv, StripeTypeOK
  <2>2. RaisedInv' /\ FailedInv' /\ PaidIsAccountedFor' /\ RefundedIsReversed'
    BY <1>9 DEF Crash, stripe, ledger, StripeInv, RaisedInv, FailedInv, PaidIsAccountedFor,
       RefundedIsReversed, Attempted
  <2> QED
    BY <2>1, <2>2 DEF StripeInv
<1> QED
  BY <1>1, <1>2, <1>3, <1>4, <1>5, <1>6, <1>7, <1>8, <1>9 DEF Work

LEMMA StripeInvStep == StripeInv /\ [StripeNext]_stripeVars => StripeInv'
PROOF
<1> SUFFICES ASSUME StripeInv, [StripeNext]_stripeVars PROVE StripeInv'
  OBVIOUS
<1>1. CASE UNCHANGED stripeVars
  BY <1>1 DEF stripeVars, stripe, ledger, handler, StripeInv, StripeTypeOK, RaisedInv,
     HandlerInv, FailedInv, PaidIsAccountedFor, RefundedIsReversed, Attempted
<1> QED
  BY <1>1, StripeStepKeepsInv, SpendKeepsInv, DeliverKeepsInv, HandlerKeepsInv DEF StripeNext

---------------------------------------------------------------------------
THEOREM StripeInvariant == StripeSpec => []StripeInv
<1> QED
  BY StripeInvInit, StripeInvStep, PTL DEF StripeSpec

(* Every variable keeps its type: in particular the balance is never
   negative and a payment's credit is nothing or its price. *)
THEOREM StripeTyped == StripeSpec => []StripeTypeOK
<1>1. StripeInv => StripeTypeOK
  BY DEF StripeInv
<1> QED
  BY <1>1, StripeInvariant, PTL

(* An acknowledged payment is credited, or its row is one that the
   reconciliation reports or an operator sees (service.ts,
   handleStripeCheckoutCompleted). *)
THEOREM PaidAccountedFor == StripeSpec => []PaidIsAccountedFor
<1>1. StripeInv => PaidIsAccountedFor
  BY DEF StripeInv
<1> QED
  BY <1>1, StripeInvariant, PTL

(* A row says refunded only if the ledger holds a reversal of its payment
   (service.ts, handleStripeRefund). *)
THEOREM RefundedReversed == StripeSpec => []RefundedIsReversed
<1>1. StripeInv => RefundedIsReversed
  BY DEF StripeInv
<1> QED
  BY <1>1, StripeInvariant, PTL

---------------------------------------------------------------------------
\* The rows of the ledger: the payments credited and the refunds reversed,
\* only finitely many of them at any time.
Credited == {p \in Payments : credit[p] # 0}
EventAmount == [e \in Events |-> e.amount]
Explained ==
  Opening + SumFunctionOnSet(credit, Credited) - SumFunctionOnSet(EventAmount, reversed) - spent
RowsInv == IsFiniteSet(Credited) /\ IsFiniteSet(reversed) /\ balance = Explained

LEMMA BalanceAsSums == StripeTypeOK /\ RowsInv => BalanceIsExplained
PROOF
<1> SUFFICES ASSUME StripeTypeOK, RowsInv PROVE BalanceIsExplained
  OBVIOUS
<1>1. MapThenSumSet(LAMBDA p : credit[p], {p \in Payments : credit[p] # 0})
        = SumFunctionOnSet(credit, Credited)
  BY DEF MapThenSumSet, SumFunctionOnSet, FoldFunctionOnSet, Credited
<1>2. reversed \in SUBSET Events
  BY DEF StripeTypeOK
<1>3. MapThenSumSet(LAMBDA e : e.amount, reversed) = SumFunctionOnSet(EventAmount, reversed)
  BY <1>2 DEF MapThenSumSet, SumFunctionOnSet, FoldFunctionOnSet, MapThenFoldSet, EventAmount
<1> QED
  BY <1>1, <1>3 DEF RowsInv, Explained, BalanceIsExplained

LEMMA RowsInvInit == StripeInit => RowsInv
PROOF
<1> SUFFICES ASSUME StripeInit PROVE RowsInv
  OBVIOUS
<1>1. Credited = {} /\ reversed = {}
  BY DEF StripeInit, Credited
<1> QED
  BY <1>1, PriceAssumption, FS_EmptySet, SumEmpty DEF StripeInit, RowsInv, Explained

LEMMA RowSums ==
  ASSUME StripeTypeOK, RowsInv
  PROVE  /\ \A p \in Credited : credit[p] \in Int
         /\ \A e \in reversed : EventAmount[e] \in Int /\ EventAmount[e] = e.amount
         /\ SumFunctionOnSet(credit, Credited) \in Int
         /\ SumFunctionOnSet(EventAmount, reversed) \in Int
PROOF
<1>1. \A p \in Credited : credit[p] \in Int
  BY PriceAssumption DEF StripeTypeOK, Credited
<1>2. \A e \in reversed : EventAmount[e] \in Int /\ EventAmount[e] = e.amount
  BY PriceAssumption, EventFields DEF StripeTypeOK, EventAmount
<1> QED
  BY <1>1, <1>2, SumInt DEF RowsInv

LEMMA FundRows ==
  ASSUME StripeInv, RowsInv, NEW h \in Handlers, Fund(h)
  PROVE  RowsInv'
PROOF
<1> DEFINE p == at[h].of
           n == at[h].amount
<1>1. at[h] \in Events /\ n # 0
  BY DEF Fund, StripeInv, StripeTypeOK, HandlerInv
<1>2. p \in Payments /\ n \in Nat
  BY <1>1, PriceAssumption, EventFields
<1>3. credit \in [Payments -> {0, Price}] /\ reversed' = reversed /\ spent' = spent
      /\ balance \in Int /\ spent \in Int /\ Opening \in Int
  BY PriceAssumption DEF Fund, StripeInv, StripeTypeOK
<1>4. CASE credit[p] # 0
  <2>1. UNCHANGED <<credit, balance>>
    BY <1>4 DEF Fund
  <2>2. Credited' = Credited
    BY <2>1 DEF Credited
  <2> QED
    BY <1>3, <2>1, <2>2 DEF RowsInv, Explained
<1>5. CASE credit[p] = 0
  <2>1. credit' = [credit EXCEPT ![p] = n] /\ balance' = balance + n
    BY <1>5 DEF Fund
  <2>2. credit'[p] = n /\ \A q \in Payments \ {p} : credit'[q] = credit[q]
    BY <1>2, <1>3, <2>1
  <2>3. Credited' = Credited \cup {p} /\ p \notin Credited
    BY <1>1, <1>2, <1>5, <2>2 DEF Credited
  <2>4. /\ IsFiniteSet(Credited) /\ \A q \in Credited : credit[q] \in Int /\ credit'[q] = credit[q]
        /\ SumFunctionOnSet(credit, Credited) \in Int
        /\ SumFunctionOnSet(EventAmount, reversed) \in Int
    <3>1. StripeTypeOK
      BY DEF StripeInv
    <3> QED
      BY <2>2, <2>3, <3>1, RowSums DEF RowsInv, Credited
  <2>5. credit'[p] \in Int
    BY <1>2, <2>2
  <2> HIDE DEF p, n
  <2>6. /\ IsFiniteSet(Credited \cup {p})
        /\ SumFunctionOnSet(credit', Credited \cup {p}) = SumFunctionOnSet(credit, Credited) + credit'[p]
    BY <2>3, <2>4, <2>5, SumJoin
  <2> QED
    BY <1>2, <1>3, <2>1, <2>2, <2>3, <2>4, <2>6 DEF RowsInv, Explained
<1> QED
  BY <1>4, <1>5

LEMMA ReverseRows ==
  ASSUME StripeInv, RowsInv, NEW h \in Handlers, Reverse(h)
  PROVE  RowsInv'
PROOF
<1> DEFINE e == at[h]
<1>1. e \in Events
  BY DEF Reverse, StripeInv, StripeTypeOK, HandlerInv
<1>2. /\ credit' = credit /\ spent' = spent /\ Credited' = Credited
      /\ balance \in Int /\ spent \in Int /\ Opening \in Int
  BY PriceAssumption DEF Reverse, StripeInv, StripeTypeOK, Credited
<1>3. CASE e \in reversed
  BY <1>2, <1>3 DEF Reverse, RowsInv, Explained
<1>4. CASE e \notin reversed
  <2>1. reversed' = reversed \cup {e} /\ balance' = balance - e.amount
    BY <1>4 DEF Reverse
  <2>2. EventAmount[e] = e.amount /\ e.amount \in Int
    BY <1>1, PriceAssumption, EventFields DEF EventAmount
  <2>3. /\ IsFiniteSet(reversed) /\ \A x \in reversed : EventAmount[x] \in Int
        /\ SumFunctionOnSet(credit, Credited) \in Int
        /\ SumFunctionOnSet(EventAmount, reversed) \in Int
    <3>1. StripeTypeOK
      BY DEF StripeInv
    <3> QED
      BY <3>1, RowSums DEF RowsInv
  <2> HIDE DEF e
  <2>4. /\ IsFiniteSet(reversed \cup {e})
        /\ SumFunctionOnSet(EventAmount, reversed \cup {e})
             = SumFunctionOnSet(EventAmount, reversed) + EventAmount[e]
    BY <1>4, <2>2, <2>3, SumAdd, FS_AddElement
  <2> QED
    BY <1>2, <2>1, <2>2, <2>3, <2>4 DEF RowsInv, Explained
<1> QED
  BY <1>3, <1>4

LEMMA RowsInvStep == StripeInv /\ RowsInv /\ [StripeNext]_stripeVars => RowsInv'
PROOF
<1> SUFFICES ASSUME StripeInv, RowsInv, [StripeNext]_stripeVars PROVE RowsInv'
  OBVIOUS
<1>1. ASSUME UNCHANGED ledger PROVE RowsInv'
  <2>1. UNCHANGED <<credit, reversed, balance, spent>>
    BY <1>1 DEF ledger
  <2>2. Credited' = Credited
    BY <2>1 DEF Credited
  <2> QED
    BY <2>1, <2>2 DEF RowsInv, Explained
<1>2. CASE Spend
  <2>1. /\ UNCHANGED <<credit, reversed>> /\ balance' = balance - 1 /\ spent' = spent + 1
        /\ Credited' = Credited
    BY <1>2 DEF Spend, Credited
  <2>2. /\ SumFunctionOnSet(credit, Credited) \in Int /\ SumFunctionOnSet(EventAmount, reversed) \in Int
        /\ balance \in Int /\ spent \in Int /\ Opening \in Int
    BY RowSums, PriceAssumption DEF StripeInv, StripeTypeOK
  <2> QED
    BY <2>1, <2>2 DEF RowsInv, Explained
<1>3. ASSUME NEW p \in Payments, StripeStep(p) PROVE UNCHANGED ledger
  BY <1>3 DEF StripeStep, OpenCheckout, RecordCheckout, AttemptFails, Expire, Complete, Refund
<1>4. ASSUME NEW h \in Handlers, NEW e \in raised, Deliver(h, e) PROVE UNCHANGED ledger
  BY <1>4 DEF Deliver
<1>5. ASSUME NEW h \in Handlers, Work(h) \/ Crash(h), ~Fund(h), ~Reverse(h) PROVE UNCHANGED ledger
  BY <1>5 DEF Work, Crash, Confirm, Review, Fail, ReadBalance, MarkRefunded, FlagRefund, ledger
<1>6. CASE UNCHANGED stripeVars
  BY <1>1, <1>6 DEF stripeVars
<1> QED
  BY <1>1, <1>2, <1>3, <1>4, <1>5, <1>6, FundRows, ReverseRows DEF StripeNext, Work

(* The account's balance is what the ledger's rows add up to: every credited
   payment once, less one reversal per refund event and what calls have
   spent, for any number of payments and deliveries. *)
THEOREM BalanceExplained == StripeSpec => []BalanceIsExplained
PROOF
<1>1. StripeInv => StripeTypeOK
  BY DEF StripeInv
<1> QED
  BY <1>1, BalanceAsSums, StripeInvInit, StripeInvStep, RowsInvInit, RowsInvStep, PTL
     DEF StripeSpec

---------------------------------------------------------------------------
LEMMA CreditInit == StripeInit => Promise!Init
BY DEF StripeInit, Promise!Init

\* Only a paid completion adds a received payment, only Fund a credit.
LEMMA CreditStep ==
  ASSUME StripeInv, [StripeNext]_stripeVars
  PROVE  [Promise!Next]_<<{p \in Payments : checkout[p] = "paid"}, credit>>
PROOF
<1> DEFINE Received == {p \in Payments : checkout[p] = "paid"}
<1> USE DEF StripeInv
<1>1. ASSUME NEW p \in Payments, Complete(p, TRUE) PROVE Promise!Receive(p)
  <2>1. Received' = Received \cup {p}
    BY <1>1 DEF Complete, StripeTypeOK
  <2> QED
    BY <1>1, <2>1 DEF Promise!Receive, Complete, ledger
<1>2. ASSUME NEW p \in Payments, StripeStep(p), ~Complete(p, TRUE)
      PROVE  UNCHANGED <<Received, credit>>
  <2>1. credit' = credit
    BY <1>2 DEF StripeStep, OpenCheckout, RecordCheckout, AttemptFails, Expire, Complete, Refund,
       stripe, ledger
  <2>2. Received' = Received
    BY <1>2 DEF StripeStep, OpenCheckout, RecordCheckout, AttemptFails, Expire, Complete, Refund,
       stripe, StripeTypeOK
  <2> QED
    BY <2>1, <2>2
<1>3. ASSUME NEW h \in Handlers, Fund(h)
      PROVE  UNCHANGED <<Received, credit>> \/ Promise!Credit(at[h].of)
  <2>1. at[h] \in raised /\ at[h].type = "completed" /\ at[h].amount # 0
    BY <1>3 DEF Fund, HandlerInv
  <2>2. at[h].of \in Payments /\ at[h].amount = Price /\ checkout[at[h].of] = "paid"
    BY <2>1, EventFields DEF StripeTypeOK, RaisedInv
  <2>3. Received' = Received
    BY <1>3 DEF Fund, stripe
  <2> QED
    BY <1>3, <2>2, <2>3 DEF Fund, Promise!Credit
<1>4. ASSUME NEW h \in Handlers, (Work(h) /\ ~Fund(h)) \/ Crash(h) \/ \E e \in raised : Deliver(h, e)
      PROVE  UNCHANGED <<Received, credit>>
  BY <1>4 DEF Work, Confirm, Review, Fail, ReadBalance, Reverse, MarkRefunded, FlagRefund, Crash,
     Deliver, stripe, ledger
<1>5. CASE Spend
  BY <1>5 DEF Spend, stripe
<1>6. CASE UNCHANGED stripeVars
  BY <1>6 DEF stripeVars, stripe, ledger
<1>7. ASSUME NEW h \in Handlers, Fund(h) PROVE at[h].of \in Payments
  BY <1>7, EventFields DEF Fund, HandlerInv, StripeTypeOK
<1> QED
  BY <1>1, <1>2, <1>3, <1>4, <1>5, <1>6, <1>7 DEF StripeNext, Promise!Next

(* Stripe top-ups implement the promise of PaymentCredit: a payment is
   credited only once Stripe holds it, once, with its price. *)
THEOREM StripeImplementsCredit == StripeSpec => CreditsAreEarned
<1> QED
  BY CreditInit, CreditStep, StripeInvariant, PTL
  DEF StripeSpec, CreditsAreEarned, Promise!Spec

---------------------------------------------------------------------------
(* USDC.                                                                 *)

\* An amount is picked only for an intent that does not exist yet, and a
\* confirmed intent has a payment of its own.
IntentInv ==
  \A i \in Intents :
    /\ picked[i] # 0 => intent[i].status = "none"
    /\ intent[i].status = "confirmed" =>
         \E h \in Hashes : payment[h].status # "none" /\ payment[h].of = i

\* What the place of a confirmation says about what it has found out.
ConfirmInv ==
  \A r \in Confirms :
    LET h == claim[r].hash  i == claim[r].of IN
    /\ cpc[r] # "idle" => h \in Hashes /\ i \in Intents /\ intent[i].status # "none"
    /\ cpc[r] \in {"verified", "recorded", "marked"} =>
         chain[TxOf[h]] = "confirmed" /\ Matches(r)
    /\ cpc[r] \in {"recorded", "marked"} =>
         /\ payment[h] = [status |-> "confirmed", of |-> i] /\ funded[h] = 0
         /\ \A s \in Confirms \ {r} :
              cpc[s] \in {"recorded", "marked"} => claim[s].hash # h

PaymentInv ==
  \A h \in Hashes :
    payment[h].status # "none" =>
      payment[h].of \in Intents /\ intent[payment[h].of].status # "none"

UsdcInv ==
  /\ UsdcTypeOK /\ IntentInv /\ ConfirmInv /\ PaymentInv
  /\ CreditFitsIntent /\ OpenAmountsDiffer /\ ToldIsRecorded

LEMMA UsdcInvInit == UsdcInit => UsdcInv
BY TransferAssumption DEF UsdcInit, UsdcInv, UsdcTypeOK, IntentInv, ConfirmInv, PaymentInv,
   CreditFitsIntent, OpenAmountsDiffer, ToldIsRecorded, NoClaim, NoPayment, Steps

---------------------------------------------------------------------------
\* What is said about confirmations stays true as long as confirmed
\* transactions, recorded payments and amounts do.
LEMMA FrameKeepsConfirms ==
  ASSUME UsdcInv,
         \A r \in Confirms : cpc'[r] # "idle" => claim'[r] = claim[r] /\ cpc'[r] = cpc[r],
         \A t \in Transactions : chain[t] = "confirmed" => chain'[t] = "confirmed",
         \A h \in Hashes : payment[h].status # "none" => payment'[h] = payment[h],
         \A i \in Intents : intent[i].status # "none" =>
            intent'[i].status # "none" /\ intent'[i].amount = intent[i].amount,
         funded' = funded
  PROVE  ConfirmInv'
PROOF
<1> SUFFICES ASSUME NEW r \in Confirms, cpc'[r] # "idle"
             PROVE  /\ claim'[r].hash \in Hashes /\ claim'[r].of \in Intents
                    /\ intent'[claim'[r].of].status # "none"
                    /\ cpc'[r] \in {"verified", "recorded", "marked"} =>
                         chain'[TxOf[claim'[r].hash]] = "confirmed" /\ Matches(r)'
                    /\ cpc'[r] \in {"recorded", "marked"} =>
                         /\ payment'[claim'[r].hash] = [status |-> "confirmed", of |-> claim'[r].of]
                         /\ funded'[claim'[r].hash] = 0
                         /\ \A s \in Confirms \ {r} :
                              cpc'[s] \in {"recorded", "marked"} => claim'[s].hash # claim'[r].hash
  BY DEF ConfirmInv
<1>1. claim'[r] = claim[r] /\ cpc'[r] = cpc[r]
  OBVIOUS
<1>2. claim[r].hash \in Hashes /\ claim[r].of \in Intents /\ intent[claim[r].of].status # "none"
  BY <1>1 DEF UsdcInv, ConfirmInv
<1>3. cpc[r] \in {"verified", "recorded", "marked"} =>
        chain[TxOf[claim[r].hash]] = "confirmed" /\ Matches(r)
  BY DEF UsdcInv, ConfirmInv
<1>4. cpc[r] \in {"recorded", "marked"} =>
        /\ payment[claim[r].hash] = [status |-> "confirmed", of |-> claim[r].of]
        /\ funded[claim[r].hash] = 0
        /\ \A s \in Confirms \ {r} :
             cpc[s] \in {"recorded", "marked"} => claim[s].hash # claim[r].hash
  BY DEF UsdcInv, ConfirmInv
<1>5. \A s \in Confirms : cpc'[s] \in {"recorded", "marked"} =>
        cpc[s] = cpc'[s] /\ claim'[s] = claim[s]
  OBVIOUS
<1> QED
  <2>1. TxOf[claim[r].hash] \in Transactions
    BY <1>2, TransferAssumption
  <2> QED
    BY <1>1, <1>2, <1>3, <1>4, <1>5, <2>1 DEF Matches

\* The chain moves on; what is confirmed stays so.
LEMMA ChainKeepsInv ==
  ASSUME UsdcInv, NEW t \in Transactions, Broadcast(t) \/ Settle(t)
  PROVE  UsdcInv'
PROOF
<1>1. UNCHANGED <<picked, intent, payment, funded, cpc, claim, answer>>
  BY DEF Broadcast, Settle
<1>2. UsdcTypeOK'
  BY <1>1 DEF Broadcast, Settle, UsdcInv, UsdcTypeOK
<1>3. \A u \in Transactions : chain[u] = "confirmed" => chain'[u] = "confirmed"
  BY DEF Broadcast, Settle, UsdcInv, UsdcTypeOK
<1>4. ConfirmInv'
  BY <1>1, <1>3, FrameKeepsConfirms
<1>5. IntentInv' /\ PaymentInv' /\ CreditFitsIntent' /\ OpenAmountsDiffer' /\ ToldIsRecorded'
  BY <1>1 DEF UsdcInv, IntentInv, PaymentInv, CreditFitsIntent, OpenAmountsDiffer, ToldIsRecorded
<1> QED
  BY <1>2, <1>4, <1>5 DEF UsdcInv

\* Intents come and expire.
LEMMA IntentKeepsInv ==
  ASSUME UsdcInv, NEW i \in Intents,
         (\E a \in Amounts : PickAmount(i, a)) \/ CreateIntent(i) \/ ExpireIntent(i)
  PROVE  UsdcInv'
PROOF
<1> USE TransferAssumption DEF UsdcInv
<1>1. ASSUME NEW a \in Amounts, PickAmount(i, a) PROVE UsdcInv'
  <2>1. ConfirmInv'
    BY <1>1, FrameKeepsConfirms DEF PickAmount
  <2>2. UsdcTypeOK' /\ IntentInv'
    BY <1>1 DEF PickAmount, UsdcTypeOK, IntentInv
  <2>3. PaymentInv' /\ CreditFitsIntent' /\ OpenAmountsDiffer' /\ ToldIsRecorded'
    BY <1>1 DEF PickAmount, PaymentInv, CreditFitsIntent, OpenAmountsDiffer, ToldIsRecorded
  <2> QED
    BY <2>1, <2>2, <2>3
<1>2. CASE CreateIntent(i)
  <2>1. intent[i].status = "none" /\ picked[i] \in Amounts
    BY <1>2 DEF CreateIntent, IntentInv, UsdcTypeOK
  <2>2. UsdcTypeOK'
    <3> DEFINE Rows == [status : {"none", "pending", "confirmed", "failed", "expired"},
                        amount : Amounts \cup {0}, hash : Hashes \cup {NoHash}]
               new == [status |-> "pending", amount |-> picked[i], hash |-> NoHash]
    <3>1. intent \in [Intents -> Rows] /\ new \in Rows
      BY <2>1 DEF UsdcTypeOK
    <3>2. intent' = intent \/ intent' = [intent EXCEPT ![i] = new]
      BY <1>2 DEF CreateIntent
    <3> HIDE DEF new
    <3>3. intent' \in [Intents -> Rows]
      <4> HIDE DEF Rows
      <4> QED
        BY <3>1, <3>2
    <3>4. picked' \in [Intents -> Amounts \cup {0}]
      BY <1>2 DEF CreateIntent, UsdcTypeOK
    <3> QED
      BY <1>2, <3>3, <3>4 DEF CreateIntent, UsdcTypeOK
  <2>a. IntentInv'
    BY <1>2, <2>1 DEF CreateIntent, UsdcTypeOK, IntentInv
  <2>3. ConfirmInv' /\ PaymentInv' /\ CreditFitsIntent'
    <3>1. \A j \in Intents : intent[j].status # "none" => intent'[j] = intent[j]
      BY <1>2, <2>1 DEF CreateIntent, UsdcTypeOK
    <3>2. ConfirmInv'
      BY <1>2, <3>1, FrameKeepsConfirms DEF CreateIntent
    <3>3. PaymentInv'
      BY <1>2, <3>1 DEF CreateIntent, PaymentInv
    <3>4. CreditFitsIntent'
      BY <1>2, <3>1 DEF CreateIntent, PaymentInv, CreditFitsIntent
    <3> QED
      BY <3>2, <3>3, <3>4
  <2>4. OpenAmountsDiffer'
    BY <1>2, <2>1 DEF CreateIntent, UsdcTypeOK, OpenAmountsDiffer, Open
  <2>5. ToldIsRecorded'
    BY <1>2 DEF CreateIntent, ToldIsRecorded
  <2> QED
    BY <2>2, <2>a, <2>3, <2>4, <2>5
<1>3. CASE ExpireIntent(i)
  <2>1. /\ intent' \in [Intents -> [status : {"none", "pending", "confirmed", "failed", "expired"},
                                    amount : Amounts \cup {0}, hash : Hashes \cup {NoHash}]]
        /\ \A j \in Intents : /\ intent'[j].amount = intent[j].amount
                              /\ intent'[j].status = IF j = i THEN "expired" ELSE intent[j].status
    BY <1>3 DEF ExpireIntent, UsdcTypeOK
  <2>2. intent[i].status = "pending" /\ UNCHANGED <<chain, picked, payment, funded, cpc, claim, answer>>
    BY <1>3 DEF ExpireIntent
  <2>3. UsdcTypeOK' /\ IntentInv'
    BY <2>1, <2>2 DEF UsdcTypeOK, IntentInv
  <2>4. ConfirmInv'
    BY <2>1, <2>2, FrameKeepsConfirms
  <2>5. PaymentInv' /\ CreditFitsIntent'
    BY <2>1, <2>2 DEF PaymentInv, CreditFitsIntent
  <2>6. OpenAmountsDiffer' /\ ToldIsRecorded'
    BY <2>1, <2>2 DEF OpenAmountsDiffer, ToldIsRecorded
  <2> QED
    BY <2>3, <2>4, <2>5, <2>6
<1> QED
  BY <1>1, <1>2, <1>3

---------------------------------------------------------------------------
\* A confirmation moves on without a write.
LEMMA MoveKeepsInv ==
  ASSUME UsdcInv, NEW r \in Confirms, NEW s \in Steps, cpc[r] # "idle", GoTo(r, s),
         s # "recorded", s # "marked",
         s = "verified" => chain[TxOf[claim[r].hash]] = "confirmed" /\ Matches(r),
         UNCHANGED <<chain, picked, intent, payment, funded>>
  PROVE  UsdcInv'
PROOF
<1> USE DEF UsdcInv, GoTo
<1>1. UsdcTypeOK' /\ IntentInv' /\ PaymentInv' /\ CreditFitsIntent' /\ OpenAmountsDiffer'
  BY DEF UsdcTypeOK, IntentInv, PaymentInv, CreditFitsIntent, OpenAmountsDiffer
<1>2. ConfirmInv'
  BY DEF ConfirmInv, Matches, UsdcTypeOK
<1>3. ToldIsRecorded'
  BY DEF ToldIsRecorded
<1> QED
  BY <1>1, <1>2, <1>3

\* A confirmation is answered without a write to an intent.
LEMMA SayKeepsInv ==
  ASSUME UsdcInv, NEW r \in Confirms, NEW a, Say(r, a), cpc[r] # "idle",
         a \in {"confirmed", "flagged"} => payment'[claim[r].hash].status # "none",
         UNCHANGED <<chain, picked, intent, funded>>,
         payment' = payment
           \/ /\ payment[claim[r].hash].status = "none"
              /\ payment' = [payment EXCEPT ![claim[r].hash] =
                               [status |-> "requires_review", of |-> claim[r].of]]
  PROVE  UsdcInv'
PROOF
<1>a. claim \in [Confirms -> [of : Intents \cup {"none"}, hash : Hashes \cup {NoHash},
                             stored : Hashes \cup {NoHash}]]
  BY DEF UsdcInv, UsdcTypeOK
<1>b. payment \in [Hashes -> [status : {"none", "confirmed", "requires_review"},
                             of : Intents \cup {"none"}]]
  BY DEF UsdcInv, UsdcTypeOK
<1>c. cpc \in [Confirms -> Steps] /\ answer \in [Confirms -> {"none", "confirmed", "flagged"}]
  BY DEF UsdcInv, UsdcTypeOK
<1>d. IntentInv /\ PaymentInv /\ CreditFitsIntent /\ OpenAmountsDiffer /\ ToldIsRecorded
  BY DEF UsdcInv
<1> USE DEF Say
<1>1. claim[r].hash \in Hashes /\ claim[r].of \in Intents /\ intent[claim[r].of].status # "none"
  BY DEF UsdcInv, ConfirmInv
<1>2. UsdcTypeOK'
  <2>1. claim' \in [Confirms -> [of : Intents \cup {"none"}, hash : Hashes \cup {NoHash},
                                 stored : Hashes \cup {NoHash}]]
    BY <1>a DEF NoClaim
  <2>2. payment' \in [Hashes -> [status : {"none", "confirmed", "requires_review"},
                                 of : Intents \cup {"none"}]]
    BY <1>b, <1>1
  <2>3. cpc' \in [Confirms -> Steps] /\ answer' \in [Confirms -> {"none", "confirmed", "flagged"}]
    BY <1>c DEF Steps
  <2> QED
    BY <2>1, <2>2, <2>3 DEF UsdcInv, UsdcTypeOK
<1>3. \A h \in Hashes :
        /\ payment[h].status # "none" => payment'[h] = payment[h]
        /\ payment[h].status = "none" =>
             payment'[h] = payment[h] \/ payment'[h].of = claim[r].of
  BY <1>b, <1>1
<1>4. IntentInv' /\ OpenAmountsDiffer'
  <2>1. OpenAmountsDiffer'
    BY <1>d DEF OpenAmountsDiffer
  <2>2. IntentInv'
    BY <1>d, <1>3 DEF IntentInv
  <2> QED
    BY <2>1, <2>2
<1>5. PaymentInv'
  BY <1>d, <1>1, <1>3 DEF PaymentInv
<1>6. CreditFitsIntent'
  BY <1>d, <1>3 DEF PaymentInv, CreditFitsIntent
<1>7. ConfirmInv'
  <2>1. \A s \in Confirms : cpc'[s] # "idle" => claim'[s] = claim[s] /\ cpc'[s] = cpc[s]
    BY <1>a, <1>c
  <2> QED
    BY <1>3, <2>1, FrameKeepsConfirms
<1>8. ToldIsRecorded'
  <2> SUFFICES ASSUME NEW s \in Confirms, answer'[s] # "none"
               PROVE  \E h \in Hashes :
                        /\ payment'[h].status # "none"
                        /\ \/ h = claim'[s].hash
                           \/ answer'[s] = "confirmed" /\ payment'[h].of = claim'[s].of
    BY DEF ToldIsRecorded
  <2>1. CASE s = r
    <3>1. a \in {"confirmed", "flagged"}
      <4> SUFFICES ASSUME a \notin {"confirmed", "flagged"} PROVE FALSE
        OBVIOUS
      <4>1. answer' = [answer EXCEPT ![r] = "none"]
        OBVIOUS
      <4> QED
        BY <1>c, <2>1, <4>1
    <3>2. claim'[r].hash = claim[r].hash
      BY <1>a, <3>1
    <3> QED
      BY <1>1, <2>1, <3>1, <3>2
  <2>2. CASE s # r
    <3>1. answer'[s] = answer[s] /\ claim'[s] = claim[s]
      BY <1>a, <1>c, <2>2
    <3> QED
      BY <1>d, <1>3, <3>1 DEF ToldIsRecorded
  <2> QED
    BY <2>1, <2>2
<1> QED
  BY <1>2, <1>4, <1>5, <1>6, <1>7, <1>8 DEF UsdcInv

LEMMA ConfirmKeepsInv ==
  ASSUME UsdcInv, NEW r \in Confirms, ConfirmStep(r)
  PROVE  UsdcInv'
PROOF
<1> USE TransferAssumption
<1>0. cpc[r] # "idle" => /\ claim[r].hash \in Hashes /\ claim[r].of \in Intents
                         /\ intent[claim[r].of].status # "none"
  BY DEF UsdcInv, ConfirmInv
<1>1. ASSUME NEW i \in Intents, NEW given \in Hashes \cup {NoHash}, Ask(r, i, given)
      PROVE  UsdcInv'
  <2> USE <1>1 DEF Ask, UsdcInv
  <2>1. UsdcTypeOK' /\ IntentInv' /\ PaymentInv' /\ CreditFitsIntent' /\ OpenAmountsDiffer'
    BY DEF UsdcTypeOK, Steps, IntentInv, PaymentInv, CreditFitsIntent, OpenAmountsDiffer
  <2>2. ConfirmInv'
    <3> DEFINE h == IF given = NoHash THEN intent[i].hash ELSE given
    <3>1. h \in Hashes /\ claim'[r].hash = h /\ claim'[r].of = i /\ intent[i].status # "none"
      BY DEF UsdcTypeOK
    <3>2. cpc'[r] \in {"asked", "late"}
      BY DEF UsdcTypeOK
    <3>3. \A q \in Confirms \ {r} : cpc'[q] = cpc[q] /\ claim'[q] = claim[q]
      BY DEF UsdcTypeOK
    <3>4. UNCHANGED <<chain, intent, payment, funded>> /\ ConfirmInv
      OBVIOUS
    <3> HIDE <1>1 DEF h, Ask, UsdcInv
    <3> QED
      BY <3>1, <3>2, <3>3, <3>4 DEF ConfirmInv, Matches
  <2>3. ToldIsRecorded'
    BY DEF ToldIsRecorded, UsdcTypeOK
  <2> QED
    BY <2>1, <2>2, <2>3
<1>2. ASSUME NEW i \in Intents, AskFinal(r, i) PROVE UsdcInv'
  <2> USE <1>2 DEF AskFinal, UsdcInv, NoClaim
  <2>1. UsdcTypeOK' /\ IntentInv' /\ PaymentInv' /\ CreditFitsIntent' /\ OpenAmountsDiffer'
    BY DEF UsdcTypeOK, IntentInv, PaymentInv, CreditFitsIntent, OpenAmountsDiffer
  <2>2. ConfirmInv'
    BY DEF ConfirmInv, UsdcTypeOK, Matches
  <2>3. ToldIsRecorded'
    BY DEF ToldIsRecorded, UsdcTypeOK, IntentInv
  <2> QED
    BY <2>1, <2>2, <2>3
<1>3. CASE LookUp(r)
  <2>1. CASE payment[claim[r].hash].status = "none"
    <3>1. GoTo(r, "new") \/ GoTo(r, "known")
      BY <1>3, <2>1 DEF LookUp
    <3> QED
      BY <1>3, <3>1, MoveKeepsInv DEF LookUp, Steps
  <2>2. CASE payment[claim[r].hash].status # "none"
    <3>1. Say(r, "confirmed") \/ Say(r, "rejected")
      BY <1>3, <2>2 DEF LookUp
    <3> QED
      BY <1>3, <2>2, <3>1, SayKeepsInv DEF LookUp
  <2> QED
    BY <2>1, <2>2
<1>4. CASE StoreHash(r)
  <2> DEFINE i == claim[r].of
  <2>1. i \in Intents /\ claim[r].hash \in Hashes /\ intent[i].status # "none"
    BY <1>0, <1>4 DEF StoreHash
  <2>2. intent' = [intent EXCEPT ![i].hash = claim[r].hash]
    BY <1>4 DEF StoreHash
  <2>3. intent' \in [Intents -> [status : {"none", "pending", "confirmed", "failed", "expired"},
                                 amount : Amounts \cup {0}, hash : Hashes \cup {NoHash}]]
    BY <2>1, <2>2 DEF UsdcInv, UsdcTypeOK
  <2>4. \A j \in Intents :
          intent'[j].amount = intent[j].amount /\ intent'[j].status = intent[j].status
    BY <2>1, <2>2 DEF UsdcInv, UsdcTypeOK
  <2>5. UsdcTypeOK'
    BY <1>4, <2>3 DEF StoreHash, GoTo, UsdcInv, UsdcTypeOK, Steps
  <2>6. IntentInv' /\ PaymentInv' /\ CreditFitsIntent' /\ OpenAmountsDiffer' /\ ToldIsRecorded'
    BY <1>4, <2>4 DEF StoreHash, GoTo, UsdcInv, IntentInv, PaymentInv, CreditFitsIntent,
       OpenAmountsDiffer, ToldIsRecorded
  <2>7. ConfirmInv'
    BY <1>4, <2>4 DEF StoreHash, GoTo, UsdcInv, UsdcTypeOK, ConfirmInv, Matches
  <2> QED
    BY <2>5, <2>6, <2>7 DEF UsdcInv
<1>5. CASE Verify(r)
  <2>1. PICK outcome \in Verifies(r) :
          IF outcome \in {"verified", "failed"} THEN GoTo(r, outcome) ELSE Say(r, outcome)
    BY <1>5 DEF Verify
  <2>2. /\ outcome = "verified" => chain[TxOf[claim[r].hash]] = "confirmed" /\ Matches(r)
        /\ outcome \in {"verified", "failed", "rejected", "pending"}
    BY <1>0, <1>5, <2>1 DEF Verifies, Verify, UsdcInv, UsdcTypeOK
  <2>3. CASE outcome \in {"verified", "failed"}
    BY <1>5, <2>1, <2>2, <2>3, MoveKeepsInv DEF Verify, Steps
  <2>4. CASE outcome \notin {"verified", "failed"}
    BY <1>5, <2>1, <2>2, <2>4, SayKeepsInv DEF Verify
  <2> QED
    BY <2>3, <2>4
<1>6. CASE MarkFailed(r)
  <2> DEFINE i == claim[r].of
  <2>1. i \in Intents /\ claim[r].hash \in Hashes /\ intent[i].status # "none"
    BY <1>0, <1>6 DEF MarkFailed
  <2>2. intent' = [intent EXCEPT ![i].status = "failed"]
    BY <1>6 DEF MarkFailed
  <2>3. intent' \in [Intents -> [status : {"none", "pending", "confirmed", "failed", "expired"},
                                 amount : Amounts \cup {0}, hash : Hashes \cup {NoHash}]]
    <3> DEFINE Rows == [status : {"none", "pending", "confirmed", "failed", "expired"},
                        amount : Amounts \cup {0}, hash : Hashes \cup {NoHash}]
               failed == [intent[i] EXCEPT !.status = "failed"]
    <3>1. intent \in [Intents -> Rows] /\ intent' = [intent EXCEPT ![i] = failed]
      BY <2>2 DEF UsdcInv, UsdcTypeOK
    <3>2. failed \in Rows
      BY <2>1, <3>1
    <3> HIDE DEF failed, Rows
    <3>3. intent' \in [Intents -> Rows]
      BY <2>1, <3>1, <3>2
    <3> QED BY <3>3 DEF Rows
  <2>4. \A j \in Intents :
          /\ intent'[j].amount = intent[j].amount
          /\ intent'[j].status = IF j = i THEN "failed" ELSE intent[j].status
    BY <2>1, <2>2 DEF UsdcInv, UsdcTypeOK
  <2>5. UsdcTypeOK'
    <3>1. claim' \in [Confirms -> [of : Intents \cup {"none"}, hash : Hashes \cup {NoHash},
                                   stored : Hashes \cup {NoHash}]]
      BY <1>6 DEF MarkFailed, Say, UsdcInv, UsdcTypeOK, NoClaim
    <3>2. cpc' \in [Confirms -> Steps] /\ answer' \in [Confirms -> {"none", "confirmed", "flagged"}]
      BY <1>6 DEF MarkFailed, Say, UsdcInv, UsdcTypeOK, Steps
    <3> QED
      BY <1>6, <2>3, <3>1, <3>2 DEF MarkFailed, UsdcInv, UsdcTypeOK
  <2>6. IntentInv' /\ PaymentInv' /\ CreditFitsIntent' /\ OpenAmountsDiffer'
    BY <1>6, <2>1, <2>4 DEF MarkFailed, UsdcInv, IntentInv, PaymentInv, CreditFitsIntent,
       OpenAmountsDiffer
  <2>7. ToldIsRecorded'
    BY <1>6 DEF MarkFailed, Say, UsdcInv, UsdcTypeOK, ToldIsRecorded
  <2>8. ConfirmInv'
    BY <1>6, <2>4 DEF MarkFailed, Say, UsdcInv, UsdcTypeOK, ConfirmInv, Matches
  <2> QED
    BY <2>5, <2>6, <2>7, <2>8 DEF UsdcInv
<1>7. CASE Record(r)
  <2>1. CASE payment[claim[r].hash].status # "none"
    BY <1>7, <2>1, SayKeepsInv DEF Record
  <2>2. CASE payment[claim[r].hash].status = "none"
    <3> DEFINE h == claim[r].hash
    <3> USE <1>7, <2>2 DEF Record, GoTo, UsdcInv
    <3>1. /\ h \in Hashes /\ claim[r].of \in Intents /\ intent[claim[r].of].status # "none"
          /\ chain[TxOf[h]] = "confirmed" /\ Matches(r)
      BY <1>0 DEF ConfirmInv
    <3>2. payment' = [payment EXCEPT ![h] = [status |-> "confirmed", of |-> claim[r].of]]
      OBVIOUS
    <3>3. \A g \in Hashes : payment[g].status # "none" => payment'[g] = payment[g]
      BY <3>2
    <3>4. UsdcTypeOK'
      BY <3>1, <3>2 DEF UsdcTypeOK, Steps
    <3>5. IntentInv' /\ PaymentInv' /\ CreditFitsIntent' /\ OpenAmountsDiffer'
      <4>1. IntentInv'
        BY <3>3 DEF IntentInv
      <4>2. PaymentInv'
        BY <3>1, <3>2 DEF PaymentInv, UsdcTypeOK
      <4>3. CreditFitsIntent' /\ OpenAmountsDiffer'
        BY <3>3 DEF CreditFitsIntent, OpenAmountsDiffer
      <4> QED
        BY <4>1, <4>2, <4>3
    <3>6. funded[h] = 0
      BY <3>1 DEF CreditFitsIntent
    <3>7. \A s \in Confirms : cpc[s] \in {"recorded", "marked"} => claim[s].hash # h
      <4> SUFFICES ASSUME NEW s \in Confirms, cpc[s] \in {"recorded", "marked"}
                   PROVE  claim[s].hash # h
        OBVIOUS
      <4>1. payment[claim[s].hash] = [status |-> "confirmed", of |-> claim[s].of]
        <5>1. ConfirmInv
          OBVIOUS
        <5> HIDE DEF UsdcInv, Record, GoTo
        <5> HIDE <1>7, <2>2
        <5> QED
          BY <5>1 DEF ConfirmInv
      <4>2. payment[claim[s].hash].status = "confirmed"
        BY ONLY <4>1
      <4> QED
        BY <4>2
    <3>8. ConfirmInv'
      <4> SUFFICES ASSUME NEW q \in Confirms, cpc'[q] # "idle"
                   PROVE  /\ claim[q].hash \in Hashes /\ claim[q].of \in Intents
                          /\ intent[claim[q].of].status # "none"
                          /\ cpc'[q] \in {"verified", "recorded", "marked"} =>
                               chain[TxOf[claim[q].hash]] = "confirmed" /\ Matches(q)
                          /\ cpc'[q] \in {"recorded", "marked"} =>
                               /\ payment'[claim[q].hash] =
                                    [status |-> "confirmed", of |-> claim[q].of]
                               /\ funded[claim[q].hash] = 0
                               /\ \A s \in Confirms \ {q} :
                                    cpc'[s] \in {"recorded", "marked"} =>
                                      claim[s].hash # claim[q].hash
        BY DEF ConfirmInv, Matches
      <4>1. CASE q = r
        BY <3>1, <3>2, <3>6, <3>7, <4>1 DEF UsdcTypeOK
      <4>2. CASE q # r
        <5>1. cpc'[q] = cpc[q]
          BY <4>2 DEF UsdcTypeOK
        <5>2. cpc[q] \in {"recorded", "marked"} =>
                payment'[claim[q].hash] = [status |-> "confirmed", of |-> claim[q].of]
          <6> SUFFICES ASSUME cpc[q] \in {"recorded", "marked"}
                       PROVE  payment'[claim[q].hash] = [status |-> "confirmed", of |-> claim[q].of]
            OBVIOUS
          <6>1. /\ claim[q].hash \in Hashes
                /\ payment[claim[q].hash] = [status |-> "confirmed", of |-> claim[q].of]
            <7>1. ConfirmInv
              OBVIOUS
            <7> HIDE DEF UsdcInv, Record, GoTo
            <7> HIDE <1>7, <2>2
            <7> QED
              BY <7>1 DEF ConfirmInv
          <6>2. payment[claim[q].hash].status # "none"
            BY ONLY <6>1
          <6> QED
            BY <3>3, <6>1, <6>2
        <5>3. /\ claim[q].hash \in Hashes /\ claim[q].of \in Intents
              /\ intent[claim[q].of].status # "none"
              /\ cpc[q] \in {"verified", "recorded", "marked"} =>
                   chain[TxOf[claim[q].hash]] = "confirmed" /\ Matches(q)
              /\ cpc[q] \in {"recorded", "marked"} => funded[claim[q].hash] = 0
          BY <5>1 DEF ConfirmInv
        <5>4. ASSUME cpc[q] \in {"recorded", "marked"}, NEW s \in Confirms \ {q},
                     cpc'[s] \in {"recorded", "marked"}
              PROVE  claim[s].hash # claim[q].hash
          <6>1. CASE s = r
            BY <3>7, <5>4, <6>1
          <6>2. CASE s # r
            <7>1. cpc'[s] = cpc[s]
              BY <6>2 DEF UsdcTypeOK
            <7> QED
              BY <5>4, <7>1 DEF ConfirmInv
          <6> QED
            BY <6>1, <6>2
        <5> QED
          BY <5>1, <5>2, <5>3, <5>4
      <4> QED
        BY <4>1, <4>2
    <3>9. ToldIsRecorded'
      BY <3>1, <3>2, <3>3 DEF ToldIsRecorded, UsdcTypeOK
    <3> QED
      BY <3>4, <3>5, <3>8, <3>9
  <2> QED
    BY <2>1, <2>2
<1>8. CASE MarkConfirmed(r)
  <2> DEFINE i == claim[r].of  h == claim[r].hash
  <2>1. /\ i \in Intents /\ h \in Hashes /\ intent[i].status # "none"
        /\ payment[h] = [status |-> "confirmed", of |-> i]
    BY <1>0, <1>8 DEF MarkConfirmed, UsdcInv, ConfirmInv
  <2>2. /\ intent' \in [Intents -> [status : {"none", "pending", "confirmed", "failed", "expired"},
                                    amount : Amounts \cup {0}, hash : Hashes \cup {NoHash}]]
        /\ \A j \in Intents : /\ intent'[j].amount = intent[j].amount
                              /\ intent'[j].status = IF j = i THEN "confirmed" ELSE intent[j].status
    BY <1>8, <2>1 DEF MarkConfirmed, UsdcInv, UsdcTypeOK
  <2>3. UNCHANGED <<chain, picked, payment, funded, claim, answer>>
    BY <1>8 DEF MarkConfirmed, GoTo
  <2>4. IntentInv' /\ PaymentInv' /\ OpenAmountsDiffer'
    BY <2>1, <2>2, <2>3 DEF UsdcInv, IntentInv, PaymentInv, OpenAmountsDiffer
  <2>5. UsdcTypeOK'
    BY <1>8, <2>2, <2>3 DEF MarkConfirmed, GoTo, UsdcInv, UsdcTypeOK, Steps
  <2>6. CreditFitsIntent' /\ ToldIsRecorded'
    BY <2>2, <2>3 DEF UsdcInv, PaymentInv, CreditFitsIntent, ToldIsRecorded
  <2>7. ConfirmInv'
    BY <1>8, <2>2, <2>3 DEF MarkConfirmed, GoTo, UsdcInv, UsdcTypeOK, ConfirmInv, Matches
  <2> QED
    BY <2>4, <2>5, <2>6, <2>7 DEF UsdcInv
<1>9. CASE Credit(r)
  <2> DEFINE h == claim[r].hash
  <2> USE <1>9 DEF Credit, Say, UsdcInv
  <2>1. /\ h \in Hashes /\ claim[r].of \in Intents /\ Matches(r) /\ funded[h] = 0
        /\ payment[h] = [status |-> "confirmed", of |-> claim[r].of]
    BY <1>0 DEF ConfirmInv
  <2>2. funded' = [funded EXCEPT ![h] = Transfer[TxOf[h]]] /\ Transfer[TxOf[h]] \in Nat
    <3>1. Transfer[TxOf[h]] \in Nat
      BY <2>1
    <3>2. funded[h] + Transfer[TxOf[h]] = Transfer[TxOf[h]]
      BY <2>1, <3>1
    <3> QED
      BY <3>1, <3>2
  <2>3. UsdcTypeOK'
    <3>1. funded' \in [Hashes -> Nat]
      BY <2>1, <2>2 DEF UsdcTypeOK
    <3>2. claim' \in [Confirms -> [of : Intents \cup {"none"}, hash : Hashes \cup {NoHash},
                                   stored : Hashes \cup {NoHash}]]
      <4>1. claim \in [Confirms -> [of : Intents \cup {"none"}, hash : Hashes \cup {NoHash},
                                    stored : Hashes \cup {NoHash}]]
        BY DEF UsdcTypeOK
      <4>2. claim' = [claim EXCEPT ![r].stored = NoHash]
        OBVIOUS
      <4> QED
        BY ONLY <4>1, <4>2
    <3>3. cpc' \in [Confirms -> Steps] /\ answer' \in [Confirms -> {"none", "confirmed", "flagged"}]
      BY DEF UsdcTypeOK, Steps
    <3> QED
      BY <3>1, <3>2, <3>3 DEF UsdcTypeOK
  <2>4. IntentInv' /\ PaymentInv' /\ OpenAmountsDiffer'
    BY DEF IntentInv, PaymentInv, OpenAmountsDiffer
  <2>5. CreditFitsIntent'
    BY <2>1, <2>2 DEF CreditFitsIntent, Matches, UsdcTypeOK
  <2>6. ConfirmInv'
    <3>1. \A s \in Confirms \ {r} : cpc[s] \in {"recorded", "marked"} => claim[s].hash # h
      BY DEF ConfirmInv
    <3>2. \A s \in Confirms : cpc'[s] # "idle" =>
            s # r /\ cpc'[s] = cpc[s] /\ claim'[s] = claim[s]
      BY DEF UsdcTypeOK
    <3> QED
      BY <2>2, <3>1, <3>2 DEF ConfirmInv, Matches, UsdcTypeOK
  <2>7. ToldIsRecorded'
    BY <2>1 DEF ToldIsRecorded, UsdcTypeOK
  <2> QED
    BY <2>3, <2>4, <2>5, <2>6, <2>7
<1>10. CASE VerifyLate(r)
  <2>1. PICK outcome \in Verifies(r) :
          IF outcome = "verified" THEN GoTo(r, "found") ELSE Say(r, "expired")
    BY <1>10 DEF VerifyLate
  <2> QED
    BY <1>10, <2>1, MoveKeepsInv, SayKeepsInv DEF VerifyLate, Steps
<1>11. CASE RecordLate(r)
  <2>1. claim[r].hash \in Hashes
    BY <1>0, <1>11 DEF RecordLate
  <2>2. payment'[claim[r].hash].status # "none"
    BY <1>11, <2>1 DEF RecordLate, UsdcInv, UsdcTypeOK
  <2> QED
    BY <1>11, <2>2, SayKeepsInv DEF RecordLate
<1>12. CASE CrashConfirm(r)
  BY <1>12, SayKeepsInv DEF CrashConfirm
<1> QED
  BY <1>1, <1>2, <1>3, <1>4, <1>5, <1>6, <1>7, <1>8, <1>9, <1>10, <1>11, <1>12 DEF ConfirmStep

LEMMA UsdcInvStep == UsdcInv /\ [UsdcNext]_usdcVars => UsdcInv'
PROOF
<1> SUFFICES ASSUME UsdcInv, [UsdcNext]_usdcVars PROVE UsdcInv'
  OBVIOUS
<1>1. CASE UNCHANGED usdcVars
  BY <1>1 DEF usdcVars, UsdcInv, UsdcTypeOK, IntentInv, ConfirmInv, PaymentInv, Matches,
     CreditFitsIntent, OpenAmountsDiffer, ToldIsRecorded
<1> QED
  BY <1>1, ChainKeepsInv, IntentKeepsInv, ConfirmKeepsInv DEF UsdcNext

---------------------------------------------------------------------------
THEOREM UsdcInvariant == UsdcSpec => []UsdcInv
<1> QED
  BY UsdcInvInit, UsdcInvStep, PTL DEF UsdcSpec

(* Every variable keeps its type. *)
THEOREM UsdcTyped == UsdcSpec => []UsdcTypeOK
<1>1. UsdcInv => UsdcTypeOK
  BY DEF UsdcInv
<1> QED
  BY <1>1, UsdcInvariant, PTL

(* A credited transfer is the one its intent's customer was told to make,
   and its row is confirmed: a late transfer is never credited (service.ts,
   confirmUsdcTopup, handleLateUsdcConfirm). *)
THEOREM CreditFits == UsdcSpec => []CreditFitsIntent
<1>1. UsdcInv => CreditFitsIntent
  BY DEF UsdcInv
<1> QED
  BY <1>1, UsdcInvariant, PTL

(* Open intents have different amounts (usdcTopup.ts,
   pickUniqueUsdcAmount, and the unique index behind it). *)
THEOREM AmountsDiffer == UsdcSpec => []OpenAmountsDiffer
<1>1. UsdcInv => OpenAmountsDiffer
  BY DEF UsdcInv
<1> QED
  BY <1>1, UsdcInvariant, PTL

(* A customer who is told that a top-up is confirmed or flagged has a row on
   record (service.ts, confirmUsdcTopup, handleLateUsdcConfirm). *)
THEOREM ToldRecorded == UsdcSpec => []ToldIsRecorded
<1>1. UsdcInv => ToldIsRecorded
  BY DEF UsdcInv
<1> QED
  BY <1>1, UsdcInvariant, PTL

---------------------------------------------------------------------------
\* What one row was credited with, whatever else names its transaction.
RowCreditedOnce ==
  \A h \in Hashes : funded[h] # 0 =>
    funded[h] = Transfer[TxOf[h]] /\ chain[TxOf[h]] = "confirmed"

(* Each submitted spelling is credited at most once, with what its transaction
   moved, and only once the chain confirms it: what the lookup and the index by
   string do achieve (service.ts:240, schema.ts:62), without any hypothesis. *)
THEOREM SpellingCredited == UsdcSpec => []RowCreditedOnce
<1>1. UsdcInit => RowCreditedOnce
  BY DEF UsdcInit, RowCreditedOnce
<1>2. ASSUME UsdcInv, RowCreditedOnce, [UsdcNext]_usdcVars PROVE RowCreditedOnce'
  <2> USE <1>2, TransferAssumption
  <2>1. ASSUME NEW t \in Transactions, Broadcast(t) \/ Settle(t) PROVE RowCreditedOnce'
    BY <2>1 DEF Broadcast, Settle, RowCreditedOnce, UsdcInv, UsdcTypeOK
  <2>2. ASSUME NEW r \in Confirms, Credit(r) PROVE RowCreditedOnce'
    <3>1. /\ claim[r].hash \in Hashes /\ chain[TxOf[claim[r].hash]] = "confirmed"
          /\ funded[claim[r].hash] = 0
      BY <2>2 DEF Credit, UsdcInv, ConfirmInv
    <3>2. funded[claim[r].hash] + Transfer[TxOf[claim[r].hash]] = Transfer[TxOf[claim[r].hash]]
      BY <3>1
    <3> QED
      BY <2>2, <3>1, <3>2 DEF Credit, RowCreditedOnce, UsdcInv, UsdcTypeOK
  <2>3. ASSUME UNCHANGED <<chain, funded>> PROVE RowCreditedOnce'
    BY <2>3 DEF RowCreditedOnce
  <2>4. ASSUME NEW r \in Confirms, ConfirmStep(r), ~Credit(r) PROVE UNCHANGED <<chain, funded>>
    BY <2>4 DEF ConfirmStep, Ask, AskFinal, LookUp, StoreHash, Verify, MarkFailed, Record,
       MarkConfirmed, VerifyLate, RecordLate, CrashConfirm
  <2>5. ASSUME NEW i \in Intents,
               (\E a \in Amounts : PickAmount(i, a)) \/ CreateIntent(i) \/ ExpireIntent(i)
        PROVE  UNCHANGED <<chain, funded>>
    BY <2>5 DEF PickAmount, CreateIntent, ExpireIntent
  <2>6. CASE UNCHANGED usdcVars
    BY <2>3, <2>6 DEF usdcVars
  <2> QED
    BY <2>1, <2>2, <2>3, <2>4, <2>5, <2>6 DEF UsdcNext
<1> QED
  BY <1>1, <1>2, UsdcInvariant, PTL DEF UsdcSpec

---------------------------------------------------------------------------
\* With one spelling the credit of a transaction is that of its only row.
LEMMA CreditOfSpelling ==
  ASSUME OneSpelling, NEW f \in [Hashes -> Nat]
  PROVE  /\ \A h \in Hashes :
              SumFunctionOnSet(f, {g \in Hashes : TxOf[g] = TxOf[h]}) = f[h]
         /\ \A t \in Transactions : (\A h \in Hashes : TxOf[h] # t) =>
              SumFunctionOnSet(f, {g \in Hashes : TxOf[g] = t}) = 0
PROOF
<1>1. ASSUME NEW h \in Hashes
      PROVE  SumFunctionOnSet(f, {g \in Hashes : TxOf[g] = TxOf[h]}) = f[h]
  <2>1. {g \in Hashes : TxOf[g] = TxOf[h]} = {} \cup {h}
    BY DEF OneSpelling
  <2>2. IsFiniteSet({}) /\ f[h] \in Int
    BY FS_EmptySet
  <2>3. SumFunctionOnSet(f, {} \cup {h}) = SumFunctionOnSet(f, {}) + f[h]
    BY <2>2, SumAdd
  <2> QED
    BY <2>1, <2>2, <2>3, SumEmpty
<1>2. ASSUME NEW t \in Transactions, \A h \in Hashes : TxOf[h] # t
      PROVE  SumFunctionOnSet(f, {g \in Hashes : TxOf[g] = t}) = 0
  <2>1. {g \in Hashes : TxOf[g] = t} = {}
    BY <1>2
  <2> QED
    BY <2>1, SumEmpty
<1> QED
  BY <1>1, <1>2

LEMMA DepositInit ==
  ASSUME OneSpelling, UsdcInit
  PROVE  Deposit!Init
PROOF
<1>1. funded \in [Hashes -> Nat] /\ \A h \in Hashes : funded[h] = 0
  BY DEF UsdcInit
<1>2. \A t \in Transactions : CreditedFor(t) = 0
  BY <1>1, CreditOfSpelling DEF CreditedFor
<1> QED
  BY <1>2 DEF UsdcInit, Deposit!Init, UsdcCredited

\* Only the chain adds a received transfer, only Credit a credit.
LEMMA DepositStep ==
  ASSUME OneSpelling, UsdcInv, UsdcInv', [UsdcNext]_usdcVars
  PROVE  [Deposit!Next]_<<{t \in Transactions : chain[t] = "confirmed"}, UsdcCredited>>
PROOF
<1> DEFINE Received == {t \in Transactions : chain[t] = "confirmed"}
<1>0. ASSUME UNCHANGED funded PROVE UNCHANGED UsdcCredited
  BY <1>0 DEF UsdcCredited, CreditedFor
<1>1. ASSUME NEW t \in Transactions, Settle(t) PROVE Deposit!Receive(t)
  <2>1. Received' = Received \cup {t}
    BY <1>1 DEF Settle, UsdcInv, UsdcTypeOK
  <2> QED
    BY <1>0, <1>1, <2>1 DEF Deposit!Receive, Settle, UsdcCredited
<1>2. ASSUME NEW t \in Transactions, Broadcast(t) PROVE UNCHANGED <<Received, UsdcCredited>>
  BY <1>0, <1>2 DEF Broadcast, UsdcInv, UsdcTypeOK
<1>3. ASSUME NEW r \in Confirms, Credit(r)
      PROVE  TxOf[claim[r].hash] \in Transactions /\ Deposit!Credit(TxOf[claim[r].hash])
  <2> DEFINE h == claim[r].hash  t == TxOf[h]
  <2>1. h \in Hashes /\ chain[t] = "confirmed" /\ funded[h] = 0
    BY <1>3 DEF Credit, UsdcInv, ConfirmInv
  <2>2. t \in Transactions /\ Transfer[t] \in Nat
    BY <2>1, TransferAssumption
  <2>3. funded \in [Hashes -> Nat] /\ funded' \in [Hashes -> Nat]
    BY DEF UsdcInv, UsdcTypeOK
  <2>4. funded' = [funded EXCEPT ![h] = Transfer[t]]
    <3>1. funded[h] + Transfer[t] = Transfer[t]
      BY <2>1, <2>2
    <3> QED
      BY <1>3, <3>1 DEF Credit
  <2>5. \A g \in Hashes : CreditedFor(TxOf[g]) = funded[g] /\ CreditedFor(TxOf[g])' = funded'[g]
    BY <2>3, CreditOfSpelling DEF CreditedFor
  <2>6. \A u \in Transactions : (\A g \in Hashes : TxOf[g] # u) =>
          CreditedFor(u) = 0 /\ CreditedFor(u)' = 0
    BY <2>3, CreditOfSpelling DEF CreditedFor
  <2>7. ASSUME NEW u \in Transactions
        PROVE  CreditedFor(u)' = IF u = t THEN Transfer[t] ELSE CreditedFor(u)
    <3>1. CASE \A g \in Hashes : TxOf[g] # u
      BY <2>1, <2>6, <3>1
    <3>2. ASSUME NEW g \in Hashes, TxOf[g] = u
          PROVE  CreditedFor(u)' = IF u = t THEN Transfer[t] ELSE CreditedFor(u)
      <4>1. CASE g = h
        BY <2>1, <2>3, <2>4, <2>5, <3>2, <4>1
      <4>2. CASE g # h
        <5>1. u # t /\ funded'[g] = funded[g]
          BY <2>1, <2>3, <2>4, <3>2, <4>2 DEF OneSpelling
        <5> QED
          BY <2>5, <3>2, <5>1
      <4> QED
        BY <4>1, <4>2
    <3> QED
      BY <3>1, <3>2
  <2>8. UsdcCredited' = [UsdcCredited EXCEPT ![t] = Transfer[t]]
    BY <2>2, <2>7 DEF UsdcCredited
  <2>9. UsdcCredited[t] = 0 /\ t \in Received /\ Received' = Received
    BY <1>3, <2>1, <2>2, <2>5 DEF UsdcCredited, Credit
  <2> QED
    BY <2>2, <2>8, <2>9 DEF Deposit!Credit, UsdcCredited
<1>4. ASSUME NEW r \in Confirms, ConfirmStep(r), ~Credit(r) PROVE UNCHANGED <<Received, UsdcCredited>>
  <2>1. UNCHANGED <<chain, funded>>
    BY <1>4 DEF ConfirmStep, Ask, AskFinal, LookUp, StoreHash, Verify, MarkFailed, Record,
       MarkConfirmed, VerifyLate, RecordLate, CrashConfirm
  <2> QED
    BY <1>0, <2>1
<1>5. ASSUME NEW i \in Intents,
             (\E a \in Amounts : PickAmount(i, a)) \/ CreateIntent(i) \/ ExpireIntent(i)
      PROVE  UNCHANGED <<Received, UsdcCredited>>
  BY <1>0, <1>5 DEF PickAmount, CreateIntent, ExpireIntent
<1>6. CASE UNCHANGED usdcVars
  BY <1>0, <1>6 DEF usdcVars, UsdcCredited
<1> QED
  BY <1>1, <1>2, <1>3, <1>4, <1>5, <1>6 DEF UsdcNext, Deposit!Next, UsdcCredited

(* If no transaction is submitted in two spellings, USDC top-ups implement the
   promise of PaymentCredit: a transfer is credited only once the chain
   confirms it, once, with what it moved.  The code does not see to that
   hypothesis (service.ts:235, usdcTopup.ts:112): without it the promise
   fails. *)
THEOREM UsdcImplementsCredit == OneSpelling => (UsdcSpec => TransfersAreCreditedOnce)
<1> SUFFICES ASSUME OneSpelling PROVE UsdcSpec => TransfersAreCreditedOnce
  OBVIOUS
<1>1. UsdcInit => Deposit!Init
  BY DepositInit
<1>2. UsdcInv /\ UsdcInv' /\ [UsdcNext]_usdcVars =>
        [Deposit!Next]_<<{t \in Transactions : chain[t] = "confirmed"}, UsdcCredited>>
  BY DepositStep
<1> QED
  BY <1>1, <1>2, UsdcInvariant, PTL
  DEF UsdcSpec, TransfersAreCreditedOnce, Deposit!Spec
=============================================================================

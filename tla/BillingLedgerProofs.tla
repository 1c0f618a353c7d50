------------------------ MODULE BillingLedgerProofs ------------------------
(***************************************************************************)
(* Proofs about BillingLedger for every set of calls, keys, prices, plans  *)
(* and top-ups.                                                            *)
(*                                                                         *)
(*   TypeCorrect         the type invariant                                *)
(*   RefundedOnce        a charge has at most one refund row               *)
(*   LedgerSums          the balance is the sum of the ledger rows         *)
(*   BalanceEarned       ... and what came in once less what is charged    *)
(*   AllowanceMatches    the usage of a period is what its charges took    *)
(*   SpendLimited        what is spent in a period stays in its limit      *)
(*   ReplaysAreFaithful  a replay serves the result of its request         *)
(*   AtMostOnce          no key is charged twice, if no capability         *)
(*                       outlives the reservation TTL (SlowCalls = {})     *)
(*   KeysOwnTheirCharge  if so, a key's row points to its live charge      *)
(*   WalletRefinement    if so, every step is a step of PrepaidWallet      *)
(***************************************************************************)
EXTENDS BillingLedger, SequenceTheorems, SumTheorems, TLAPS

---------------------------------------------------------------------------
(* Types.                                                                  *)

\* The start of a period is a natural number.
LEMMA PeriodIsNat ==
  ASSUME TypeOK, NEW s \in DOMAIN subs, NEW t \in Days
  PROVE  PeriodOf(s, t) \in Nat
PROOF
<1> DEFINE a == subs[s].anchor
           q == (t - a) \div MonthLen
<1>1. s \in 1 .. Len(subs) /\ subs \in Seq(SubRows)
  BY LenProperties DEF TypeOK
<1>2. subs[s] \in SubRows
  BY <1>1, ElementOfSeq
<1>3. a \in Nat /\ t \in Nat /\ MonthLen \in Nat /\ MonthLen > 0
  BY <1>2, FundsAssumption DEF SubRows, Days
<1>4. CASE t < a
  BY <1>3, <1>4 DEF PeriodOf
<1>5. CASE ~(t < a)
  <2>1. t - a \in Nat
    BY <1>3, <1>5
  <2>2. q \in Nat
    BY <2>1, <1>3
  <2>3. MonthLen * q \in Nat
    BY <2>2, <1>3
  <2> QED
    BY <2>3, <1>3, <1>5 DEF PeriodOf
<1> QED
  BY <1>4, <1>5

\* Cancelling keeps the subscriptions a sequence of the same length.
LEMMA CanceledIsSeq ==
  ASSUME TypeOK
  PROVE  Canceled \in Seq(SubRows) /\ Len(Canceled) = Len(subs)
PROOF
<1>1. subs \in Seq(SubRows) /\ DOMAIN subs = 1 .. Len(subs) /\ Len(subs) \in Nat
  BY LenProperties DEF TypeOK
<1>2. \A s \in 1 .. Len(subs) : subs[s] \in SubRows
  BY <1>1, ElementOfSeq
<1>3. Canceled \in [1 .. Len(subs) -> SubRows]
  BY <1>1, <1>2 DEF Canceled, SubRows
<1>4. Canceled \in Seq(SubRows)
  BY <1>1, <1>3, SeqDef
<1>5. DOMAIN Canceled = 1 .. Len(subs)
  BY <1>3
<1> QED
  BY <1>1, <1>4, <1>5, LenProperties

\* Writing the row of a call's key keeps the rows typed.
LEMMA SetRowTyped ==
  ASSUME TypeOK, NEW c \in Calls, NEW entry \in Calls \cup {NoCall},
         NEW status \in {"absent", "in_progress", "completed", "failed"},
         SetRow(c, status, entry)
  PROVE  idem' \in [Keys -> KeyRows]
PROOF
<1>1. [status |-> status, body |-> BodyOf[c], entry |-> entry] \in KeyRows
  BY DEF KeyRows
<1> QED
  BY <1>1 DEF SetRow, TypeOK

\* Changing the status of a row keeps it a row.
LEMMA StatusTyped ==
  /\ \A r \in ChargeRows, v \in Statuses : [r EXCEPT !.status = v] \in ChargeRows
  /\ \A r \in KeyRows : [r EXCEPT !.status = "failed"] \in KeyRows
PROOF
BY DEF ChargeRows, KeyRows, Statuses

LEMMA TypeInit == Init => TypeOK
PROOF
<1> SUFFICES ASSUME Init PROVE TypeOK
  OBVIOUS
<1>1. subs \in Seq(SubRows) /\ Len(subs) = 0
  BY EmptySeq DEF Init
<1>2. usage \in [SubIds \X Days -> UsageRows]
  BY DEF Init, UsageRows, NoUsage
<1>3. charge \in [Calls -> ChargeRows] /\ refunds \in [Calls -> Nat]
  BY DEF Init, ChargeRows, NoCharge, Statuses
<1>4. idem \in [Keys -> KeyRows]
  BY DEF Init, KeyRows, NoRow
<1>5. pc \in [Calls -> CallStates] /\ now \in Days /\ at \in [Calls -> Days]
  BY FundsAssumption DEF Init, CallStates, Days
<1> QED
  BY <1>1, <1>2, <1>3, <1>4, <1>5, FundsAssumption DEF Init, TypeOK

\* Credits are reserved only where the balance covers them.
LEMMA CreditsCover ==
  ASSUME NEW c \in Calls, ReserveCredits(c)
  PROVE  balance >= PriceOf[c]
PROOF
BY DEF ReserveCredits, Pays, CanPay

\* A refund keeps the account, the allowances and the charges typed.
LEMMA RefundTyped ==
  ASSUME TypeOK, NEW c \in Calls, Refund(c)
  PROVE  /\ balance' \in Nat
         /\ refunds' \in [Calls -> Nat]
         /\ usage' \in [SubIds \X Days -> UsageRows]
         /\ charge' \in [Calls -> ChargeRows]
PROOF
<1>1. balance' \in Nat
  <2>1. balance' = IF charge[c].rail = "api_credits" THEN balance + PriceOf[c] ELSE balance
    BY DEF Refund
  <2>2. balance \in Nat /\ PriceOf[c] \in Nat
    BY CallsAssumption DEF TypeOK
  <2> QED
    BY <2>1, <2>2
<1>2. refunds' \in [Calls -> Nat]
  BY DEF TypeOK, Refund
<1>5. charge' \in [Calls -> ChargeRows]
  BY StatusTyped DEF TypeOK, Refund, Statuses
<1>3. \A u \in UsageRows :
        [micros |-> IF u.micros >= PriceOf[c] THEN u.micros - PriceOf[c] ELSE 0,
         calls |-> IF u.calls >= 1 THEN u.calls - 1 ELSE 0] \in UsageRows
  BY CallsAssumption DEF UsageRows
<1>4. usage' \in [SubIds \X Days -> UsageRows]
  BY <1>3 DEF TypeOK, Refund
<1> QED
  BY <1>1, <1>2, <1>4, <1>5

LEMMA TypeNext == TypeOK /\ [Next]_vars => TypeOK'
PROOF
<1> SUFFICES ASSUME TypeOK, [Next]_vars PROVE TypeOK'
  OBVIOUS
<1> USE CallsAssumption, FundsAssumption DEF TypeOK, CallStates
<1>1. ASSUME NEW c \in Calls, Authenticate(c) PROVE TypeOK'
  <2>1. pc' \in [Calls -> CallStates] /\ at' \in [Calls -> Days]
    <3>1. \/ pc' = [pc EXCEPT ![c] = "authenticated"] /\ at' = [at EXCEPT ![c] = now]
          \/ pc' = [pc EXCEPT ![c] = "refused"] /\ at' = at
      BY <1>1 DEF Authenticate
    <3>2. CASE pc' = [pc EXCEPT ![c] = "authenticated"] /\ at' = [at EXCEPT ![c] = now]
      BY <3>2
    <3>3. CASE pc' = [pc EXCEPT ![c] = "refused"] /\ at' = at
      BY <3>3
    <3> QED
      BY <3>1, <3>2, <3>3
  <2> QED
    BY <1>1, <2>1 DEF Authenticate, account, money
<1>2. ASSUME NEW c \in Calls, AuthorizeFree(c) PROVE TypeOK'
  BY <1>2 DEF AuthorizeFree, account, money
<1>3. ASSUME NEW c \in Calls, ReserveRefused(c) PROVE TypeOK'
  BY <1>3 DEF ReserveRefused, account, money
<1>4. ASSUME NEW c \in Calls, ReserveReplay(c) PROVE TypeOK'
  <2>1. Row(c) \in KeyRows
    BY <1>4 DEF ReserveReplay, Keyed, Row
  <2>2. Row(c).entry \in Calls \cup {NoCall}
    BY <2>1 DEF KeyRows
  <2> QED
    BY <1>4, <2>2 DEF ReserveReplay, account, money
<1>5. ASSUME NEW c \in Calls, ReserveUnfunded(c) PROVE TypeOK'
  <2>1. idem' \in [Keys -> KeyRows]
    BY <1>5, SetRowTyped DEF ReserveUnfunded
  <2> QED
    BY <1>5, <2>1 DEF ReserveUnfunded, account, money
<1>6. ASSUME NEW c \in Calls, ReserveAllowance(c) PROVE TypeOK'
  <2>1. PICK s \in ActiveSubs :
          /\ usage' = [usage EXCEPT ![<<s, PeriodOf(s, at[c])>>] =
                         [micros |-> @.micros + PriceOf[c], calls |-> @.calls + 1]]
          /\ charge' = [charge EXCEPT ![c] =
                          [status |-> "pending", rail |-> "subscription",
                           sub |-> s, period |-> PeriodOf(s, at[c]), at |-> at[c]]]
    BY <1>6 DEF ReserveAllowance
  <2>2. PeriodOf(s, at[c]) \in Nat /\ s \in Nat
    BY PeriodIsNat, LenProperties DEF ActiveSubs
  <2>3. charge' \in [Calls -> ChargeRows]
    BY <2>1, <2>2 DEF Days, ChargeRows, Statuses
  <2>4. \A u \in UsageRows :
          [micros |-> u.micros + PriceOf[c], calls |-> u.calls + 1] \in UsageRows
    BY DEF UsageRows
  <2>5. usage' \in [SubIds \X Days -> UsageRows]
    BY <2>1, <2>4
  <2>6. idem' \in [Keys -> KeyRows]
    BY <1>6, SetRowTyped DEF ReserveAllowance
  <2> QED
    BY <1>6, <2>3, <2>5, <2>6 DEF ReserveAllowance, account
<1>7. ASSUME NEW c \in Calls, ReserveCredits(c) PROVE TypeOK'
  <2>1. balance' \in Nat
    <3>1. balance' = balance - PriceOf[c]
      BY <1>7 DEF ReserveCredits
    <3>2. balance >= PriceOf[c]
      BY <1>7, CreditsCover
    <3>3. balance \in Nat /\ PriceOf[c] \in Nat
      BY CallsAssumption DEF TypeOK
    <3> QED
      BY <3>1, <3>2, <3>3
  <2>2. charge' \in [Calls -> ChargeRows]
    BY <1>7 DEF ReserveCredits, Days, ChargeRows, Statuses
  <2>3. idem' \in [Keys -> KeyRows]
    BY <1>7, SetRowTyped DEF ReserveCredits
  <2> QED
    BY <1>7, <2>1, <2>2, <2>3 DEF ReserveCredits, account
<1>8. ASSUME NEW c \in Calls, Settle(c) PROVE TypeOK'
  <2>1. charge' \in [Calls -> ChargeRows]
    <3>1. charge' = charge \/ charge' = [charge EXCEPT ![c].status = "settled"]
      BY <1>8 DEF Settle, SettleEntry
    <3>2. CASE charge' = [charge EXCEPT ![c].status = "settled"]
      BY <3>2, StatusTyped DEF Statuses
    <3> QED
      BY <3>1, <3>2
  <2>2. idem' \in [Keys -> KeyRows]
    BY <1>8, SetRowTyped DEF Settle
  <2> QED
    BY <1>8, <2>1, <2>2 DEF Settle, account
<1>9. ASSUME NEW c \in Calls, SettleLost(c) PROVE TypeOK'
  BY <1>9 DEF SettleLost, account, money
<1>10. ASSUME NEW c \in Calls, Release(c) PROVE TypeOK'
  <2>1. idem' \in [Keys -> KeyRows]
    <3>1. \/ idem' = idem
          \/ KeyOf[c] \in Keys /\ idem' = [idem EXCEPT ![KeyOf[c]].status = "failed"]
      BY <1>10 DEF Release, Keyed
    <3>2. CASE KeyOf[c] \in Keys /\ idem' = [idem EXCEPT ![KeyOf[c]].status = "failed"]
      BY <3>2, StatusTyped
    <3> QED
      BY <3>1, <3>2
  <2>2. CASE UNCHANGED money
    BY <1>10, <2>1, <2>2 DEF Release, account, money
  <2>3. CASE Refund(c)
    BY <1>10, <2>1, <2>3, RefundTyped DEF Release, account
  <2> QED
    BY <1>10, <2>2, <2>3 DEF Release, ReleaseEntry, money
<1>11. ASSUME NEW c \in Calls, ReleaseLost(c) PROVE TypeOK'
  BY <1>11 DEF ReleaseLost, account, money
<1>12. ASSUME NEW c \in Calls, Crash(c) PROVE TypeOK'
  BY <1>12 DEF Crash, account, money
<1>13. ASSUME NEW c \in Calls, ReleaseStale(c) PROVE TypeOK'
  <2>1. idem' \in [Keys -> KeyRows]
    BY <1>13, StatusTyped DEF ReleaseStale
  <2> QED
    BY <1>13, <2>1, RefundTyped DEF ReleaseStale, account
<1>14. ASSUME NEW t \in TopUps, ApplyCredit(t) PROVE TypeOK'
  BY <1>14 DEF ApplyCredit
<1>15. ASSUME NEW p \in Plans, AssignSubscription(p) PROVE TypeOK'
  <2> DEFINE new == [plan |-> p, status |-> "active", anchor |-> now]
  <2>1. new \in SubRows
    BY DEF SubRows
  <2>2. Append(Canceled, new) \in Seq(SubRows) /\ Len(Append(Canceled, new)) = Len(subs) + 1
    BY <2>1, CanceledIsSeq, AppendProperties
  <2> QED
    BY <1>15, <2>2, LenProperties DEF AssignSubscription, money
<1>16. ASSUME CancelSubscription PROVE TypeOK'
  BY <1>16, CanceledIsSeq DEF CancelSubscription, money
<1>17. ASSUME SetAccountStatus PROVE TypeOK'
  BY <1>17 DEF SetAccountStatus, money
<1>18. ASSUME NEW a \in Agents, RevokeKey(a) PROVE TypeOK'
  BY <1>18 DEF RevokeKey, money
<1>19. ASSUME NextDay PROVE TypeOK'
  BY <1>19 DEF NextDay, account, money, Days
<1>20. ASSUME UNCHANGED vars PROVE TypeOK'
  BY <1>20 DEF vars
<1> QED
  BY <1>1, <1>2, <1>3, <1>4, <1>5, <1>6, <1>7, <1>8, <1>9, <1>10, <1>11, <1>12, <1>13,
     <1>14, <1>15, <1>16, <1>17, <1>18, <1>19, <1>20 DEF Next, Finish

(* Every row and every call state of the ledger keeps its type; above all
   the balance and the allowance counters never become negative. *)
THEOREM TypeCorrect == Spec => []TypeOK
PROOF
BY TypeInit, TypeNext, PTL DEF Spec

---------------------------------------------------------------------------
(* Refunds.                                                                *)

\* A call has no ledger row before it reserves.
Unreserved ==
  \A c \in Calls : pc[c] \in {"idle", "authenticated"} => charge[c].status = "none"

\* What a step may do to the charges and refund rows: nothing, or one call
\* reserves, settles or is refunded.
ChargeStep(c) ==
  \/ /\ pc[c] = "authenticated" /\ pc'[c] = "executing"
     /\ charge'[c].status = "pending"
     /\ \A d \in Calls \ {c} : charge'[d] = charge[d] /\ pc'[d] = pc[d]
     /\ refunds' = refunds
  \/ /\ charge[c].status = "pending" /\ charge'[c].status = "settled"
     /\ \A d \in Calls \ {c} : charge'[d] = charge[d]
     /\ \A d \in Calls : pc'[d] \in {"idle", "authenticated"} => pc'[d] = pc[d]
     /\ refunds' = refunds
  \/ /\ charge[c].status = "pending" /\ charge'[c].status = "refunded"
     /\ \A d \in Calls \ {c} : charge'[d] = charge[d]
     /\ \A d \in Calls : pc'[d] \in {"idle", "authenticated"} => pc'[d] = pc[d]
     /\ refunds' = [refunds EXCEPT ![c] = @ + 1]

QuietStep ==
  /\ charge' = charge /\ refunds' = refunds
  /\ \A d \in Calls : pc'[d] \in {"idle", "authenticated"} =>
                        pc[d] \in {"idle", "authenticated"}

\* Every step is quiet or the charge step of one call.
LEMMA StepsOfCharges ==
  ASSUME TypeOK, [Next]_vars
  PROVE  QuietStep \/ \E c \in Calls : ChargeStep(c)
PROOF
<1> USE DEF TypeOK, money, account
<1>1. ASSUME NEW c \in Calls, Authenticate(c) PROVE QuietStep
  BY <1>1 DEF Authenticate, QuietStep
<1>2. ASSUME NEW c \in Calls,
             AuthorizeFree(c) \/ ReserveRefused(c) \/ ReserveReplay(c) \/ ReserveUnfunded(c)
      PROVE QuietStep
  BY <1>2 DEF AuthorizeFree, ReserveRefused, ReserveReplay, ReserveUnfunded, Reserving, QuietStep
<1>3. ASSUME NEW c \in Calls, ReserveAllowance(c) PROVE ChargeStep(c)
  <2>1. /\ pc[c] = "authenticated" /\ pc' = [pc EXCEPT ![c] = "executing"]
        /\ refunds' = refunds
        /\ \E s \in ActiveSubs : charge' = [charge EXCEPT ![c] =
             [status |-> "pending", rail |-> "subscription", sub |-> s,
              period |-> PeriodOf(s, at[c]), at |-> at[c]]]
    BY <1>3 DEF ReserveAllowance, Reserving
  <2> QED
    BY <2>1 DEF ChargeStep
<1>4. ASSUME NEW c \in Calls, ReserveCredits(c) PROVE ChargeStep(c)
  BY <1>4 DEF ReserveCredits, Reserving, ChargeStep
<1>5. ASSUME NEW c \in Calls, Settle(c) PROVE QuietStep \/ ChargeStep(c)
  <2>1. pc' = [pc EXCEPT ![c] = "delivered"] /\ refunds' = refunds
    BY <1>5 DEF Settle
  <2>2. CASE charge' = charge
    BY <2>1, <2>2 DEF QuietStep
  <2>3. CASE charge[c].status = "pending" /\ charge' = [charge EXCEPT ![c].status = "settled"]
    <3>1. charge'[c].status = "settled"
      BY <2>3 DEF ChargeRows
    <3> QED
      BY <2>1, <2>3, <3>1 DEF ChargeStep
  <2> QED
    BY <1>5, <2>2, <2>3 DEF Settle, SettleEntry
<1>6. ASSUME NEW c \in Calls, charge[c].status = "pending", Refund(c),
             \A d \in Calls : pc'[d] \in {"idle", "authenticated"} => pc'[d] = pc[d]
      PROVE ChargeStep(c)
  <2>1. /\ charge' = [charge EXCEPT ![c].status = "refunded"]
        /\ refunds' = [refunds EXCEPT ![c] = @ + 1]
    BY <1>6 DEF Refund
  <2>2. charge'[c].status = "refunded"
    BY <2>1 DEF ChargeRows
  <2> QED
    BY <1>6, <2>1, <2>2 DEF ChargeStep
<1>7. ASSUME NEW c \in Calls, Release(c) PROVE QuietStep \/ ChargeStep(c)
  <2>1. pc' = [pc EXCEPT ![c] = "failed"]
    BY <1>7 DEF Release
  <2>2. CASE UNCHANGED money
    BY <2>1, <2>2 DEF QuietStep
  <2>3. CASE charge[c].status = "pending" /\ Refund(c)
    BY <2>1, <2>3, <1>6
  <2> QED
    BY <1>7, <2>2, <2>3 DEF Release, ReleaseEntry
<1>8. ASSUME NEW c \in Calls, ReleaseStale(c) PROVE ChargeStep(c)
  BY <1>8, <1>6 DEF ReleaseStale, Stale
<1>9. ASSUME NEW c \in Calls, SettleLost(c) \/ ReleaseLost(c) \/ Crash(c) PROVE QuietStep
  BY <1>9 DEF SettleLost, ReleaseLost, Crash, QuietStep
<1>10. ASSUME \/ \E t \in TopUps : ApplyCredit(t)
              \/ \E p \in Plans : AssignSubscription(p)
              \/ \E a \in Agents : RevokeKey(a)
              \/ CancelSubscription \/ SetAccountStatus \/ NextDay \/ UNCHANGED vars
       PROVE QuietStep
  BY <1>10 DEF ApplyCredit, AssignSubscription, RevokeKey, CancelSubscription,
               SetAccountStatus, NextDay, vars, QuietStep
<1> QED
  BY <1>1, <1>2, <1>3, <1>4, <1>5, <1>7, <1>8, <1>9, <1>10 DEF Next, Finish

LEMMA RefundsInductive ==
  ASSUME TypeOK, Unreserved, OneRefundPerCharge, [Next]_vars
  PROVE  Unreserved' /\ OneRefundPerCharge'
PROOF
<1>1. ASSUME QuietStep PROVE Unreserved' /\ OneRefundPerCharge'
  BY <1>1 DEF QuietStep, Unreserved, OneRefundPerCharge
<1>2. ASSUME NEW c \in Calls, ChargeStep(c) PROVE Unreserved' /\ OneRefundPerCharge'
  <2>1. ASSUME NEW d \in Calls, pc'[d] \in {"idle", "authenticated"}
        PROVE  charge'[d].status = "none"
    BY <1>2, <2>1 DEF ChargeStep, Unreserved
  <2>2. ASSUME NEW d \in Calls
        PROVE  refunds'[d] = IF charge'[d].status = "refunded" THEN 1 ELSE 0
    BY <1>2 DEF ChargeStep, Unreserved, OneRefundPerCharge, TypeOK
  <2> QED
    BY <2>1, <2>2 DEF Unreserved, OneRefundPerCharge
<1> QED
  BY StepsOfCharges, <1>1, <1>2

(* A charge is refunded at most once, and exactly when it is marked
   refunded, however the call's own release and the sweeps interleave. *)
THEOREM RefundedOnce == Spec => []OneRefundPerCharge
PROOF
<1>1. Init => Unreserved /\ OneRefundPerCharge
  BY DEF Init, Unreserved, OneRefundPerCharge, NoCharge
<1> QED
  BY <1>1, TypeCorrect, RefundsInductive, PTL DEF Spec

---------------------------------------------------------------------------
(* Money: the balance, the allowances and the spend limits as sums over    *)
(* the ledger.                                                             *)

\* The calls that have a ledger row.
Booked == {c \in Calls : charge[c].status # "none"}

\* Only finitely many rows exist; a row is on a rail, and one on the
\* subscription rail names a subscription of the account and a day.
RowsInv ==
  /\ IsFiniteSet(Booked) /\ IsFiniteSet(Funded)
  /\ \A c \in Calls : charge[c].rail # "none" => c \in Booked
  /\ \A c \in Calls : charge[c].rail = "subscription" =>
       charge[c].sub \in 1 .. Len(subs) /\ charge[c].period \in Days

BookInv == TypeOK /\ Unreserved /\ OneRefundPerCharge /\ RowsInv

\* What a step may do to the ledger, besides a reservation and a top-up.
Untouched == UNCHANGED <<charge, refunds, balance, usage, topUp>>
SettlesOne(c) ==
  /\ charge[c].status = "pending"
  /\ charge' = [charge EXCEPT ![c].status = "settled"]
  /\ UNCHANGED <<refunds, balance, usage, topUp, subs>>
RefundsOne(c) ==
  /\ charge[c].status = "pending" /\ Refund(c) /\ UNCHANGED <<topUp, subs>>

LEMMA StepsOfMoney ==
  ASSUME [Next]_vars
  PROVE  \/ Untouched
         \/ \E t \in TopUps : ApplyCredit(t)
         \/ \E c \in Calls : \/ ReserveAllowance(c) \/ ReserveCredits(c)
                             \/ SettlesOne(c) \/ RefundsOne(c)
PROOF
<1> USE DEF account, money
<1>1. ASSUME NEW c \in Calls,
             \/ Authenticate(c) \/ AuthorizeFree(c) \/ ReserveRefused(c) \/ ReserveReplay(c)
             \/ ReserveUnfunded(c) \/ SettleLost(c) \/ ReleaseLost(c) \/ Crash(c)
      PROVE  Untouched
  BY <1>1 DEF Authenticate, AuthorizeFree, ReserveRefused, ReserveReplay, ReserveUnfunded,
              SettleLost, ReleaseLost, Crash, Untouched
<1>2. ASSUME NEW c \in Calls, Settle(c) PROVE Untouched \/ SettlesOne(c)
  BY <1>2 DEF Settle, SettleEntry, Untouched, SettlesOne
<1>3. ASSUME NEW c \in Calls, Release(c) PROVE Untouched \/ RefundsOne(c)
  BY <1>3 DEF Release, ReleaseEntry, Untouched, RefundsOne
<1>4. ASSUME NEW c \in Calls, ReleaseStale(c) PROVE RefundsOne(c)
  BY <1>4 DEF ReleaseStale, Stale, RefundsOne
<1>5. ASSUME \/ \E p \in Plans : AssignSubscription(p)
             \/ \E a \in Agents : RevokeKey(a)
             \/ CancelSubscription \/ SetAccountStatus \/ NextDay \/ UNCHANGED vars
      PROVE  Untouched
  BY <1>5 DEF AssignSubscription, RevokeKey, CancelSubscription, SetAccountStatus, NextDay,
              vars, Untouched
<1> QED
  BY <1>1, <1>2, <1>3, <1>4, <1>5 DEF Next, Finish

\* Subscriptions are never removed, and keep their plan.
LEMMA SubsKeepTheirPlan ==
  ASSUME TypeOK, [Next]_vars
  PROVE  /\ Len(subs) \in Nat /\ Len(subs') \in Nat /\ Len(subs) <= Len(subs')
         /\ Len(subs) <= MaxSubs
         /\ \A s \in 1 .. Len(subs) : subs[s] \in SubRows /\ subs'[s].plan = subs[s].plan
PROOF
<1>1. subs \in Seq(SubRows) /\ Len(subs) \in Nat /\ DOMAIN subs = 1 .. Len(subs)
  BY LenProperties DEF TypeOK
<1>2. \A s \in 1 .. Len(subs) : subs[s] \in SubRows
  BY <1>1, ElementOfSeq
<1>3. /\ Canceled \in Seq(SubRows) /\ Len(Canceled) = Len(subs)
      /\ \A s \in 1 .. Len(subs) : Canceled[s].plan = subs[s].plan
  BY <1>1, <1>2, CanceledIsSeq DEF Canceled, SubRows
<1>4. CASE subs' = subs
  BY <1>1, <1>2, <1>4 DEF TypeOK
<1>5. CASE CancelSubscription
  BY <1>1, <1>2, <1>3, <1>5 DEF CancelSubscription, TypeOK
<1>6. ASSUME NEW p \in Plans, AssignSubscription(p)
      PROVE  /\ Len(subs') \in Nat /\ Len(subs) <= Len(subs')
             /\ \A s \in 1 .. Len(subs) : subs'[s].plan = subs[s].plan
  <2> DEFINE new == [plan |-> p, status |-> "active", anchor |-> now]
  <2>1. new \in SubRows /\ subs' = Append(Canceled, new)
    BY <1>6 DEF AssignSubscription, SubRows, TypeOK
  <2>2. /\ Len(subs') = Len(subs) + 1
        /\ \A s \in 1 .. Len(subs) : subs'[s] = Canceled[s]
    <3> HIDE DEF new
    <3> QED
      BY <1>1, <1>3, <2>1, AppendProperties
  <2> QED
    BY <1>1, <1>3, <2>2
<1>7. \/ subs' = subs \/ CancelSubscription
      \/ \E p \in Plans : AssignSubscription(p)
  BY DEF Next, Finish, account, vars, Authenticate, AuthorizeFree, ReserveRefused, ReserveReplay,
         ReserveUnfunded, ReserveAllowance, ReserveCredits, Settle, SettleLost, Release,
         ReleaseLost, Crash, ReleaseStale, ApplyCredit, RevokeKey, SetAccountStatus, NextDay
<1> QED
  BY <1>1, <1>2, <1>4, <1>5, <1>6, <1>7 DEF TypeOK

\* The row of usage a reservation writes: it exists.
LEMMA PeriodIsADay ==
  ASSUME TypeOK, NEW s \in DOMAIN subs, NEW t \in Days
  PROVE  s \in 1 .. Len(subs) /\ s \in SubIds /\ PeriodOf(s, t) \in Days
PROOF
<1> DEFINE a == subs[s].anchor
           q == (t - a) \div MonthLen
<1>1. s \in 1 .. Len(subs) /\ Len(subs) \in Nat /\ Len(subs) <= MaxSubs
  BY LenProperties DEF TypeOK
<1>2. subs[s] \in SubRows
  BY <1>1, ElementOfSeq DEF TypeOK
<1>3. a \in 0 .. MaxNow /\ t \in 0 .. MaxNow /\ MonthLen \in Nat \ {0} /\ MaxNow \in Nat
  BY <1>2, FundsAssumption DEF SubRows, Days
<1>4. ASSUME t < a PROVE PeriodOf(s, t) \in Days
  BY <1>3, <1>4 DEF PeriodOf, Days
<1>5. ASSUME ~(t < a) PROVE PeriodOf(s, t) \in Days
  <2>1. t - a \in Nat
    BY <1>3, <1>5
  <2>2. MonthLen * q \in Nat /\ MonthLen * q <= t - a
    <3> HIDE DEF a
    <3> QED
      BY <2>1, <1>3
  <2>3. PeriodOf(s, t) = a + MonthLen * q
    BY <1>5 DEF PeriodOf
  <2> HIDE DEF a, q
  <2> QED
    BY <2>2, <2>3, <1>3 DEF Days
<1>6. PeriodOf(s, t) \in Days
  BY <1>4, <1>5
<1> QED
  BY <1>1, <1>6, FundsAssumption DEF SubIds

\* What a reservation from an allowance does to the ledger.
LEMMA AllowanceBooks ==
  ASSUME TypeOK, NEW c \in Calls, ReserveAllowance(c)
  PROVE  \E s \in ActiveSubs :
           LET row == <<s, PeriodOf(s, at[c])>>
           IN  /\ s \in 1 .. Len(subs) /\ row \in SubIds \X Days /\ row[2] \in Days
               /\ Covers(s, c)
               /\ usage' = [usage EXCEPT ![row] = [micros |-> @.micros + PriceOf[c],
                                                   calls |-> @.calls + 1]]
               /\ charge' = [charge EXCEPT ![c] =
                               [status |-> "pending", rail |-> "subscription",
                                sub |-> s, period |-> row[2], at |-> at[c]]]
PROOF
<1>1. PICK s \in ActiveSubs :
        /\ Covers(s, c)
        /\ usage' = [usage EXCEPT ![<<s, PeriodOf(s, at[c])>>] =
                       [micros |-> @.micros + PriceOf[c], calls |-> @.calls + 1]]
        /\ charge' = [charge EXCEPT ![c] =
                        [status |-> "pending", rail |-> "subscription",
                         sub |-> s, period |-> PeriodOf(s, at[c]), at |-> at[c]]]
  BY DEF ReserveAllowance
<1>2. s \in 1 .. Len(subs) /\ s \in SubIds /\ PeriodOf(s, at[c]) \in Days
  BY PeriodIsADay DEF TypeOK, ActiveSubs
<1> QED
  BY <1>1, <1>2

LEMMA BookInvInit == Init => BookInv
PROOF
<1> SUFFICES ASSUME Init PROVE BookInv
  OBVIOUS
<1>1. Booked = {} /\ Funded = {}
  BY DEF Init, Booked, Funded, NoCharge
<1>2. RowsInv
  BY <1>1, FS_EmptySet DEF Init, RowsInv, NoCharge
<1> QED
  BY <1>2, TypeInit DEF Init, BookInv, Unreserved, OneRefundPerCharge, NoCharge

LEMMA BookInvNext == BookInv /\ [Next]_vars => BookInv'
PROOF
<1> SUFFICES ASSUME BookInv, [Next]_vars PROVE BookInv'
  OBVIOUS
<1>1. TypeOK /\ TypeOK' /\ Unreserved' /\ OneRefundPerCharge'
  BY TypeNext, RefundsInductive DEF BookInv
<1> USE DEF BookInv
<1>2. Len(subs) \in Nat /\ Len(subs') \in Nat /\ Len(subs) <= Len(subs')
  BY SubsKeepTheirPlan
<1>3. 1 .. Len(subs) \subseteq 1 .. Len(subs')
  BY <1>2
<1>4. CASE Untouched
  BY <1>1, <1>3, <1>4 DEF Untouched, RowsInv, Booked, Funded
<1>5. ASSUME NEW t \in TopUps, ApplyCredit(t) PROVE RowsInv'
  <2>1. Funded' = Funded \/ Funded' = Funded \cup {t}
    BY <1>5 DEF ApplyCredit, Funded, TypeOK
  <2>2. IsFiniteSet(Funded')
    BY <2>1, FS_AddElement DEF RowsInv
  <2> QED
    BY <1>3, <1>5, <2>2 DEF ApplyCredit, RowsInv, Booked
<1>6. ASSUME NEW c \in Calls, charge'[c].status # "none",
             \A d \in Calls \ {c} : charge'[d] = charge[d],
             charge'[c].rail = "subscription" =>
               charge'[c].sub \in 1 .. Len(subs) /\ charge'[c].period \in Days,
             topUp' = topUp
      PROVE  RowsInv'
  <2>1. Booked' = Booked \cup {c}
    BY <1>6 DEF Booked
  <2>2. IsFiniteSet(Booked')
    BY <2>1, FS_AddElement DEF RowsInv
  <2>3. IsFiniteSet(Funded')
    BY <1>6 DEF Funded, RowsInv
  <2>4. \A d \in Calls : charge'[d].rail # "none" => d \in Booked'
    BY <1>6, <2>1 DEF RowsInv
  <2>5. \A d \in Calls : charge'[d].rail = "subscription" =>
          charge'[d].sub \in 1 .. Len(subs) /\ charge'[d].period \in Days
    BY <1>6 DEF RowsInv
  <2> QED
    BY <1>3, <2>2, <2>3, <2>4, <2>5 DEF RowsInv
<1>7. ASSUME NEW c \in Calls, ReserveAllowance(c) PROVE RowsInv'
  <2>1. PICK s \in 1 .. Len(subs), p \in Days :
          charge' = [charge EXCEPT ![c] = [status |-> "pending", rail |-> "subscription",
                                           sub |-> s, period |-> p, at |-> at[c]]]
    BY <1>1, <1>7, AllowanceBooks
  <2> QED
    BY <1>1, <1>6, <1>7, <2>1 DEF ReserveAllowance, account, TypeOK
<1>8. ASSUME NEW c \in Calls, ReserveCredits(c) PROVE RowsInv'
  BY <1>1, <1>6, <1>8 DEF ReserveCredits, account, TypeOK
<1>9. ASSUME NEW c \in Calls, charge[c].status = "pending", topUp' = topUp,
             NEW v \in {"settled", "refunded"}, charge' = [charge EXCEPT ![c].status = v]
      PROVE  RowsInv'
  <2>1. /\ charge'[c].status # "none" /\ charge'[c].rail = charge[c].rail
        /\ charge'[c].sub = charge[c].sub /\ charge'[c].period = charge[c].period
        /\ \A d \in Calls \ {c} : charge'[d] = charge[d]
    BY <1>1, <1>9 DEF TypeOK, ChargeRows
  <2> QED
    BY <1>6, <1>9, <2>1 DEF RowsInv
<1>10. ASSUME NEW c \in Calls, SettlesOne(c) \/ RefundsOne(c) PROVE RowsInv'
  BY <1>9, <1>10 DEF SettlesOne, RefundsOne, Refund
<1> QED
  BY <1>1, <1>4, <1>5, <1>7, <1>8, <1>10, StepsOfMoney

---------------------------------------------------------------------------
\* What the refund rows of each call give back.
Returned == [c \in Calls |-> refunds[c] * PriceOf[c]]

LedgerTotal ==
  SumFunctionOnSet(AmountOf, Funded) - SumFunctionOnSet(PriceOf, OnRail("api_credits"))
    + SumFunctionOnSet(Returned, OnRail("api_credits"))

LEMMA LedgerAsSums == LedgerSumsToBalance <=> balance = LedgerTotal
PROOF
<1>1. Sum(Funded, LAMBDA t : AmountOf[t]) = SumFunctionOnSet(AmountOf, Funded)
  BY DEF Sum, MapThenSumSet, SumFunctionOnSet, FoldFunctionOnSet
<1>2. Sum(OnRail("api_credits"), LAMBDA c : PriceOf[c])
        = SumFunctionOnSet(PriceOf, OnRail("api_credits"))
  BY DEF Sum, MapThenSumSet, SumFunctionOnSet, FoldFunctionOnSet
<1>3. Sum(OnRail("api_credits"), LAMBDA c : refunds[c] * PriceOf[c])
        = SumFunctionOnSet(Returned, OnRail("api_credits"))
  BY DEF Sum, MapThenSumSet, SumFunctionOnSet, FoldFunctionOnSet, MapThenFoldSet, Returned, OnRail
<1> QED
  BY <1>1, <1>2, <1>3 DEF LedgerSumsToBalance, LedgerTotal

\* The rows on the credit rails are finitely many, and their sums integers.
LEMMA TotalIsInt ==
  ASSUME BookInv
  PROVE  /\ IsFiniteSet(Funded) /\ IsFiniteSet(OnRail("api_credits"))
         /\ \A t \in Funded : AmountOf[t] \in Int
         /\ \A c \in OnRail("api_credits") : PriceOf[c] \in Int /\ Returned[c] \in Int
         /\ SumFunctionOnSet(AmountOf, Funded) \in Int
         /\ SumFunctionOnSet(PriceOf, OnRail("api_credits")) \in Int
         /\ SumFunctionOnSet(Returned, OnRail("api_credits")) \in Int
PROOF
<1>1. IsFiniteSet(Funded) /\ IsFiniteSet(OnRail("api_credits"))
  <2>1. OnRail("api_credits") \in SUBSET Booked
    BY DEF BookInv, RowsInv, OnRail
  <2> QED
    BY <2>1, FS_Subset DEF BookInv, RowsInv
<1>2. \A t \in Funded : AmountOf[t] \in Int
  BY FundsAssumption DEF Funded
<1>3. \A c \in OnRail("api_credits") : PriceOf[c] \in Int /\ Returned[c] \in Int
  BY CallsAssumption DEF OnRail, Returned, BookInv, TypeOK
<1> QED
  BY <1>1, <1>2, <1>3, SumInt

LEMMA BalanceStep ==
  ASSUME BookInv, balance = LedgerTotal, [Next]_vars
  PROVE  balance' = LedgerTotal'
PROOF
<1> DEFINE credits == OnRail("api_credits")
<1>1. BookInv' /\ TypeOK /\ TypeOK'
  BY BookInvNext DEF BookInv
<1>2. balance \in Int
  BY <1>1 DEF TypeOK
<1>3. CASE Untouched
  BY <1>3 DEF Untouched, LedgerTotal, Funded, OnRail, Returned
<1>4. ASSUME NEW t \in TopUps, ApplyCredit(t) PROVE balance' = LedgerTotal'
  <2>1. credits' = credits /\ Returned' = Returned
    BY <1>4 DEF ApplyCredit, OnRail, Returned
  <2>2. CASE topUp' = [topUp EXCEPT ![t] = "applied"] /\ balance' = balance + AmountOf[t]
    <3>1. t \notin Funded /\ Funded' = Funded \cup {t}
      BY <1>1, <1>4, <2>2 DEF ApplyCredit, Funded, TypeOK
    <3>2. SumFunctionOnSet(AmountOf, Funded') = SumFunctionOnSet(AmountOf, Funded) + AmountOf[t]
      BY <3>1, TotalIsInt, SumAdd, FundsAssumption
    <3>3. AmountOf[t] \in Int
      BY FundsAssumption
    <3> HIDE DEF credits
    <3> QED
      BY <2>1, <2>2, <3>2, <3>3, TotalIsInt DEF LedgerTotal, credits
  <2>3. CASE /\ \E v \in {"duplicate", "rejected"} : topUp' = [topUp EXCEPT ![t] = v]
             /\ balance' = balance
    <3>1. Funded' = Funded
      BY <1>1, <1>4, <2>3 DEF ApplyCredit, Funded, TypeOK
    <3> QED
      BY <2>1, <2>3, <3>1 DEF LedgerTotal
  <2> QED
    BY <1>4, <2>2, <2>3 DEF ApplyCredit
<1>5. ASSUME NEW c \in Calls, ReserveAllowance(c) PROVE balance' = LedgerTotal'
  <2>1. charge[c].status = "none" /\ charge'[c].rail = "subscription"
        /\ \A d \in Calls \ {c} : charge'[d] = charge[d]
    <3>1. charge[c].status = "none"
      BY <1>5 DEF ReserveAllowance, Reserving, BookInv, Unreserved
    <3>2. PICK s, p :
            charge' = [charge EXCEPT ![c] = [status |-> "pending", rail |-> "subscription",
                                             sub |-> s, period |-> p, at |-> at[c]]]
      BY <1>1, <1>5, AllowanceBooks
    <3> QED
      BY <1>1, <3>1, <3>2 DEF TypeOK
  <2>2. c \notin credits
    BY <2>1 DEF BookInv, RowsInv, Booked, OnRail
  <2>3. credits' = credits
    BY <2>1, <2>2 DEF OnRail
  <2>4. Returned' = Returned /\ Funded' = Funded /\ balance' = balance
    BY <1>5 DEF ReserveAllowance, account, Returned, Funded
  <2> QED
    BY <2>3, <2>4 DEF LedgerTotal
<1>6. ASSUME NEW c \in Calls, ReserveCredits(c) PROVE balance' = LedgerTotal'
  <2>1. /\ charge[c].status = "none" /\ charge'[c].rail = "api_credits"
        /\ \A d \in Calls \ {c} : charge'[d] = charge[d]
    BY <1>1, <1>6 DEF ReserveCredits, Reserving, BookInv, Unreserved, TypeOK
  <2>2. c \notin credits /\ credits' = credits \cup {c}
    BY <2>1 DEF BookInv, RowsInv, Booked, OnRail
  <2>3. Returned' = Returned /\ Funded' = Funded /\ balance' = balance - PriceOf[c]
    BY <1>6 DEF ReserveCredits, account, Returned, Funded
  <2>4. PriceOf[c] \in Int /\ Returned[c] = 0
    <3>1. refunds[c] = 0 /\ PriceOf[c] \in Nat
      BY <2>1, CallsAssumption DEF BookInv, OneRefundPerCharge
    <3> QED
      BY <3>1 DEF Returned
  <2>5. /\ SumFunctionOnSet(PriceOf, credits') = SumFunctionOnSet(PriceOf, credits) + PriceOf[c]
        /\ SumFunctionOnSet(Returned, credits') = SumFunctionOnSet(Returned, credits) + Returned[c]
    <3>1. /\ IsFiniteSet(credits) /\ Returned[c] \in Int
          /\ \A d \in credits : PriceOf[d] \in Int /\ Returned[d] \in Int
      BY <2>4, TotalIsInt
    <3> HIDE DEF credits
    <3> QED
      BY <2>2, <2>4, <3>1, SumAdd
  <2> QED
    BY <1>2, <2>3, <2>4, <2>5, TotalIsInt DEF LedgerTotal
<1>7. ASSUME NEW c \in Calls, SettlesOne(c) PROVE balance' = LedgerTotal'
  <2>1. \A d \in Calls : charge'[d].rail = charge[d].rail
    BY <1>1, <1>7 DEF SettlesOne, TypeOK, ChargeRows
  <2> QED
    BY <1>7, <2>1 DEF SettlesOne, LedgerTotal, OnRail, Returned, Funded
<1>8. ASSUME NEW c \in Calls, RefundsOne(c) PROVE balance' = LedgerTotal'
  <2>1. \A d \in Calls : charge'[d].rail = charge[d].rail
    BY <1>1, <1>8 DEF RefundsOne, Refund, TypeOK, ChargeRows
  <2>2. credits' = credits /\ Funded' = Funded
    BY <1>8, <2>1 DEF RefundsOne, OnRail, Funded
  <2>3. /\ \A d \in Calls \ {c} : Returned'[d] = Returned[d]
        /\ Returned[c] = 0 /\ Returned'[c] = PriceOf[c] /\ PriceOf[c] \in Int
    <3>1. refunds[c] = 0 /\ PriceOf[c] \in Nat
      BY <1>8, CallsAssumption DEF RefundsOne, BookInv, OneRefundPerCharge
    <3>2. refunds'[c] = 1 /\ \A d \in Calls \ {c} : refunds'[d] = refunds[d]
      BY <1>1, <1>8, <3>1 DEF RefundsOne, Refund, TypeOK
    <3> QED
      BY <3>1, <3>2 DEF Returned
  <2>4. /\ IsFiniteSet(credits)
        /\ \A d \in credits : Returned[d] \in Int /\ Returned'[d] \in Int
        /\ \A d \in credits : d \in Calls
    <3>1. \A d \in credits : d \in Calls
      BY DEF OnRail
    <3> QED
      BY <2>3, <3>1, TotalIsInt
  <2>5. CASE charge[c].rail = "api_credits"
    <3>1. c \in credits
      BY <2>5 DEF OnRail
    <3>2. SumFunctionOnSet(Returned', credits)
            = SumFunctionOnSet(Returned, credits) - Returned[c] + Returned'[c]
      <4> HIDE DEF credits
      <4> QED
        BY <2>3, <2>4, <3>1, SumChange
    <3>3. balance' = balance + PriceOf[c]
      BY <1>8, <2>5 DEF RefundsOne, Refund
    <3> QED
      BY <1>2, <2>2, <2>3, <3>2, <3>3, TotalIsInt DEF LedgerTotal
  <2>6. CASE charge[c].rail # "api_credits"
    <3>1. c \notin credits /\ balance' = balance
      BY <1>8, <2>6 DEF OnRail, RefundsOne, Refund
    <3>2. SumFunctionOnSet(Returned, credits) = SumFunctionOnSet(Returned', credits)
      <4>1. \A d \in credits : Returned[d] = Returned'[d]
        BY <2>3, <2>4, <3>1
      <4> HIDE DEF credits
      <4> QED
        BY <2>4, <4>1, SumSame
    <3> QED
      BY <2>2, <3>1, <3>2 DEF LedgerTotal
  <2> QED
    BY <2>5, <2>6
<1> QED
  BY <1>3, <1>4, <1>5, <1>6, <1>7, <1>8, StepsOfMoney

LEMMA BookInvHolds == Spec => []BookInv
PROOF
BY BookInvInit, BookInvNext, PTL DEF Spec

(* The balance is the sum of the ledger over the credit rails (docs/billing.md),
   for any number of calls, top-ups, adjustments, retries, crashes and sweeps. *)
THEOREM LedgerSums == Spec => []LedgerSumsToBalance
PROOF
<1>1. Init => balance = LedgerTotal
  <2> SUFFICES ASSUME Init PROVE balance = LedgerTotal
    OBVIOUS
  <2>1. Funded = {} /\ OnRail("api_credits") = {} /\ balance = 0
    BY DEF Init, Funded, OnRail, NoCharge
  <2> QED
    BY <2>1, SumEmpty DEF LedgerTotal
<1>2. BookInv /\ balance = LedgerTotal /\ [Next]_vars => (balance = LedgerTotal)'
  BY BalanceStep
<1> QED
  BY <1>1, <1>2, BookInvHolds, LedgerAsSums, PTL DEF Spec

---------------------------------------------------------------------------
(* The same balance without refund rows: a refunded charge counts no more. *)

Kept == {c \in OnRail("api_credits") : Live(c)}
EarnedTotal == SumFunctionOnSet(AmountOf, Funded) - SumFunctionOnSet(PriceOf, Kept)

FundedOnce == \A t, u \in Funded : t # u => ExtOf[t] = NoExt \/ ExtOf[t] # ExtOf[u]

LEMMA EarnedAsSums ==
  BalanceIsEarned <=> LedgerSumsToBalance /\ balance = EarnedTotal /\ FundedOnce
PROOF
<1>1. Sum(Funded, LAMBDA t : AmountOf[t]) = SumFunctionOnSet(AmountOf, Funded)
  BY DEF Sum, MapThenSumSet, SumFunctionOnSet, FoldFunctionOnSet
<1>2. Sum({c \in OnRail("api_credits") : Live(c)}, LAMBDA c : PriceOf[c])
        = SumFunctionOnSet(PriceOf, Kept)
  BY DEF Sum, MapThenSumSet, SumFunctionOnSet, FoldFunctionOnSet, Kept
<1> QED
  BY <1>1, <1>2 DEF BalanceIsEarned, EarnedTotal, FundedOnce

LEMMA KeptIsFinite ==
  ASSUME BookInv
  PROVE  /\ IsFiniteSet(Kept) /\ \A c \in Kept : PriceOf[c] \in Int
         /\ SumFunctionOnSet(PriceOf, Kept) \in Int
PROOF
<1>1. Kept \in SUBSET OnRail("api_credits")
  BY DEF Kept
<1>2. IsFiniteSet(Kept) /\ \A c \in Kept : PriceOf[c] \in Int
  BY <1>1, TotalIsInt, FS_Subset
<1> QED
  BY <1>2, SumInt

\* Only ApplyCredit funds, and it looks for the external id first.
LEMMA FundedOnceStep ==
  ASSUME BookInv, FundedOnce, [Next]_vars
  PROVE  FundedOnce'
PROOF
<1>1. CASE topUp' = topUp
  BY <1>1 DEF FundedOnce, Funded
<1>2. ASSUME NEW t \in TopUps, ApplyCredit(t) PROVE FundedOnce'
  <2>1. Funded' = Funded \/ (Funded' = Funded \cup {t} /\ ~Duplicate(t))
    BY <1>2 DEF ApplyCredit, Funded, BookInv, TypeOK
  <2> QED
    BY <2>1 DEF FundedOnce, Duplicate, Funded
<1> QED
  BY <1>1, <1>2, StepsOfMoney
  DEF Untouched, SettlesOne, RefundsOne, ReserveAllowance, ReserveCredits, account

LEMMA EarnedStep ==
  ASSUME BookInv, balance = EarnedTotal, [Next]_vars
  PROVE  balance' = EarnedTotal'
PROOF
<1>1. TypeOK /\ TypeOK'
  BY BookInvNext DEF BookInv
<1>2. balance \in Int /\ SumFunctionOnSet(AmountOf, Funded) \in Int
  BY <1>1, TotalIsInt DEF TypeOK
<1>3. CASE Untouched
  BY <1>3 DEF Untouched, EarnedTotal, Funded, Kept, OnRail, Live
<1>4. ASSUME NEW t \in TopUps, ApplyCredit(t) PROVE balance' = EarnedTotal'
  <2>1. Kept' = Kept
    BY <1>4 DEF ApplyCredit, Kept, OnRail, Live
  <2>2. CASE topUp' = [topUp EXCEPT ![t] = "applied"] /\ balance' = balance + AmountOf[t]
    <3>1. t \notin Funded /\ Funded' = Funded \cup {t}
      BY <1>1, <1>4, <2>2 DEF ApplyCredit, Funded, TypeOK
    <3>2. SumFunctionOnSet(AmountOf, Funded') = SumFunctionOnSet(AmountOf, Funded) + AmountOf[t]
      BY <3>1, TotalIsInt, SumAdd, FundsAssumption
    <3>3. AmountOf[t] \in Int
      BY FundsAssumption
    <3> QED
      BY <1>2, <2>1, <2>2, <3>2, <3>3, KeptIsFinite DEF EarnedTotal
  <2>3. CASE /\ \E v \in {"duplicate", "rejected"} : topUp' = [topUp EXCEPT ![t] = v]
             /\ balance' = balance
    <3>1. Funded' = Funded
      BY <1>1, <1>4, <2>3 DEF ApplyCredit, Funded, TypeOK
    <3> QED
      BY <2>1, <2>3, <3>1 DEF EarnedTotal
  <2> QED
    BY <1>4, <2>2, <2>3 DEF ApplyCredit
<1>5. ASSUME NEW c \in Calls, ReserveAllowance(c) PROVE balance' = EarnedTotal'
  <2>1. charge[c].status = "none"
    BY <1>5 DEF ReserveAllowance, Reserving, BookInv, Unreserved
  <2>2. PICK s, p :
          charge' = [charge EXCEPT ![c] = [status |-> "pending", rail |-> "subscription",
                                           sub |-> s, period |-> p, at |-> at[c]]]
    BY <1>1, <1>5, AllowanceBooks
  <2>3. charge'[c].rail = "subscription" /\ \A d \in Calls \ {c} : charge'[d] = charge[d]
    BY <1>1, <2>2 DEF TypeOK
  <2>4. Kept' = Kept
    BY <2>1, <2>3 DEF Kept, OnRail, Live
  <2>5. Funded' = Funded /\ balance' = balance
    BY <1>5 DEF ReserveAllowance, account, Funded
  <2> QED
    BY <2>4, <2>5 DEF EarnedTotal
<1>6. ASSUME NEW c \in Calls, ReserveCredits(c) PROVE balance' = EarnedTotal'
  <2>1. /\ charge[c].status = "none"
        /\ charge'[c].rail = "api_credits" /\ charge'[c].status = "pending"
        /\ \A d \in Calls \ {c} : charge'[d] = charge[d]
    BY <1>1, <1>6 DEF ReserveCredits, Reserving, BookInv, Unreserved, TypeOK
  <2>2. c \notin Kept /\ Kept' = Kept \cup {c}
    BY <2>1 DEF Kept, OnRail, Live
  <2>3. Funded' = Funded /\ balance' = balance - PriceOf[c] /\ PriceOf[c] \in Int
    BY <1>6, CallsAssumption DEF ReserveCredits, account, Funded
  <2>4. SumFunctionOnSet(PriceOf, Kept') = SumFunctionOnSet(PriceOf, Kept) + PriceOf[c]
    BY <2>2, <2>3, KeptIsFinite, SumAdd
  <2> QED
    BY <1>2, <2>3, <2>4, KeptIsFinite DEF EarnedTotal
<1>7. ASSUME NEW c \in Calls, SettlesOne(c) PROVE balance' = EarnedTotal'
  <2>1. \A d \in Calls : charge'[d].rail = charge[d].rail /\ (Live(d)' <=> Live(d))
    BY <1>1, <1>7 DEF SettlesOne, TypeOK, ChargeRows, Live
  <2>2. Kept' = Kept
    BY <2>1 DEF Kept, OnRail
  <2> QED
    BY <1>7, <2>2 DEF SettlesOne, EarnedTotal, Funded
<1>8. ASSUME NEW c \in Calls, RefundsOne(c) PROVE balance' = EarnedTotal'
  <2>1. /\ \A d \in Calls : charge'[d].rail = charge[d].rail
        /\ Live(c) /\ ~Live(c)' /\ \A d \in Calls \ {c} : Live(d)' <=> Live(d)
    BY <1>1, <1>8 DEF RefundsOne, Refund, TypeOK, ChargeRows, Live
  <2>2. Funded' = Funded /\ PriceOf[c] \in Int
    BY <1>8, CallsAssumption DEF RefundsOne, Funded
  <2>3. CASE charge[c].rail = "api_credits"
    <3>1. c \in Kept /\ Kept' = Kept \ {c}
      BY <2>1, <2>3 DEF Kept, OnRail
    <3>2. SumFunctionOnSet(PriceOf, Kept) = PriceOf[c] + SumFunctionOnSet(PriceOf, Kept')
      BY <3>1, KeptIsFinite, SumRemove
    <3>3. SumFunctionOnSet(PriceOf, Kept') \in Int
      <4>1. IsFiniteSet(Kept') /\ \A d \in Kept' : PriceOf[d] \in Int
        BY <3>1, KeptIsFinite, FS_Subset
      <4> QED
        BY <4>1, SumInt
    <3>4. balance' = balance + PriceOf[c]
      BY <1>8, <2>3 DEF RefundsOne, Refund
    <3> QED
      BY <1>2, <2>2, <3>2, <3>3, <3>4 DEF EarnedTotal
  <2>4. CASE charge[c].rail # "api_credits"
    <3>1. Kept' = Kept
      BY <2>1, <2>4 DEF Kept, OnRail
    <3>2. balance' = balance
      BY <1>8, <2>4 DEF RefundsOne, Refund
    <3> QED
      BY <2>2, <3>1, <3>2 DEF EarnedTotal
  <2> QED
    BY <2>3, <2>4
<1> QED
  BY <1>3, <1>4, <1>5, <1>6, <1>7, <1>8, StepsOfMoney

(* The balance is what came in, each external transaction at most once, less
   the charges that are held or settled: no top-up delivered twice is credited
   twice and no charge is given back twice (postgresStore.ts, applyCredit,
   release, releaseStale). *)
THEOREM BalanceEarned == Spec => []BalanceIsEarned
PROOF
<1>1. Init => balance = EarnedTotal /\ FundedOnce
  <2> SUFFICES ASSUME Init PROVE balance = EarnedTotal /\ FundedOnce
    OBVIOUS
  <2>1. Funded = {} /\ Kept = {} /\ balance = 0
    BY DEF Init, Funded, Kept, OnRail, NoCharge
  <2> QED
    BY <2>1, SumEmpty DEF EarnedTotal, FundedOnce
<1>2. BookInv /\ balance = EarnedTotal /\ FundedOnce /\ [Next]_vars =>
        (balance = EarnedTotal)' /\ FundedOnce'
  BY EarnedStep, FundedOnceStep
<1> QED
  BY <1>1, <1>2, BookInvHolds, LedgerSums, EarnedAsSums, PTL DEF Spec

---------------------------------------------------------------------------
\* The live charges against a row of usage.
Against(row) ==
  {c \in OnRail("subscription") : Live(c) /\ <<charge[c].sub, charge[c].period>> = row}

\* What AllowanceMatchesLedger says of one row.
RowMatches(row) ==
  /\ usage[row].micros = SumFunctionOnSet(PriceOf, Against(row))
  /\ usage[row].calls = Cardinality(Against(row))
  /\ Against(row) # {} =>
       /\ usage[row].micros <= subs[row[1]].plan.micros
       /\ subs[row[1]].plan.calls # NoCap => usage[row].calls <= subs[row[1]].plan.calls

LEMMA AllowanceAsSums ==
  AllowanceMatchesLedger <=> \A row \in SubIds \X Days : RowMatches(row)
PROOF
<1>1. ASSUME NEW row \in SubIds \X Days
      PROVE  Sum(Against(row), LAMBDA c : PriceOf[c]) = SumFunctionOnSet(PriceOf, Against(row))
  BY DEF Sum, MapThenSumSet, SumFunctionOnSet, FoldFunctionOnSet
<1> QED
  BY <1>1 DEF AllowanceMatchesLedger, RowMatches, Against

\* A row is charged by finitely many calls, and only for a subscription
\* that exists.
LEMMA AgainstIsFinite ==
  ASSUME BookInv, NEW row
  PROVE  /\ IsFiniteSet(Against(row)) /\ Cardinality(Against(row)) \in Nat
         /\ \A c \in Against(row) : PriceOf[c] \in Nat
         /\ SumFunctionOnSet(PriceOf, Against(row)) \in Nat
         /\ Against(row) # {} => row[1] \in 1 .. Len(subs)
PROOF
<1>1. Against(row) \in SUBSET Booked
  BY DEF Against, OnRail, BookInv, RowsInv
<1>2. IsFiniteSet(Against(row)) /\ Cardinality(Against(row)) \in Nat
  BY <1>1, FS_Subset, FS_CardinalityType DEF BookInv, RowsInv
<1>3. \A c \in Against(row) : PriceOf[c] \in Nat
  BY CallsAssumption DEF Against, OnRail
<1>4. Against(row) # {} => row[1] \in 1 .. Len(subs)
  BY DEF Against, OnRail, BookInv, RowsInv
<1> QED
  BY <1>2, <1>3, <1>4, SumNat

\* A row whose charges and counters stay keeps matching.
LEMMA RowStays ==
  ASSUME BookInv, [Next]_vars, NEW row \in SubIds \X Days, RowMatches(row),
         usage'[row] = usage[row], Against(row)' = Against(row)
  PROVE  RowMatches(row)'
PROOF
<1>1. Against(row) # {} => subs'[row[1]].plan = subs[row[1]].plan
  BY AgainstIsFinite, SubsKeepTheirPlan DEF BookInv
<1> QED
  BY <1>1 DEF RowMatches

LEMMA RowAllowance ==
  ASSUME BookInv, NEW row \in SubIds \X Days, RowMatches(row),
         [Next]_vars, NEW c \in Calls, ReserveAllowance(c)
  PROVE  RowMatches(row)'
PROOF
<1>1. TypeOK /\ TypeOK' /\ charge[c].status = "none" /\ PriceOf[c] \in Nat /\ c \notin Against(row)
  BY TypeNext, CallsAssumption
  DEF BookInv, ReserveAllowance, Reserving, Unreserved, Against, Live
<1>2. PICK s \in ActiveSubs :
        LET r == <<s, PeriodOf(s, at[c])>>
        IN  /\ s \in 1 .. Len(subs) /\ r \in SubIds \X Days
            /\ Covers(s, c)
            /\ usage' = [usage EXCEPT ![r] = [micros |-> @.micros + PriceOf[c],
                                              calls |-> @.calls + 1]]
            /\ charge' = [charge EXCEPT ![c] = [status |-> "pending", rail |-> "subscription",
                                                sub |-> s, period |-> r[2], at |-> at[c]]]
  BY <1>1, AllowanceBooks
<1> DEFINE r == <<s, PeriodOf(s, at[c])>>
<1>3. /\ \A d \in Calls \ {c} : charge'[d] = charge[d]
      /\ charge'[c].status = "pending" /\ charge'[c].rail = "subscription"
      /\ <<charge'[c].sub, charge'[c].period>> = r
  BY <1>1, <1>2 DEF TypeOK
<1>4. CASE row # r
  <2>1. Against(row)' = Against(row)
    BY <1>1, <1>3, <1>4 DEF Against, OnRail, Live
  <2>2. usage'[row] = usage[row]
    BY <1>1, <1>2, <1>4 DEF TypeOK
  <2> QED
    BY <2>1, <2>2, RowStays
<1>5. CASE row = r
  <2>1. Against(row)' = Against(row) \cup {c}
    BY <1>1, <1>3, <1>5 DEF Against, OnRail, Live
  <2>2. /\ SumFunctionOnSet(PriceOf, Against(row)')
             = SumFunctionOnSet(PriceOf, Against(row)) + PriceOf[c]
        /\ Cardinality(Against(row)') = Cardinality(Against(row)) + 1
    <3>1. IsFiniteSet(Against(row)) /\ \A d \in Against(row) : PriceOf[d] \in Int
      BY AgainstIsFinite
    <3>2. SumFunctionOnSet(PriceOf, Against(row) \cup {c})
             = SumFunctionOnSet(PriceOf, Against(row)) + PriceOf[c]
      BY <1>1, <3>1, SumAdd
    <3>3. Cardinality(Against(row) \cup {c}) = Cardinality(Against(row)) + 1
      BY <1>1, <3>1, FS_AddElement
    <3> QED
      BY <2>1, <3>2, <3>3
  <2>3. usage'[row].micros = usage[row].micros + PriceOf[c]
        /\ usage'[row].calls = usage[row].calls + 1
    BY <1>1, <1>2, <1>5 DEF TypeOK
  <2>4. /\ usage[row].micros + PriceOf[c] <= subs[s].plan.micros
        /\ subs[s].plan.calls # NoCap => usage[row].calls + 1 <= subs[s].plan.calls
    BY <1>2, <1>5 DEF Covers
  <2>5. subs' = subs /\ row[1] = s
    BY <1>5 DEF ReserveAllowance, account
  <2> QED
    BY <2>2, <2>3, <2>4, <2>5 DEF RowMatches
<1> QED
  BY <1>4, <1>5

LEMMA RowRefund ==
  ASSUME BookInv, NEW row \in SubIds \X Days, RowMatches(row),
         [Next]_vars, NEW c \in Calls, RefundsOne(c)
  PROVE  RowMatches(row)'
PROOF
<1> DEFINE r == <<charge[c].sub, charge[c].period>>
           given(u) == [micros |-> IF u.micros >= PriceOf[c] THEN u.micros - PriceOf[c] ELSE 0,
                        calls |-> IF u.calls >= 1 THEN u.calls - 1 ELSE 0]
<1>1. TypeOK /\ TypeOK' /\ charge[c].status = "pending" /\ PriceOf[c] \in Nat
  BY TypeNext, CallsAssumption DEF BookInv, RefundsOne
<1>2. /\ \A d \in Calls \ {c} : charge'[d] = charge[d]
      /\ charge'[c].status = "refunded" /\ charge'[c].rail = charge[c].rail
  BY <1>1 DEF RefundsOne, Refund, TypeOK, ChargeRows
<1>3. usage' = IF charge[c].rail # "subscription" THEN usage
               ELSE [usage EXCEPT ![r] = given(@)]
  BY DEF RefundsOne, Refund
<1>4. CASE charge[c].rail # "subscription" \/ row # r
  <2>1. Against(row)' = Against(row)
    BY <1>2, <1>4 DEF Against, OnRail, Live
  <2>2. usage'[row] = usage[row]
    <3> HIDE DEF given
    <3> QED
      BY <1>1, <1>3, <1>4 DEF TypeOK
  <2> QED
    BY <2>1, <2>2, RowStays
<1>5. CASE charge[c].rail = "subscription" /\ row = r
  <2>1. c \in Against(row) /\ Against(row)' = Against(row) \ {c}
    BY <1>1, <1>2, <1>5 DEF Against, OnRail, Live
  <2>2. /\ SumFunctionOnSet(PriceOf, Against(row))
             = PriceOf[c] + SumFunctionOnSet(PriceOf, Against(row)')
        /\ SumFunctionOnSet(PriceOf, Against(row)') \in Nat
        /\ Cardinality(Against(row)') = Cardinality(Against(row)) - 1
        /\ Cardinality(Against(row)') \in Nat
    <3>1. IsFiniteSet(Against(row)) /\ \A d \in Against(row) : PriceOf[d] \in Nat
      BY AgainstIsFinite
    <3>2. SumFunctionOnSet(PriceOf, Against(row))
            = PriceOf[c] + SumFunctionOnSet(PriceOf, Against(row) \ {c})
      BY <2>1, <3>1, SumRemove
    <3>3. /\ IsFiniteSet(Against(row) \ {c})
          /\ Cardinality(Against(row) \ {c}) = Cardinality(Against(row)) - 1
      BY <2>1, <3>1, FS_RemoveElement
    <3>4. SumFunctionOnSet(PriceOf, Against(row) \ {c}) \in Nat
      BY <3>1, <3>3, SumNat
    <3>5. Cardinality(Against(row) \ {c}) \in Nat
      BY <3>3, FS_CardinalityType
    <3> QED
      BY <2>1, <3>2, <3>3, <3>4, <3>5
  <2>3. usage[row] \in UsageRows /\ usage'[row] = given(usage[row])
    <3> HIDE DEF given
    <3> QED
      BY <1>1, <1>3, <1>5 DEF TypeOK
  <2>4. Cardinality(Against(row)) \in Nat /\ Against(row) # {}
    BY <2>1, AgainstIsFinite
  <2>5. /\ usage[row].micros >= PriceOf[c] /\ usage[row].calls >= 1
        /\ usage[row].micros \in Nat /\ usage[row].calls \in Nat
    BY <1>1, <2>2, <2>3, <2>4 DEF RowMatches, UsageRows
  <2>6. /\ usage'[row].micros = usage[row].micros - PriceOf[c]
        /\ usage'[row].calls = usage[row].calls - 1
    BY <2>3, <2>5
  <2>7. subs' = subs
    BY DEF RefundsOne
  <2>8. row[1] \in 1 .. Len(subs) /\ subs[row[1]].plan \in Plans
    BY <1>1, <2>4, AgainstIsFinite, SubsKeepTheirPlan DEF SubRows
  <2>9. /\ subs[row[1]].plan.micros \in Nat
        /\ subs[row[1]].plan.calls # NoCap => subs[row[1]].plan.calls \in Nat
    BY <2>8, FundsAssumption
  <2>10. usage'[row].micros = SumFunctionOnSet(PriceOf, Against(row)')
         /\ usage'[row].calls = Cardinality(Against(row)')
    BY <1>1, <2>2, <2>4, <2>6 DEF RowMatches
  <2>11. /\ usage'[row].micros <= subs[row[1]].plan.micros
         /\ subs[row[1]].plan.calls # NoCap => usage'[row].calls <= subs[row[1]].plan.calls
    BY <1>1, <2>4, <2>5, <2>6, <2>9 DEF RowMatches
  <2> QED
    BY <2>7, <2>10, <2>11 DEF RowMatches
<1> QED
  BY <1>4, <1>5

LEMMA AllowanceStep ==
  ASSUME BookInv, \A row \in SubIds \X Days : RowMatches(row), [Next]_vars
  PROVE  \A row \in SubIds \X Days : RowMatches(row)'
PROOF
<1> SUFFICES ASSUME NEW row \in SubIds \X Days PROVE RowMatches(row)'
  OBVIOUS
<1>1. TypeOK /\ TypeOK' /\ RowMatches(row)
  BY TypeNext DEF BookInv
<1>2. CASE Untouched
  <2>1. Against(row)' = Against(row) /\ usage' = usage
    BY <1>2 DEF Untouched, Against, OnRail, Live
  <2> QED
    BY <1>1, <2>1, RowStays
<1>3. ASSUME NEW t \in TopUps, ApplyCredit(t) PROVE RowMatches(row)'
  <2>1. Against(row)' = Against(row) /\ usage' = usage
    BY <1>3 DEF ApplyCredit, Against, OnRail, Live
  <2> QED
    BY <1>1, <2>1, RowStays
<1>4. ASSUME NEW c \in Calls, ReserveCredits(c) PROVE RowMatches(row)'
  <2>1. /\ charge[c].status = "none" /\ charge'[c].rail = "api_credits"
        /\ \A d \in Calls \ {c} : charge'[d] = charge[d]
    BY <1>1, <1>4 DEF ReserveCredits, Reserving, BookInv, Unreserved, TypeOK
  <2>2. Against(row)' = Against(row)
    BY <2>1 DEF Against, OnRail, Live
  <2>3. usage' = usage
    BY <1>4 DEF ReserveCredits
  <2> QED
    BY <1>1, <2>2, <2>3, RowStays
<1>5. ASSUME NEW c \in Calls, SettlesOne(c) PROVE RowMatches(row)'
  <2>1. /\ \A d \in Calls \ {c} : charge'[d] = charge[d]
        /\ charge[c].status = "pending" /\ charge'[c].status = "settled"
        /\ charge'[c].rail = charge[c].rail /\ charge'[c].sub = charge[c].sub
        /\ charge'[c].period = charge[c].period
    BY <1>1, <1>5 DEF SettlesOne, TypeOK, ChargeRows
  <2>2. Against(row)' = Against(row)
    BY <2>1 DEF Against, OnRail, Live
  <2>3. usage' = usage
    BY <1>5 DEF SettlesOne
  <2> QED
    BY <1>1, <2>2, <2>3, RowStays
<1> QED
  BY <1>1, <1>2, <1>3, <1>4, <1>5, RowAllowance, RowRefund, StepsOfMoney

(* Every usage row is exactly the live charges made against its
   subscription and period, and never exceeds the plan: releases give back
   to the row they took from, whatever plan or period has come since. *)
THEOREM AllowanceMatches == Spec => []AllowanceMatchesLedger
PROOF
<1> DEFINE Match == \A row \in SubIds \X Days : RowMatches(row)
<1>1. Init => Match
  <2> SUFFICES ASSUME Init, NEW row \in SubIds \X Days PROVE RowMatches(row)
    OBVIOUS
  <2>1. Against(row) = {} /\ usage[row] = NoUsage
    BY DEF Init, Against, OnRail, NoCharge
  <2> QED
    BY <2>1, SumEmpty, FS_EmptySet DEF RowMatches, NoUsage
<1>2. BookInv /\ Match /\ [Next]_vars => Match'
  BY AllowanceStep
<1>3. Match => AllowanceMatchesLedger
  BY AllowanceAsSums
<1> HIDE DEF Match
<1> QED
  BY <1>1, <1>2, <1>3, BookInvHolds, PTL DEF Spec

---------------------------------------------------------------------------
\* The live charges of the month of a day, and of an agent on a day.
MonthOf(t) == {c \in Calls : Live(c) /\ MonthStart(charge[c].at) = MonthStart(t)}
DayOf(a, t) == {c \in Calls : Live(c) /\ AgentOf[c] = a /\ charge[c].at = t}

LimitsKept ==
  \A t \in Days :
    /\ ~Exceeds(SumFunctionOnSet(PriceOf, MonthOf(t)), MonthlyLimit)
    /\ \A a \in Agents : ~Exceeds(SumFunctionOnSet(PriceOf, DayOf(a, t)), DailyLimitOf[a])

LEMMA LimitsAsSums == SpendWithinLimits <=> LimitsKept
PROOF
<1>1. ASSUME NEW S PROVE Sum(S, LAMBDA c : PriceOf[c]) = SumFunctionOnSet(PriceOf, S)
  BY DEF Sum, MapThenSumSet, SumFunctionOnSet, FoldFunctionOnSet
<1>2. ASSUME NEW t \in Days
      PROVE  /\ Sum(MonthOf(t), LAMBDA c : PriceOf[c]) = SumFunctionOnSet(PriceOf, MonthOf(t))
             /\ \A a \in Agents : Sum(DayOf(a, t), LAMBDA c : PriceOf[c])
                                    = SumFunctionOnSet(PriceOf, DayOf(a, t))
  BY DEF Sum, MapThenSumSet, SumFunctionOnSet, FoldFunctionOnSet
<1> QED
  BY <1>2 DEF SpendWithinLimits, LimitsKept, MonthOf, DayOf

\* A month starts no later than any of its days.
LEMMA MonthStartsBefore ==
  ASSUME NEW t \in Nat
  PROVE  MonthStart(t) \in Nat /\ MonthStart(t) <= t
PROOF
BY FundsAssumption DEF MonthStart

\* What the live charges cost is a natural number, also in part.
LEMMA SpendIsNat ==
  ASSUME BookInv, NEW S \in SUBSET Booked
  PROVE  /\ IsFiniteSet(S) /\ \A c \in S : PriceOf[c] \in Nat
         /\ SumFunctionOnSet(PriceOf, S) \in Nat
PROOF
<1>1. IsFiniteSet(S) /\ \A c \in S : PriceOf[c] \in Nat
  BY FS_Subset, CallsAssumption DEF BookInv, RowsInv, Booked
<1> QED
  BY <1>1, SumNat

\* A set of charges that only loses members stays within a limit.
LEMMA FewerCharges ==
  ASSUME BookInv, NEW S \in SUBSET Booked, NEW T \in SUBSET S,
         NEW limit \in Nat \cup {NoLimit}, ~Exceeds(SumFunctionOnSet(PriceOf, S), limit)
  PROVE  ~Exceeds(SumFunctionOnSet(PriceOf, T), limit)
PROOF
<1>1. IsFiniteSet(S) /\ \A c \in S : PriceOf[c] \in Nat
  BY SpendIsNat
<1>2. SumFunctionOnSet(PriceOf, T) <= SumFunctionOnSet(PriceOf, S)
  BY <1>1, SumOfPart
<1>3. SumFunctionOnSet(PriceOf, S) \in Nat /\ SumFunctionOnSet(PriceOf, T) \in Nat
  BY SpendIsNat
<1> QED
  BY <1>2, <1>3 DEF Exceeds

\* A new charge that fits a limit together with a larger set of charges.
LEMMA OneMoreCharge ==
  ASSUME BookInv, NEW S \in SUBSET Booked, NEW T \in SUBSET S, NEW c \in Calls \ S,
         NEW limit \in Nat \cup {NoLimit},
         ~Exceeds(SumFunctionOnSet(PriceOf, S) + PriceOf[c], limit)
  PROVE  ~Exceeds(SumFunctionOnSet(PriceOf, T \cup {c}), limit)
PROOF
<1>1. IsFiniteSet(S) /\ IsFiniteSet(T) /\ \A d \in S : PriceOf[d] \in Nat
  BY SpendIsNat
<1>2. PriceOf[c] \in Nat
  BY CallsAssumption
<1>3. SumFunctionOnSet(PriceOf, T \cup {c}) = SumFunctionOnSet(PriceOf, T) + PriceOf[c]
  BY <1>1, <1>2, SumAdd
<1>4. SumFunctionOnSet(PriceOf, T) <= SumFunctionOnSet(PriceOf, S)
  BY <1>1, SumOfPart
<1>5. SumFunctionOnSet(PriceOf, S) \in Nat /\ SumFunctionOnSet(PriceOf, T) \in Nat
  BY SpendIsNat
<1> QED
  BY <1>2, <1>3, <1>4, <1>5 DEF Exceeds

\* A reservation has compared its price and what was spent since with both
\* limits.
LEMMA ReserveStep ==
  ASSUME BookInv, LimitsKept, NEW c \in Calls, ~OverLimit(c),
         charge[c].status = "none", charge'[c].at = at[c],
         \A d \in Calls \ {c} : charge'[d] = charge[d]
  PROVE  LimitsKept'
PROOF
<1> DEFINE since(S, t) == {d \in S : Live(d) /\ charge[d].at >= t}
           mine == {d \in Calls : AgentOf[d] = AgentOf[c]}
           month == since(Calls, MonthStart(at[c]))
           day == since(mine, at[c])
<1>1. /\ at[c] \in Days /\ at[c] \in Nat /\ AgentOf[c] \in Agents
      /\ \A d \in Calls : charge[d].at \in Nat /\ AgentOf[d] \in Agents
  BY CallsAssumption, FundsAssumption DEF BookInv, TypeOK, Days, ChargeRows
<1>2. /\ Spent(Calls, MonthStart(at[c])) = SumFunctionOnSet(PriceOf, month)
      /\ Spent(mine, at[c]) = SumFunctionOnSet(PriceOf, day)
  BY DEF Spent, MapThenSumSet, SumFunctionOnSet, FoldFunctionOnSet
<1>3. /\ ~Exceeds(SumFunctionOnSet(PriceOf, month) + PriceOf[c], MonthlyLimit)
      /\ ~Exceeds(SumFunctionOnSet(PriceOf, day) + PriceOf[c], DailyLimitOf[AgentOf[c]])
  BY <1>2 DEF OverLimit
<1>4. /\ month \in SUBSET Booked /\ day \in SUBSET Booked
      /\ c \notin month /\ c \notin day
  BY DEF Booked, Live
<1>5. ASSUME NEW t \in Days PROVE ~Exceeds(SumFunctionOnSet(PriceOf, MonthOf(t)'), MonthlyLimit)
  <2>1. MonthOf(t) \in SUBSET Booked /\ ~Exceeds(SumFunctionOnSet(PriceOf, MonthOf(t)), MonthlyLimit)
    BY DEF MonthOf, Booked, Live, LimitsKept
  <2>2. CASE MonthStart(t) = MonthStart(at[c]) /\ Live(c)'
    <3>1. MonthOf(t)' = MonthOf(t) \cup {c}
      BY <2>2 DEF MonthOf, Live
    <3>2. MonthOf(t) \in SUBSET month
      BY <1>1, <2>2, MonthStartsBefore DEF MonthOf
    <3> HIDE DEF month
    <3> QED
      BY <1>3, <1>4, <3>1, <3>2, OneMoreCharge, LimitsAssumption
  <2>3. CASE ~(MonthStart(t) = MonthStart(at[c]) /\ Live(c)')
    <3>1. MonthOf(t)' = MonthOf(t)
      BY <2>3 DEF MonthOf, Live
    <3> QED
      BY <2>1, <3>1
  <2> QED
    BY <2>2, <2>3
<1>6. ASSUME NEW t \in Days, NEW a \in Agents
      PROVE  ~Exceeds(SumFunctionOnSet(PriceOf, DayOf(a, t)'), DailyLimitOf[a])
  <2>1. DayOf(a, t) \in SUBSET Booked /\ ~Exceeds(SumFunctionOnSet(PriceOf, DayOf(a, t)), DailyLimitOf[a])
    BY DEF DayOf, Booked, Live, LimitsKept
  <2>2. CASE t = at[c] /\ a = AgentOf[c] /\ Live(c)'
    <3>1. DayOf(a, t)' = DayOf(a, t) \cup {c}
      BY <2>2 DEF DayOf, Live
    <3>2. DayOf(a, t) \in SUBSET day
      BY <1>1, <2>2 DEF DayOf
    <3>3. DailyLimitOf[a] \in Nat \cup {NoLimit}
      BY LimitsAssumption
    <3>4. ~Exceeds(SumFunctionOnSet(PriceOf, day) + PriceOf[c], DailyLimitOf[a])
      BY <1>3, <2>2
    <3> HIDE DEF day, mine
    <3>5. ~Exceeds(SumFunctionOnSet(PriceOf, DayOf(a, t) \cup {c}), DailyLimitOf[a])
      BY <1>4, <3>2, <3>3, <3>4, OneMoreCharge
    <3> QED
      BY <3>1, <3>5
  <2>3. CASE ~(t = at[c] /\ a = AgentOf[c] /\ Live(c)')
    <3>1. DayOf(a, t)' = DayOf(a, t)
      BY <2>3 DEF DayOf, Live
    <3> QED
      BY <2>1, <3>1
  <2> QED
    BY <2>2, <2>3
<1> QED
  BY <1>5, <1>6 DEF LimitsKept

LEMMA LimitsStep ==
  ASSUME BookInv, LimitsKept, [Next]_vars
  PROVE  LimitsKept'
PROOF
<1>1. TypeOK /\ TypeOK'
  BY TypeNext DEF BookInv
<1>2. ASSUME \A c \in Calls : /\ charge'[c].at = charge[c].at
                              /\ Live(c)' => Live(c)
      PROVE  LimitsKept'
  <2>1. ASSUME NEW t \in Days PROVE ~Exceeds(SumFunctionOnSet(PriceOf, MonthOf(t)'), MonthlyLimit)
    <3>1. MonthOf(t) \in SUBSET Booked /\ MonthOf(t)' \in SUBSET MonthOf(t)
      BY <1>2 DEF MonthOf, Booked, Live
    <3>2. ~Exceeds(SumFunctionOnSet(PriceOf, MonthOf(t)), MonthlyLimit)
      BY DEF LimitsKept
    <3> QED
      BY <3>1, <3>2, FewerCharges, LimitsAssumption
  <2>2. ASSUME NEW t \in Days, NEW a \in Agents
        PROVE  ~Exceeds(SumFunctionOnSet(PriceOf, DayOf(a, t)'), DailyLimitOf[a])
    <3>1. DayOf(a, t) \in SUBSET Booked /\ DayOf(a, t)' \in SUBSET DayOf(a, t)
      BY <1>2 DEF DayOf, Booked, Live
    <3>2. ~Exceeds(SumFunctionOnSet(PriceOf, DayOf(a, t)), DailyLimitOf[a])
      BY DEF LimitsKept
    <3>3. DailyLimitOf[a] \in Nat \cup {NoLimit}
      BY LimitsAssumption
    <3> QED
      BY <3>1, <3>2, <3>3, FewerCharges
  <2> QED
    BY <2>1, <2>2 DEF LimitsKept
<1>3. CASE Untouched \/ \E t \in TopUps : ApplyCredit(t)
  BY <1>2, <1>3 DEF Untouched, ApplyCredit, Live
<1>4. ASSUME NEW c \in Calls, ReserveAllowance(c) PROVE LimitsKept'
  <2>1. charge[c].status = "none" /\ ~OverLimit(c)
    BY <1>4 DEF ReserveAllowance, Reserving, BookInv, Unreserved
  <2>2. PICK s, p :
          charge' = [charge EXCEPT ![c] = [status |-> "pending", rail |-> "subscription",
                                           sub |-> s, period |-> p, at |-> at[c]]]
    BY <1>1, <1>4, AllowanceBooks
  <2>3. charge'[c].at = at[c] /\ \A d \in Calls \ {c} : charge'[d] = charge[d]
    BY <1>1, <2>2 DEF TypeOK
  <2> QED
    BY <2>1, <2>3, ReserveStep
<1>5. ASSUME NEW c \in Calls, ReserveCredits(c) PROVE LimitsKept'
  <2>1. charge[c].status = "none" /\ ~OverLimit(c)
    BY <1>5 DEF ReserveCredits, Reserving, BookInv, Unreserved
  <2>2. charge'[c].at = at[c] /\ \A d \in Calls \ {c} : charge'[d] = charge[d]
    BY <1>1, <1>5 DEF ReserveCredits, TypeOK
  <2> QED
    BY <2>1, <2>2, ReserveStep
<1>6. ASSUME NEW c \in Calls, SettlesOne(c) \/ RefundsOne(c) PROVE LimitsKept'
  <2>1. /\ \A d \in Calls \ {c} : charge'[d] = charge[d]
        /\ charge'[c].at = charge[c].at /\ charge[c].status = "pending"
    <3>1. /\ charge \in [Calls -> ChargeRows] /\ charge[c] \in ChargeRows
          /\ charge[c].status = "pending"
      BY <1>1, <1>6 DEF SettlesOne, RefundsOne, TypeOK
    <3>2. PICK s \in {"settled", "refunded"} : charge' = [charge EXCEPT ![c].status = s]
      BY <1>6 DEF SettlesOne, RefundsOne, Refund
    <3>3. charge'[c] = [charge[c] EXCEPT !.status = s]
      BY <3>1, <3>2
    <3>4. charge'[c].at = charge[c].at
      BY <3>1, <3>3 DEF ChargeRows
    <3> QED
      BY <3>1, <3>2, <3>4
  <2> QED
    BY <1>2, <2>1 DEF Live
<1> QED
  BY <1>3, <1>4, <1>5, <1>6, StepsOfMoney

(* No month of the account and no day of an agent is ever booked over its
   spend limit, although a call reads the clock before it waits for the
   account's lock. *)
THEOREM SpendLimited == Spec => []SpendWithinLimits
PROOF
<1>1. Init => LimitsKept
  <2> SUFFICES ASSUME Init PROVE LimitsKept
    OBVIOUS
  <2>1. \A t \in Days : MonthOf(t) = {} /\ \A a \in Agents : DayOf(a, t) = {}
    BY DEF Init, MonthOf, DayOf, Live, NoCharge
  <2>2. \A l \in Nat \cup {NoLimit} : ~Exceeds(0, l)
    BY DEF Exceeds
  <2> QED
    BY <2>1, <2>2, SumEmpty, LimitsAssumption DEF LimitsKept
<1>2. BookInv /\ LimitsKept /\ [Next]_vars => LimitsKept'
  BY LimitsStep
<1> QED
  BY <1>1, <1>2, BookInvHolds, LimitsAsSums, PTL DEF Spec

---------------------------------------------------------------------------
(* Replays.                                                                *)

\* A completed row names a delivered call of its key with the row's body,
\* and whoever was served a replay got the result of such a call.
RepliesInv ==
  /\ \A k \in Keys : idem[k].status = "completed" =>
       /\ idem[k].entry \in Calls /\ KeyOf[idem[k].entry] = k
       /\ BodyOf[idem[k].entry] = idem[k].body /\ pc[idem[k].entry] = "delivered"
  /\ ReplayIsFaithful

\* Only the settlement of a call completes a row, and a delivered call
\* stays delivered.
LEMMA StepsOfReplies ==
  ASSUME TypeOK, RepliesInv, [Next]_vars
  PROVE  /\ \A d \in Calls : pc[d] = "delivered" => pc'[d] = "delivered"
         /\ \A k \in Keys : idem'[k].status = "completed" =>
              \/ idem'[k] = idem[k]
              \/ \E c \in Calls :
                   KeyOf[c] = k /\ idem'[k].entry = c /\ idem'[k].body = BodyOf[c]
                     /\ pc'[c] = "delivered"
         /\ \A d \in Calls : pc'[d] = "replayed" =>
              \/ pc[d] = "replayed" /\ answer'[d] = answer[d]
              \/ /\ Keyed(d) /\ Row(d).status = "completed"
                 /\ Row(d).body = BodyOf[d] /\ answer'[d] = Row(d).entry
PROOF
<1> USE DEF TypeOK, account, money
<1>1. ASSUME NEW c \in Calls, Authenticate(c) \/ AuthorizeFree(c) \/ ReserveRefused(c)
             \/ SettleLost(c) \/ ReleaseLost(c) \/ Crash(c)
      PROVE  /\ idem' = idem
             /\ \A d \in Calls : /\ pc[d] = "delivered" => pc'[d] = "delivered"
                                 /\ pc'[d] = "replayed" =>
                                      pc[d] = "replayed" /\ answer'[d] = answer[d]
  BY <1>1 DEF Authenticate, AuthorizeFree, ReserveRefused, Reserving, SettleLost, ReleaseLost, Crash
<1>2. ASSUME NEW c \in Calls, ReserveReplay(c)
      PROVE  /\ idem' = idem /\ Keyed(c) /\ Row(c).status = "completed" /\ Row(c).body = BodyOf[c]
             /\ answer'[c] = Row(c).entry
             /\ \A d \in Calls : /\ pc[d] = "delivered" => pc'[d] = "delivered"
                                 /\ d # c /\ pc'[d] = "replayed" =>
                                      pc[d] = "replayed" /\ answer'[d] = answer[d]
  BY <1>2 DEF ReserveReplay, Reserving
<1>3. ASSUME NEW c \in Calls, ReserveUnfunded(c) \/ ReserveAllowance(c) \/ ReserveCredits(c)
      PROVE  /\ \A k \in Keys : idem'[k].status = "completed" => idem'[k] = idem[k]
             /\ \A d \in Calls : /\ pc[d] = "delivered" => pc'[d] = "delivered"
                                 /\ pc'[d] = "replayed" =>
                                      pc[d] = "replayed" /\ answer'[d] = answer[d]
  BY <1>3 DEF ReserveUnfunded, ReserveAllowance, ReserveCredits, Reserving, SetRow
<1>4. ASSUME NEW c \in Calls, Settle(c)
      PROVE  /\ pc'[c] = "delivered"
             /\ \A k \in Keys : \/ idem'[k] = idem[k]
                                \/ KeyOf[c] = k /\ idem'[k].entry = c /\ idem'[k].body = BodyOf[c]
             /\ \A d \in Calls : /\ pc[d] = "delivered" => pc'[d] = "delivered"
                                 /\ pc'[d] = "replayed" =>
                                      pc[d] = "replayed" /\ answer'[d] = answer[d]
  BY <1>4 DEF Settle, SetRow
<1>5. ASSUME NEW c \in Calls, Release(c) \/ ReleaseStale(c)
      PROVE  /\ \A k \in Keys : idem'[k].status = "completed" => idem'[k] = idem[k]
             /\ \A d \in Calls : /\ pc[d] = "delivered" => pc'[d] = "delivered"
                                 /\ pc'[d] = "replayed" =>
                                      pc[d] = "replayed" /\ answer'[d] = answer[d]
  <2>1. CASE Release(c)
    <3>1. /\ pc[c] = "executing" /\ pc' = [pc EXCEPT ![c] = "failed"] /\ answer' = answer
          /\ \/ idem' = idem
             \/ idem' = [idem EXCEPT ![KeyOf[c]].status = "failed"]
      BY <2>1 DEF Release
    <3>2. \A k \in Keys : idem'[k] = idem[k] \/ idem'[k].status = "failed"
      BY <3>1 DEF KeyRows
    <3> QED
      BY <3>1, <3>2
  <2>2. CASE ReleaseStale(c)
    <3>1. \A k \in Keys : idem'[k] = idem[k] \/ idem'[k].status = "failed"
      BY <2>2 DEF ReleaseStale, KeyRows
    <3> QED
      BY <2>2, <3>1 DEF ReleaseStale
  <2> QED
    BY <1>5, <2>1, <2>2
<1>6. ASSUME \/ \E t \in TopUps : ApplyCredit(t)
             \/ \E p \in Plans : AssignSubscription(p)
             \/ \E a \in Agents : RevokeKey(a)
             \/ CancelSubscription \/ SetAccountStatus \/ NextDay \/ UNCHANGED vars
      PROVE  idem' = idem /\ pc' = pc /\ answer' = answer
  BY <1>6 DEF ApplyCredit, AssignSubscription, RevokeKey, CancelSubscription,
              SetAccountStatus, NextDay, vars
<1> HIDE DEF TypeOK, account, money
<1> QED
  BY <1>1, <1>2, <1>3, <1>4, <1>5, <1>6 DEF Next, Finish

(* A replayed answer is the result of a delivered call of the same key and
   the same request, whatever happened to the key in between. *)
THEOREM ReplaysAreFaithful == Spec => []ReplayIsFaithful
PROOF
<1>1. Init => RepliesInv
  BY DEF Init, RepliesInv, ReplayIsFaithful, NoRow
<1>2. TypeOK /\ RepliesInv /\ [Next]_vars => RepliesInv'
  <2> SUFFICES ASSUME TypeOK, RepliesInv, [Next]_vars PROVE RepliesInv'
    OBVIOUS
  <2>1. ASSUME NEW k \in Keys, idem'[k].status = "completed"
        PROVE  /\ idem'[k].entry \in Calls /\ KeyOf[idem'[k].entry] = k
               /\ BodyOf[idem'[k].entry] = idem'[k].body /\ pc'[idem'[k].entry] = "delivered"
    BY <2>1, StepsOfReplies DEF RepliesInv
  <2>2. ASSUME NEW d \in Calls, pc'[d] = "replayed"
        PROVE  /\ answer'[d] \in Calls /\ KeyOf[answer'[d]] = KeyOf[d]
               /\ BodyOf[answer'[d]] = BodyOf[d] /\ pc'[answer'[d]] = "delivered"
    <3>1. CASE pc[d] = "replayed" /\ answer'[d] = answer[d]
      BY <3>1, StepsOfReplies DEF RepliesInv, ReplayIsFaithful
    <3>2. CASE /\ Keyed(d) /\ Row(d).status = "completed"
               /\ Row(d).body = BodyOf[d] /\ answer'[d] = Row(d).entry
      <4>1. KeyOf[d] \in Keys
        BY <3>2, CallsAssumption DEF Keyed
      <4> QED
        BY <3>2, <4>1, StepsOfReplies DEF RepliesInv, Row
    <3> QED
      BY <2>2, <3>1, <3>2, StepsOfReplies
  <2> QED
    BY <2>1, <2>2 DEF RepliesInv, ReplayIsFaithful
<1>3. RepliesInv => ReplayIsFaithful
  BY DEF RepliesInv
<1> QED
  BY <1>1, <1>2, <1>3, TypeCorrect, PTL DEF Spec

---------------------------------------------------------------------------
(* Keys.  From here on no capability outlives the TTL.                     *)

\* A call that is running has its price held, or costs nothing.
RunningHolds ==
  \A c \in Calls : pc[c] = "executing" /\ PriceOf[c] > 0 => charge[c].status = "pending"

KeyInv == TypeOK /\ Unreserved /\ RunningHolds /\ KeyOwnership

\* While a key admits a reservation no charge is live under it.
LEMMA AdmittedKeyIsFree ==
  ASSUME KeyInv, NEW c \in Calls, NEW d \in Calls, KeyAdmits(c),
         Keyed(c), KeyOf[c] = KeyOf[d]
  PROVE  ~Live(d)
PROOF
BY DEF KeyInv, KeyOwnership, KeyAdmits, Live, Keyed, Row

\* A running call that holds its price owns the row of its key.
LEMMA RunningOwnsItsKey ==
  ASSUME KeyInv, NEW c \in Calls, pc[c] = "executing", PriceOf[c] > 0, Keyed(c)
  PROVE  charge[c].status = "pending" /\ Row(c).status = "in_progress" /\ Row(c).entry = c
PROOF
BY DEF KeyInv, KeyOwnership, RunningHolds

\* Two live charges of one key are the same charge.
LEMMA OneOwner ==
  ASSUME KeyInv, NEW c \in Calls, NEW d \in Calls, Live(c), Live(d),
         Keyed(c), KeyOf[c] = KeyOf[d]
  PROVE  c = d
PROOF
BY DEF KeyInv, KeyOwnership, Live, Keyed, Row

LEMMA KeyInvInit == Init => KeyInv
PROOF
BY TypeInit DEF Init, KeyInv, Unreserved, RunningHolds, KeyOwnership, NoCharge, NoRow, Keyed, Row

\* One call's charge and the row of its key change together, while no other
\* charge of that key is live.
LEMMA OneKeyChanges ==
  ASSUME KeyInv, NEW c \in Calls,
         \A d \in Calls \ {c} : charge'[d] = charge[d],
         \A k \in Keys : (Keyed(c) => k # KeyOf[c]) => idem'[k] = idem[k],
         Keyed(c) => \A d \in Calls \ {c} : KeyOf[d] = KeyOf[c] => ~Live(d),
         Keyed(c) =>
           \/ /\ charge'[c].status = "pending"
              /\ idem'[KeyOf[c]].status = "in_progress" /\ idem'[KeyOf[c]].entry = c
           \/ /\ charge'[c].status = "settled"
              /\ idem'[KeyOf[c]].status = "completed" /\ idem'[KeyOf[c]].entry = c
           \/ /\ charge'[c].status \notin {"pending", "settled"}
              /\ idem'[KeyOf[c]].status \notin {"in_progress", "completed"}
  PROVE  KeyOwnership'
PROOF
<1>1. \A d \in Calls : Keyed(d) => KeyOf[d] \in Keys
  BY CallsAssumption DEF Keyed
<1>2. ASSUME NEW d \in Calls, Keyed(d), charge'[d].status \in {"pending", "settled"}
      PROVE  /\ charge'[d].status = "pending" =>
                  idem'[KeyOf[d]].status = "in_progress" /\ idem'[KeyOf[d]].entry = d
             /\ charge'[d].status = "settled" =>
                  idem'[KeyOf[d]].status = "completed" /\ idem'[KeyOf[d]].entry = d
  <2>1. CASE d = c
    BY <1>2, <2>1
  <2>2. CASE d # c
    <3>1. charge'[d] = charge[d] /\ Live(d)
      BY <1>2, <2>2 DEF Live
    <3>2. Keyed(c) => KeyOf[d] # KeyOf[c]
      BY <2>2, <3>1
    <3>3. idem'[KeyOf[d]] = idem[KeyOf[d]]
      BY <1>1, <1>2, <3>2
    <3> QED
      BY <1>2, <3>1, <3>3 DEF KeyInv, KeyOwnership, Row
  <2> QED
    BY <2>1, <2>2
<1>3. ASSUME NEW k \in Keys, idem'[k].status \in {"in_progress", "completed"}
      PROVE  /\ idem'[k].entry \in Calls /\ KeyOf[idem'[k].entry] = k
             /\ charge'[idem'[k].entry].status =
                  IF idem'[k].status = "completed" THEN "settled" ELSE "pending"
  <2>1. CASE Keyed(c) /\ k = KeyOf[c]
    BY <1>3, <2>1
  <2>2. CASE Keyed(c) => k # KeyOf[c]
    <3>1. idem'[k] = idem[k]
      BY <2>2
    <3>2. idem[k].entry \in Calls /\ KeyOf[idem[k].entry] = k
      BY <1>3, <3>1 DEF KeyInv, KeyOwnership
    <3>3. idem[k].entry # c
      BY <2>2, <3>2, CallsAssumption DEF Keyed
    <3> QED
      BY <1>3, <3>1, <3>2, <3>3 DEF KeyInv, KeyOwnership
  <2> QED
    BY <2>1, <2>2
<1> QED
  BY <1>2, <1>3 DEF KeyOwnership, Keyed, Row

\* A reservation of c that writes its key in progress.
LEMMA ReserveKeepsKeys ==
  ASSUME KeyInv, TypeOK', NEW c \in Calls, KeyAdmits(c),
         pc[c] = "authenticated", pc' = [pc EXCEPT ![c] = "executing"],
         charge'[c].status = "pending", \A d \in Calls \ {c} : charge'[d] = charge[d],
         SetRow(c, "in_progress", c)
  PROVE  KeyInv'
PROOF
<1>1. Unreserved' /\ RunningHolds'
  BY DEF KeyInv, TypeOK, Unreserved, RunningHolds
<1>2. Keyed(c) => KeyOf[c] \in Keys
  BY CallsAssumption DEF Keyed
<1>3. Keyed(c) => idem'[KeyOf[c]].status = "in_progress" /\ idem'[KeyOf[c]].entry = c
  BY <1>2 DEF KeyInv, TypeOK, SetRow
<1>4. \A k \in Keys : (Keyed(c) => k # KeyOf[c]) => idem'[k] = idem[k]
  BY <1>2 DEF KeyInv, TypeOK, SetRow
<1>5. Keyed(c) => \A d \in Calls \ {c} : KeyOf[d] = KeyOf[c] => ~Live(d)
  BY AdmittedKeyIsFree
<1>6. KeyOwnership'
  BY <1>3, <1>4, <1>5, OneKeyChanges
<1> QED
  BY <1>1, <1>6 DEF KeyInv

\* A refund of c that fails the row it owns.
LEMMA RefundKeepsKeys ==
  ASSUME KeyInv, TypeOK', NEW c \in Calls, charge[c].status = "pending",
         charge'[c].status = "refunded", \A d \in Calls \ {c} : charge'[d] = charge[d],
         \A d \in Calls : pc'[d] = pc[d] \/ (d = c /\ pc'[d] = "failed"),
         pc'[c] # "executing",
         \A k \in Keys : idem'[k] = IF Keyed(c) /\ k = KeyOf[c]
                                    THEN [idem[k] EXCEPT !.status = "failed"] ELSE idem[k]
  PROVE  KeyInv'
PROOF
<1>1. Unreserved' /\ RunningHolds'
  BY DEF KeyInv, Unreserved, RunningHolds
<1>2. Keyed(c) => KeyOf[c] \in Keys
  BY CallsAssumption DEF Keyed
<1>3. Keyed(c) => idem'[KeyOf[c]].status = "failed"
  BY <1>2 DEF KeyInv, TypeOK, KeyRows
<1>4. \A k \in Keys : (Keyed(c) => k # KeyOf[c]) => idem'[k] = idem[k]
  OBVIOUS
<1>5. Keyed(c) => \A d \in Calls \ {c} : KeyOf[d] = KeyOf[c] => ~Live(d)
  BY OneOwner DEF Live
<1>6. KeyOwnership'
  BY <1>3, <1>4, <1>5, OneKeyChanges
<1> QED
  BY <1>1, <1>6 DEF KeyInv

\* Steps that touch neither charges nor rows, nor start a paid execution.
LEMMA QuietKeepsKeys ==
  ASSUME KeyInv, TypeOK', charge' = charge, idem' = idem,
         \A d \in Calls : pc'[d] \in {"idle", "authenticated"} =>
                            pc[d] \in {"idle", "authenticated"},
         \A d \in Calls : pc'[d] = "executing" => pc[d] = "executing" \/ PriceOf[d] = 0
  PROVE  KeyInv'
PROOF
BY CallsAssumption DEF KeyInv, Unreserved, RunningHolds, KeyOwnership, Keyed, Row

LEMMA KeyInvNext ==
  ASSUME SlowCalls = {}, KeyInv, [Next]_vars
  PROVE  KeyInv'
PROOF
<1>1. TypeOK'
  BY TypeNext DEF KeyInv
<1>2. TypeOK
  BY DEF KeyInv
<1> USE DEF account, money
<1>3. ASSUME NEW c \in Calls, Authenticate(c) PROVE KeyInv'
  <2>1. \/ pc' = [pc EXCEPT ![c] = "authenticated"]
        \/ pc' = [pc EXCEPT ![c] = "refused"]
    BY <1>3 DEF Authenticate
  <2>2. pc[c] = "idle" /\ charge' = charge /\ idem' = idem
    BY <1>3 DEF Authenticate
  <2> QED
    BY <2>1, <2>2, <1>1, <1>2, QuietKeepsKeys DEF TypeOK
<1>4. ASSUME NEW c \in Calls, AuthorizeFree(c) \/ ReserveRefused(c) \/ ReserveReplay(c)
      PROVE  KeyInv'
  BY <1>4, <1>1, <1>2, QuietKeepsKeys DEF AuthorizeFree, ReserveRefused, ReserveReplay, TypeOK
<1>5. ASSUME NEW c \in Calls, ReserveUnfunded(c) PROVE KeyInv'
  <2>1. /\ pc[c] = "authenticated" /\ pc' = [pc EXCEPT ![c] = "refused"]
        /\ charge' = charge /\ KeyAdmits(c) /\ SetRow(c, "failed", NoCall)
    BY <1>5 DEF ReserveUnfunded, Reserving
  <2>2. Unreserved' /\ RunningHolds'
    BY <2>1, <1>2 DEF KeyInv, Unreserved, RunningHolds, TypeOK
  <2>3. Keyed(c) => KeyOf[c] \in Keys
    BY CallsAssumption DEF Keyed
  <2>4. charge'[c].status \notin {"pending", "settled"}
    BY <2>1 DEF KeyInv, Unreserved
  <2>5. Keyed(c) => idem'[KeyOf[c]].status = "failed"
    BY <2>1, <2>3, <1>2 DEF SetRow, TypeOK
  <2>6. \A k \in Keys : (Keyed(c) => k # KeyOf[c]) => idem'[k] = idem[k]
    BY <2>1, <2>3, <1>2 DEF SetRow, TypeOK
  <2>7. Keyed(c) => \A d \in Calls \ {c} : KeyOf[d] = KeyOf[c] => ~Live(d)
    BY <2>1, AdmittedKeyIsFree
  <2>8. KeyOwnership'
    BY <2>1, <2>4, <2>5, <2>6, <2>7, OneKeyChanges
  <2> QED
    BY <1>1, <2>2, <2>8 DEF KeyInv
<1>6. ASSUME NEW c \in Calls, ReserveAllowance(c) PROVE KeyInv'
  <2>1. /\ pc[c] = "authenticated" /\ pc' = [pc EXCEPT ![c] = "executing"]
        /\ KeyAdmits(c) /\ SetRow(c, "in_progress", c)
        /\ \E s \in ActiveSubs : charge' = [charge EXCEPT ![c] =
             [status |-> "pending", rail |-> "subscription", sub |-> s,
              period |-> PeriodOf(s, at[c]), at |-> at[c]]]
    BY <1>6 DEF ReserveAllowance, Reserving
  <2>2. charge'[c].status = "pending" /\ \A d \in Calls \ {c} : charge'[d] = charge[d]
    BY <2>1, <1>2 DEF TypeOK
  <2> QED
    BY <2>1, <2>2, <1>1, ReserveKeepsKeys
<1>7. ASSUME NEW c \in Calls, ReserveCredits(c) PROVE KeyInv'
  <2>1. /\ pc[c] = "authenticated" /\ pc' = [pc EXCEPT ![c] = "executing"]
        /\ KeyAdmits(c) /\ SetRow(c, "in_progress", c)
    BY <1>7 DEF ReserveCredits, Reserving
  <2>2. charge'[c].status = "pending" /\ \A d \in Calls \ {c} : charge'[d] = charge[d]
    BY <1>7, <1>2 DEF ReserveCredits, TypeOK
  <2> QED
    BY <2>1, <2>2, <1>1, ReserveKeepsKeys
<1>8. ASSUME NEW c \in Calls, Settle(c) PROVE KeyInv'
  <2>1. pc[c] = "executing" /\ pc' = [pc EXCEPT ![c] = "delivered"]
    BY <1>8 DEF Settle
  <2>2. CASE PriceOf[c] = 0
    <3>1. charge' = charge /\ idem' = idem
      BY <1>8, <2>2 DEF Settle
    <3> QED
      BY <2>1, <3>1, <1>1, <1>2, QuietKeepsKeys DEF TypeOK
  <2>3. CASE PriceOf[c] # 0
    <3>1. PriceOf[c] > 0 /\ charge[c].status = "pending"
      BY <2>1, <2>3, CallsAssumption DEF KeyInv, RunningHolds
    <3>2. charge' = [charge EXCEPT ![c].status = "settled"] /\ SetRow(c, "completed", c)
      BY <1>8, <2>3, <3>1 DEF Settle, SettleEntry
    <3>3. charge'[c].status = "settled" /\ \A d \in Calls \ {c} : charge'[d] = charge[d]
      BY <3>2, <1>2 DEF TypeOK, ChargeRows
    <3>4. Unreserved' /\ RunningHolds'
      BY <2>1, <3>3, <1>2 DEF KeyInv, Unreserved, RunningHolds, TypeOK
    <3>5. Keyed(c) => KeyOf[c] \in Keys
      BY CallsAssumption DEF Keyed
    <3>6. Keyed(c) => idem'[KeyOf[c]].status = "completed" /\ idem'[KeyOf[c]].entry = c
      BY <3>2, <3>5, <1>2 DEF SetRow, TypeOK
    <3>7. \A k \in Keys : (Keyed(c) => k # KeyOf[c]) => idem'[k] = idem[k]
      BY <3>2, <3>5, <1>2 DEF SetRow, TypeOK
    <3>8. Keyed(c) => \A d \in Calls \ {c} : KeyOf[d] = KeyOf[c] => ~Live(d)
      BY <3>1, OneOwner DEF Live
    <3>9. KeyOwnership'
      BY <3>3, <3>6, <3>7, <3>8, OneKeyChanges
    <3> QED
      BY <1>1, <3>4, <3>9 DEF KeyInv
  <2> QED
    BY <2>2, <2>3
<1>9. ASSUME NEW c \in Calls, Refund(c)
      PROVE  charge'[c].status = "refunded" /\ \A d \in Calls \ {c} : charge'[d] = charge[d]
  BY <1>9, <1>2 DEF Refund, TypeOK, ChargeRows
<1>10. ASSUME NEW c \in Calls, Release(c) PROVE KeyInv'
  <2>1. pc[c] = "executing" /\ pc' = [pc EXCEPT ![c] = "failed"]
    BY <1>10 DEF Release
  <2>2. CASE PriceOf[c] = 0
    <3>1. charge' = charge /\ idem' = idem
      BY <1>10, <2>2 DEF Release
    <3> QED
      BY <2>1, <3>1, <1>1, <1>2, QuietKeepsKeys DEF TypeOK
  <2>3. CASE PriceOf[c] # 0
    <3>1. PriceOf[c] > 0 /\ charge[c].status = "pending"
      BY <2>1, <2>3, CallsAssumption DEF KeyInv, RunningHolds
    <3>2. Keyed(c) => Row(c).status = "in_progress" /\ KeyOf[c] \in Keys
      BY <3>1, CallsAssumption DEF KeyInv, KeyOwnership, Keyed
    <3>3. Refund(c) /\ idem' = IF Keyed(c) THEN [idem EXCEPT ![KeyOf[c]].status = "failed"]
                                           ELSE idem
      BY <1>10, <2>3, <3>1, <3>2 DEF Release, ReleaseEntry
    <3>4. \A k \in Keys : idem'[k] = IF Keyed(c) /\ k = KeyOf[c]
                                     THEN [idem[k] EXCEPT !.status = "failed"] ELSE idem[k]
      BY <3>2, <3>3, <1>2 DEF TypeOK
    <3>5. /\ \A d \in Calls : pc'[d] = pc[d] \/ (d = c /\ pc'[d] = "failed")
          /\ pc'[c] # "executing"
      BY <2>1, <1>2 DEF TypeOK
    <3> QED
      BY <3>1, <3>3, <3>4, <3>5, <1>1, <1>9, RefundKeepsKeys
  <2> QED
    BY <2>2, <2>3
<1>11. ASSUME NEW c \in Calls, ReleaseStale(c) PROVE KeyInv'
  <2>1. charge[c].status = "pending" /\ pc[c] # "executing" /\ pc' = pc /\ Refund(c)
    BY <1>11, SlowCalls = {} DEF ReleaseStale, Stale
  <2>2. Keyed(c) => KeyOf[c] \in Keys /\ Row(c).status = "in_progress" /\ Row(c).entry = c
    BY <2>1, CallsAssumption DEF KeyInv, KeyOwnership, Keyed
  <2>3. ASSUME NEW k \in Keys
        PROVE  idem[k].entry = c /\ idem[k].status = "in_progress" <=>
                 Keyed(c) /\ k = KeyOf[c]
    BY <2>2, CallsAssumption DEF KeyInv, KeyOwnership, Keyed, Row
  <2>4. \A k \in Keys : idem'[k] = IF Keyed(c) /\ k = KeyOf[c]
                                   THEN [idem[k] EXCEPT !.status = "failed"] ELSE idem[k]
    BY <1>11, <2>3 DEF ReleaseStale
  <2> QED
    BY <2>1, <2>4, <1>1, <1>9, RefundKeepsKeys
<1>12. ASSUME NEW c \in Calls, SettleLost(c) \/ ReleaseLost(c) \/ Crash(c) PROVE KeyInv'
  BY <1>12, <1>1, <1>2, QuietKeepsKeys DEF SettleLost, ReleaseLost, Crash, TypeOK
<1>13. ASSUME \/ \E t \in TopUps : ApplyCredit(t)
              \/ \E p \in Plans : AssignSubscription(p)
              \/ \E a \in Agents : RevokeKey(a)
              \/ CancelSubscription \/ SetAccountStatus \/ NextDay \/ UNCHANGED vars
       PROVE KeyInv'
  <2>1. charge' = charge /\ idem' = idem /\ pc' = pc
    BY <1>13 DEF ApplyCredit, AssignSubscription, RevokeKey, CancelSubscription,
                 SetAccountStatus, NextDay, vars
  <2> QED
    BY <2>1, <1>1, QuietKeepsKeys
<1> QED
  BY <1>3, <1>4, <1>5, <1>6, <1>7, <1>8, <1>10, <1>11, <1>12, <1>13 DEF Next, Finish

(* No key is ever charged twice, whatever retries, crashes, lost writes and
   sweeps do, as long as no capability outlives the reservation TTL. *)
THEOREM AtMostOnce == SlowCalls = {} => (Spec => []KeyChargedAtMostOnce)
PROOF
<1> SUFFICES ASSUME SlowCalls = {} PROVE Spec => []KeyChargedAtMostOnce
  OBVIOUS
<1>1. KeyInv => KeyChargedAtMostOnce
  BY OneOwner DEF KeyChargedAtMostOnce, SameKey
<1>2. KeyInv /\ [Next]_vars => KeyInv'
  BY KeyInvNext
<1> QED
  BY <1>1, <1>2, KeyInvInit, PTL DEF Spec

(* Under the same assumption keys and charges own each other, and no two
   paid attempts of one key ever run at the same time. *)
THEOREM KeysOwnTheirCharge ==
  SlowCalls = {} => (Spec => [](KeyOwnership /\ OneAttemptAtATime))
PROOF
<1> SUFFICES ASSUME SlowCalls = {} PROVE Spec => [](KeyOwnership /\ OneAttemptAtATime)
  OBVIOUS
<1>1. KeyInv => KeyOwnership /\ OneAttemptAtATime
  BY OneOwner DEF KeyInv, RunningHolds, OneAttemptAtATime, SameKey, Live
<1>2. KeyInv /\ [Next]_vars => KeyInv'
  BY KeyInvNext
<1> QED
  BY <1>1, <1>2, KeyInvInit, PTL DEF Spec

---------------------------------------------------------------------------
(* The wallet.                                                             *)

\* If one charge changes, so does the wallet's view of that charge only.
LEMMA ViewOfOneCharge ==
  ASSUME TypeOK, TypeOK', NEW c \in Calls,
         \A d \in Calls \ {c} : charge'[d] = charge[d]
  PROVE  /\ WalletPurchase' = [WalletPurchase EXCEPT ![c] = PurchaseOf(charge'[c].status)]
         /\ WalletPocket' = [WalletPocket EXCEPT ![c] = PocketOf(charge'[c].rail)]
PROOF
<1>1. /\ WalletPurchase' = [d \in Calls |-> PurchaseOf(charge'[d].status)]
      /\ WalletPocket' = [d \in Calls |-> PocketOf(charge'[d].rail)]
  BY DEF WalletPurchase, WalletPocket, PurchaseOf, PocketOf
<1> QED
  BY <1>1 DEF WalletPurchase, WalletPocket

\* A rival of c that the wallet holds or has been paid is a live charge of
\* c's key.
LEMMA RivalsAreFree ==
  ASSUME KeyInv, NEW c \in Calls, KeyAdmits(c), NEW q \in Wallet!Rivals(c)
  PROVE  WalletPurchase[q] \notin {"held", "paid"}
PROOF
<1>1. q \in Calls /\ Keyed(c) /\ KeyOf[q] = KeyOf[c]
  BY DEF Wallet!Rivals, Keyed
<1>2. ~Live(q)
  BY <1>1, AdmittedKeyIsFree
<1>3. charge[q].status \in {"none", "refunded"}
  BY <1>1, <1>2 DEF KeyInv, TypeOK, ChargeRows, Statuses, Live
<1> QED
  BY <1>1, <1>3 DEF WalletPurchase, PurchaseOf

LEMMA WalletInit == Init => Wallet!WInit
PROOF
BY DEF Init, Wallet!WInit, WalletPurchase, WalletPocket, PurchaseOf, PocketOf, NoCharge

LEMMA WalletStep ==
  ASSUME SlowCalls = {}, KeyInv, [Next]_vars
  PROVE  [Wallet!WNext]_(Wallet!wvars)
PROOF
<1>1. TypeOK /\ TypeOK'
  BY TypeNext DEF KeyInv
<1> USE DEF account, money
<1>2. ASSUME charge' = charge PROVE [Wallet!WNext]_(Wallet!wvars)
  <2>1. WalletPurchase' = WalletPurchase /\ WalletPocket' = WalletPocket
    BY <1>2 DEF WalletPurchase, WalletPocket
  <2>2. balance' \in Nat
    BY <1>1 DEF TypeOK
  <2> QED
    BY <2>1, <2>2 DEF Wallet!WNext, Wallet!Deposit
<1>3. ASSUME NEW c \in Calls, ReserveAllowance(c) \/ ReserveCredits(c)
      PROVE  [Wallet!WNext]_(Wallet!wvars)
  <2> DEFINE from == IF ReserveCredits(c) THEN "prepaid" ELSE "allowance"
  <2>1. KeyAdmits(c) /\ pc[c] = "authenticated"
    BY <1>3 DEF ReserveAllowance, ReserveCredits, Reserving
  <2>2. /\ \A d \in Calls \ {c} : charge'[d] = charge[d]
        /\ charge'[c].status = "pending"
        /\ IF ReserveCredits(c)
           THEN /\ charge'[c].rail = "api_credits"
                /\ balance >= PriceOf[c] /\ balance' = balance - PriceOf[c]
           ELSE charge'[c].rail = "subscription" /\ balance' = balance
    <3>1. CASE ReserveCredits(c)
      BY <3>1, <1>1, CreditsCover DEF ReserveCredits, TypeOK
    <3>2. CASE ~ReserveCredits(c)
      <4>1. /\ balance' = balance
            /\ \E s \in ActiveSubs : charge' = [charge EXCEPT ![c] =
                 [status |-> "pending", rail |-> "subscription", sub |-> s,
                  period |-> PeriodOf(s, at[c]), at |-> at[c]]]
        BY <1>3, <3>2 DEF ReserveAllowance
      <4> QED
        BY <3>2, <4>1, <1>1 DEF TypeOK
    <3> QED
      BY <3>1, <3>2
  <2>3. charge[c].status = "none"
    BY <2>1 DEF KeyInv, Unreserved
  <2>4. WalletPurchase[c] = "none"
    BY <2>3 DEF WalletPurchase, PurchaseOf
  <2>5. /\ WalletPurchase' = [WalletPurchase EXCEPT ![c] = "held"]
        /\ WalletPocket' = [WalletPocket EXCEPT ![c] = from]
    BY <2>2, <1>1, ViewOfOneCharge DEF PurchaseOf, PocketOf
  <2>6. \A q \in Wallet!Rivals(c) : WalletPurchase[q] \notin {"held", "paid"}
    BY <2>1, RivalsAreFree
  <2>7. /\ from = "prepaid" => balance >= PriceOf[c]
        /\ balance' = IF from = "prepaid" THEN balance - PriceOf[c] ELSE balance
    BY <2>2
  <2>8. Wallet!Hold(c, from)
    BY <2>4, <2>5, <2>6, <2>7 DEF Wallet!Hold
  <2> QED
    BY <2>8 DEF Wallet!WNext
<1>4. ASSUME NEW c \in Calls, Settle(c) PROVE [Wallet!WNext]_(Wallet!wvars)
  <2>1. CASE charge[c].status = "pending" /\ charge' = [charge EXCEPT ![c].status = "settled"]
    <3>1. /\ \A d \in Calls \ {c} : charge'[d] = charge[d]
          /\ charge'[c].status = "settled" /\ charge'[c].rail = charge[c].rail
      BY <2>1, <1>1 DEF TypeOK, ChargeRows
    <3>2. /\ WalletPurchase' = [WalletPurchase EXCEPT ![c] = "paid"]
          /\ WalletPocket' = [WalletPocket EXCEPT ![c] = PocketOf(charge[c].rail)]
      BY <3>1, <1>1, ViewOfOneCharge DEF PurchaseOf
    <3>3. WalletPurchase[c] = "held"
      BY <2>1 DEF WalletPurchase, PurchaseOf
    <3>5. WalletPocket' = WalletPocket
      BY <3>2 DEF WalletPocket
    <3>4. balance' = balance
      BY <1>4 DEF Settle
    <3> QED
      BY <3>2, <3>3, <3>4, <3>5 DEF Wallet!WNext, Wallet!Pay
  <2> QED
    BY <1>2, <1>4, <2>1 DEF Settle, SettleEntry
<1>5. ASSUME NEW c \in Calls, charge[c].status = "pending", Refund(c)
      PROVE  [Wallet!WNext]_(Wallet!wvars)
  <2>1. /\ \A d \in Calls \ {c} : charge'[d] = charge[d]
        /\ charge'[c].status = "refunded" /\ charge'[c].rail = charge[c].rail
    BY <1>5, <1>1 DEF Refund, TypeOK, ChargeRows
  <2>2. balance' = IF charge[c].rail = "api_credits" THEN balance + PriceOf[c] ELSE balance
    BY <1>5 DEF Refund
  <2>3. /\ WalletPurchase' = [WalletPurchase EXCEPT ![c] = "returned"]
        /\ WalletPocket' = [WalletPocket EXCEPT ![c] = PocketOf(charge[c].rail)]
    BY <2>1, <1>1, ViewOfOneCharge DEF PurchaseOf
  <2>4. WalletPurchase[c] = "held"
    BY <1>5 DEF WalletPurchase, PurchaseOf
  <2>5. WalletPocket' = WalletPocket
    BY <2>3 DEF WalletPocket
  <2>6. WalletPocket[c] = "prepaid" <=> charge[c].rail = "api_credits"
    <3>1. charge[c].rail \in {"none", "subscription", "api_credits"}
      BY <1>1 DEF TypeOK, ChargeRows
    <3> QED
      BY <3>1 DEF WalletPocket, PocketOf
  <2> QED
    BY <2>2, <2>3, <2>4, <2>5, <2>6 DEF Wallet!WNext, Wallet!Return
<1>6. ASSUME NEW c \in Calls, Release(c) PROVE [Wallet!WNext]_(Wallet!wvars)
  BY <1>2, <1>5, <1>6 DEF Release, ReleaseEntry
<1>7. ASSUME NEW c \in Calls, ReleaseStale(c) PROVE [Wallet!WNext]_(Wallet!wvars)
  BY <1>5, <1>7 DEF ReleaseStale, Stale
<1>8. ASSUME NEW c \in Calls,
             \/ Authenticate(c) \/ AuthorizeFree(c) \/ ReserveRefused(c) \/ ReserveReplay(c)
             \/ ReserveUnfunded(c) \/ SettleLost(c) \/ ReleaseLost(c) \/ Crash(c)
      PROVE  charge' = charge
  BY <1>8 DEF Authenticate, AuthorizeFree, ReserveRefused, ReserveReplay, ReserveUnfunded,
              SettleLost, ReleaseLost, Crash
<1>9. ASSUME \/ \E t \in TopUps : ApplyCredit(t)
             \/ \E p \in Plans : AssignSubscription(p)
             \/ \E a \in Agents : RevokeKey(a)
             \/ CancelSubscription \/ SetAccountStatus \/ NextDay \/ UNCHANGED vars
      PROVE  charge' = charge
  BY <1>9 DEF ApplyCredit, AssignSubscription, RevokeKey, CancelSubscription,
              SetAccountStatus, NextDay, vars
<1> QED
  BY <1>2, <1>3, <1>4, <1>6, <1>7, <1>8, <1>9 DEF Next, Finish

(* Every behaviour of the ledger, seen through the wallet, is a behaviour of
   PrepaidWallet: a purchase moves exactly its price, once each way, and no
   request is held or paid twice. *)
THEOREM WalletRefinement == SlowCalls = {} => (Spec => ImplementsWallet)
PROOF
<1> SUFFICES ASSUME SlowCalls = {} PROVE Spec => ImplementsWallet
  OBVIOUS
<1>1. KeyInv /\ [Next]_vars => KeyInv'
  BY KeyInvNext
<1>2. KeyInv /\ [Next]_vars => [Wallet!WNext]_(Wallet!wvars)
  BY WalletStep
<1> QED
  BY <1>1, <1>2, KeyInvInit, WalletInit, PTL DEF Spec, ImplementsWallet, Wallet!WSpec
=============================================================================

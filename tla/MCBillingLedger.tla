-------------------------- MODULE MCBillingLedger --------------------------
(***************************************************************************)
(* Small instances of BillingLedger.  Each scenario is a set of constants  *)
(* its configuration picks; prices and amounts are a few micros, chosen so *)
(* that the funds run out, allowances and limits are met exactly and the   *)
(* period rolls while reservations are pending.                            *)
(***************************************************************************)
EXTENDS BillingLedger, TLC

CONSTANTS c1, c2, c3, c4, k1, a1, a2, t1, t2, t3, x1, hash1, hash2

PairSymmetry == Permutations({c2, c3})

Credits == <<"api_credits">>
Auto == <<"subscription", "api_credits">>

NoDailyLimit == [a \in Agents |-> NoLimit]
OneAgent == [c \in Calls |-> a1]
TwoAgents == [c \in Calls |-> IF c = c3 THEN a2 ELSE a1]

\* Retries: two attempts of one request, another request and a call of a
\* zero-priced tool share a key.
RetryKeyOf == [c \in Calls |-> k1]
RetryBodyOf == [c \in Calls |-> IF c = c4 THEN hash2 ELSE hash1]
RetryPriceOf == [c \in Calls |-> IF c = c3 THEN 0 ELSE 2]
SlowPriceOf == [c \in Calls |-> 2]
CreditRails == [c \in Calls |-> Credits]

\* Allowance: unkeyed calls at different prices; the cheap one may only use
\* the subscription.
Unkeyed == [c \in Calls |-> NoKey]
AnyBody == [c \in Calls |-> hash1]
MixedPriceOf == [c \in Calls |-> IF c = c1 THEN 1 ELSE 2]
MixedRails == [c \in Calls |-> IF c = c1 THEN <<"subscription">> ELSE Auto]
SmallPlans == {[micros |-> 3, calls |-> 2]}
NoPlans == {}

\* Funding: a purchase credited twice under one external id, a correction.
FundAmountOf == [t \in TopUps |-> CASE t = t1 -> 4 [] t = t2 -> 4 [] OTHER -> -3]
FundExtOf == [t \in TopUps |-> IF t = t3 THEN NoExt ELSE x1]
OneDepositOf == [t \in TopUps |-> 4]
NoExtOf == [t \in TopUps |-> NoExt]

\* Limits: the first of two agents may spend 2 a day.
AgentLimitOf == [a \in Agents |-> IF a = a1 THEN 2 ELSE NoLimit]

\* Every call may use the allowance first and the balance after it.
AutoRails == [c \in Calls |-> Auto]
=============================================================================

--------------------------- MODULE BillingLedger ---------------------------
(***************************************************************************)
(* The unified billing ledger of one account, as its store keeps it        *)
(* (src/src/billing/unified): every operation of BillingStore that moves   *)
(* money is ONE database transaction under the account's row lock, hence   *)
(* one action here.  What is not atomic is the life of a billed call       *)
(* (execution.ts, runBilledCall): it authenticates, reserves its price,    *)
(* runs the capability, and settles or releases, and between any two of    *)
(* these awaits other calls, the operator, the stale-reservation sweep and *)
(* process crashes take their steps.                                       *)
(*                                                                         *)
(* A call reserves at most once, so the ledger rows of a call are indexed  *)
(* by the call: charge[c] is its debit or subscription_usage row and       *)
(* refunds[c] counts the refund rows that point to it.                     *)
(***************************************************************************)
EXTENDS Integers, Sequences, FiniteSets, FiniteSetsExt

CONSTANTS
  Calls,        \* billed calls (HTTP or MCP requests), each handled once
  NoCall,       \* the null ledger_entry_id
  Keys,         \* idempotency keys
  NoKey,        \* a call without an idempotency key
  KeyOf,        \* the idempotency key each call presents
  BodyOf,       \* the request hash of each call
  Agents,       \* API keys of the account
  AgentOf,      \* the API key each call presents
  PriceOf,      \* price of the tool each call names, in micros
  RailsOf,      \* account rails each call may use, in selection order
  Fallback,     \* may an exhausted allowance fall back to credits?
  SlowCalls,    \* calls whose capability may outlive the reservation TTL
  TopUps,       \* applyCredit operations: credits, purchases, adjustments
  AmountOf,     \* signed amount of each of them
  ExtOf,        \* its external transaction id ...
  NoExt,        \* ... or none
  Plans,        \* allowances an operator may assign: [micros, calls]
  NoCap,        \* a plan without a call cap
  MonthlyLimit, \* account_monthly spend limit or NoLimit
  DailyLimitOf, \* api_key_daily spend limit of each agent or NoLimit
  NoLimit,
  MonthLen,     \* days in a month
  MaxNow,       \* bound: the last day of the model
  MaxSubs       \* bound: subscriptions assigned

ASSUME CallsAssumption ==
  /\ NoCall \notin Calls /\ NoKey \notin Keys
  /\ KeyOf \in [Calls -> Keys \cup {NoKey}]
  /\ AgentOf \in [Calls -> Agents]
  /\ PriceOf \in [Calls -> Nat]
  /\ RailsOf \in [Calls -> Seq({"subscription", "api_credits"})]
  /\ Fallback \in BOOLEAN
  /\ SlowCalls \subseteq Calls

ASSUME FundsAssumption ==
  /\ AmountOf \in [TopUps -> Int \ {0}]
  /\ \A p \in Plans : p.micros \in Nat /\ (p.calls = NoCap \/ p.calls \in Nat)
  /\ MonthLen \in Nat \ {0} /\ MaxNow \in Nat /\ MaxSubs \in Nat

ASSUME LimitsAssumption ==
  /\ MonthlyLimit \in Nat \cup {NoLimit}
  /\ DailyLimitOf \in [Agents -> Nat \cup {NoLimit}]

VARIABLES
  active,    \* billing_accounts.status = 'active' (suspended and closed behave alike)
  revoked,   \* API keys with status 'revoked'
  balance,   \* billing_accounts.credit_balance_micros
  topUp,     \* what became of each applyCredit operation
  subs,      \* billing_subscriptions, oldest first
  usage,     \* subscription_usage rows by subscription and period start
  charge,    \* the debit / subscription_usage ledger row of each call
  refunds,   \* number of refund rows related to it
  idem,      \* billing_idempotency rows by key
  pc,        \* where each call is in runBilledCall
  at,        \* the clock each call passes to its reservation
  answer,    \* whose response body the caller received
  now        \* the current day

account == <<active, revoked, topUp, subs>>
money == <<balance, usage, charge, refunds>>
vars == <<active, revoked, balance, topUp, subs, usage, charge, refunds,
          idem, pc, at, answer, now>>

SubIds == 1 .. MaxSubs
Days == 0 .. MaxNow

NoCharge == [status |-> "none", rail |-> "none", sub |-> 0, period |-> 0, at |-> 0]
NoRow == [status |-> "absent", body |-> NoCall, entry |-> NoCall]
NoUsage == [micros |-> 0, calls |-> 0]

Statuses == {"none", "pending", "settled", "refunded"}
CallStates == {"idle", "authenticated", "executing", "delivered", "failed",
               "replayed", "refused", "crashed"}

SubRows == [plan : Plans, status : {"active", "canceled"}, anchor : Days]
UsageRows == [micros : Nat, calls : Nat]
ChargeRows == [status : Statuses, rail : {"none", "subscription", "api_credits"},
               sub : Nat, period : Nat, at : Nat]
KeyRows == [status : {"absent", "in_progress", "completed", "failed"},
            body : {BodyOf[c] : c \in Calls} \cup {NoCall},
            entry : Calls \cup {NoCall}]

TypeOK ==
  /\ active \in BOOLEAN /\ revoked \subseteq Agents
  /\ balance \in Nat
  /\ topUp \in [TopUps -> {"new", "applied", "duplicate", "rejected"}]
  /\ subs \in Seq(SubRows)
  /\ Len(subs) <= MaxSubs
  /\ usage \in [SubIds \X Days -> UsageRows]
  /\ charge \in [Calls -> ChargeRows]
  /\ refunds \in [Calls -> Nat]
  /\ idem \in [Keys -> KeyRows]
  /\ pc \in [Calls -> CallStates]
  /\ at \in [Calls -> Days]
  /\ answer \in [Calls -> Calls \cup {NoCall}]
  /\ now \in Days

Init ==
  /\ active = TRUE /\ revoked = {}
  /\ balance = 0
  /\ topUp = [t \in TopUps |-> "new"]
  /\ subs = <<>>
  /\ usage = [sp \in SubIds \X Days |-> NoUsage]
  /\ charge = [c \in Calls |-> NoCharge]
  /\ refunds = [c \in Calls |-> 0]
  /\ idem = [k \in Keys |-> NoRow]
  /\ pc = [c \in Calls |-> "idle"]
  /\ at = [c \in Calls |-> 0]
  /\ answer = [c \in Calls |-> NoCall]
  /\ now = 0

---------------------------------------------------------------------------
(* What a reservation reads under the account's row lock.                  *)

\* Charges that count against spend limits and allowances.
Live(c) == charge[c].status \in {"pending", "settled"}

Spent(S, since) ==
  MapThenSumSet(LAMBDA d : PriceOf[d], {d \in S : Live(d) /\ charge[d].at >= since})

MonthStart(t) == MonthLen * (t \div MonthLen)

Exceeds(spent, limit) == limit # NoLimit /\ spent > limit

\* Mutant: the limit is compared with what was spent before this call.
OverLimitBefore(c) ==
  \/ Exceeds(Spent(Calls, MonthStart(at[c])), MonthlyLimit)
  \/ Exceeds(Spent({d \in Calls : AgentOf[d] = AgentOf[c]}, at[c]),
             DailyLimitOf[AgentOf[c]])

OverLimit(c) ==
  \/ Exceeds(Spent(Calls, MonthStart(at[c])) + PriceOf[c], MonthlyLimit)
  \/ Exceeds(Spent({d \in Calls : AgentOf[d] = AgentOf[c]}, at[c]) + PriceOf[c],
             DailyLimitOf[AgentOf[c]])

ActiveSubs == {s \in DOMAIN subs : subs[s].status = "active"}

\* Periods are months counted from the subscription's own anchor.
PeriodOf(s, t) ==
  LET a == subs[s].anchor
  IN IF t < a THEN a ELSE a + MonthLen * ((t - a) \div MonthLen)

Covers(s, c) ==
  LET u == usage[<<s, PeriodOf(s, at[c])>>]
      p == subs[s].plan
  IN /\ u.micros + PriceOf[c] <= p.micros
     /\ p.calls # NoCap => u.calls + 1 <= p.calls

CanPay(c, rail) ==
  IF rail = "subscription" THEN \E s \in ActiveSubs : Covers(s, c)
                           ELSE balance >= PriceOf[c]

\* The i-th rail pays when no earlier rail can and no exhausted allowance
\* stops the search (subscriptionFallback is false).
Pays(c, i) ==
  /\ CanPay(c, RailsOf[c][i])
  /\ \A j \in 1 .. i - 1 :
       /\ ~CanPay(c, RailsOf[c][j])
       /\ RailsOf[c][j] = "subscription" /\ ActiveSubs # {} => Fallback

---------------------------------------------------------------------------
(* Idempotency rows: (account, tool, key) is one key of the model.         *)

Keyed(c) == KeyOf[c] # NoKey
Row(c) == idem[KeyOf[c]]

\* Mutant: a running attempt does not lock its key.
KeyAdmitsRunning(c) ==
  Keyed(c) => \/ Row(c).status = "absent"
              \/ Row(c).status \in {"in_progress", "failed"} /\ Row(c).body = BodyOf[c]

\* An attempt may run if its key is new or its last attempt failed.
KeyAdmits(c) ==
  Keyed(c) => \/ Row(c).status = "absent"
              \/ Row(c).status = "failed" /\ Row(c).body = BodyOf[c]

SetRow(c, status, entry) ==
  idem' = IF Keyed(c)
          THEN [idem EXCEPT ![KeyOf[c]] =
                  [status |-> status, body |-> BodyOf[c], entry |-> entry]]
          ELSE idem

---------------------------------------------------------------------------
(* The life of a billed call.                                              *)

\* authenticate: key and account are read before, and outside, the
\* reservation's transaction; the call then reads the clock.
Authenticate(c) ==
  /\ pc[c] = "idle"
  /\ IF active /\ AgentOf[c] \notin revoked
     THEN pc' = [pc EXCEPT ![c] = "authenticated"] /\ at' = [at EXCEPT ![c] = now]
     ELSE pc' = [pc EXCEPT ![c] = "refused"] /\ UNCHANGED at
  /\ UNCHANGED <<account, money, idem, answer, now>>

\* authorize: a zero-priced tool runs on the free rail and touches no row.
AuthorizeFree(c) ==
  /\ pc[c] = "authenticated" /\ PriceOf[c] = 0
  /\ pc' = [pc EXCEPT ![c] = "executing"]
  /\ UNCHANGED <<account, money, idem, at, answer, now>>

Reserving(c) == pc[c] = "authenticated" /\ PriceOf[c] > 0

\* reserve turns the call away before touching any row: the account went
\* inactive, or the key is used by another body or by a running attempt.
ReserveRefused(c) ==
  /\ Reserving(c)
  /\ \/ ~active
     \/ /\ Keyed(c)
        /\ \/ Row(c).status # "absent" /\ Row(c).body # BodyOf[c]
           \/ Row(c).status = "in_progress"
  /\ pc' = [pc EXCEPT ![c] = "refused"]
  /\ UNCHANGED <<account, money, idem, at, answer, now>>

\* Mutant: a completed key is replayed to any request body.
ReplayAnyBody(c) ==
  /\ Reserving(c) /\ active /\ Keyed(c)
  /\ Row(c).status = "completed"
  /\ pc' = [pc EXCEPT ![c] = "replayed"]
  /\ answer' = [answer EXCEPT ![c] = Row(c).entry]
  /\ UNCHANGED <<account, money, idem, at, now>>

\* reserve finds the key completed: the stored response is replayed.
ReserveReplay(c) ==
  /\ Reserving(c) /\ active /\ Keyed(c)
  /\ Row(c).status = "completed" /\ Row(c).body = BodyOf[c]
  /\ pc' = [pc EXCEPT ![c] = "replayed"]
  /\ answer' = [answer EXCEPT ![c] = Row(c).entry]
  /\ UNCHANGED <<account, money, idem, at, now>>

\* reserve hits a spend limit or finds no rail that can pay: the key is
\* left failed, so that it may be used again.
ReserveUnfunded(c) ==
  /\ Reserving(c) /\ active /\ KeyAdmits(c)
  /\ OverLimit(c) \/ \A i \in DOMAIN RailsOf[c] : ~Pays(c, i)
  /\ SetRow(c, "failed", NoCall)
  /\ pc' = [pc EXCEPT ![c] = "refused"]
  /\ UNCHANGED <<account, money, at, answer, now>>

\* reserve takes the price from the allowance of the current period.
ReserveAllowance(c) ==
  /\ Reserving(c) /\ active /\ KeyAdmits(c) /\ ~OverLimit(c)
  /\ \E i \in DOMAIN RailsOf[c] : Pays(c, i) /\ RailsOf[c][i] = "subscription"
  /\ \E s \in ActiveSubs :
       LET row == <<s, PeriodOf(s, at[c])>> IN
       /\ Covers(s, c)
       /\ usage' = [usage EXCEPT ![row] = [micros |-> @.micros + PriceOf[c],
                                           calls |-> @.calls + 1]]
       /\ charge' = [charge EXCEPT ![c] =
                       [status |-> "pending", rail |-> "subscription",
                        sub |-> s, period |-> row[2], at |-> at[c]]]
  /\ SetRow(c, "in_progress", c)
  /\ pc' = [pc EXCEPT ![c] = "executing"]
  /\ UNCHANGED <<account, balance, refunds, at, answer, now>>

\* reserve debits the prepaid balance.
ReserveCredits(c) ==
  /\ Reserving(c) /\ active /\ KeyAdmits(c) /\ ~OverLimit(c)
  /\ \E i \in DOMAIN RailsOf[c] : Pays(c, i) /\ RailsOf[c][i] = "api_credits"
  /\ balance' = balance - PriceOf[c]
  /\ charge' = [charge EXCEPT ![c] =
                  [status |-> "pending", rail |-> "api_credits",
                   sub |-> 0, period |-> 0, at |-> at[c]]]
  /\ SetRow(c, "in_progress", c)
  /\ pc' = [pc EXCEPT ![c] = "executing"]
  /\ UNCHANGED <<account, usage, refunds, at, answer, now>>

\* settle: the entry leaves pending only if it is still pending, but the
\* key is completed whatever became of the entry.
SettleEntry(c) ==
  charge' = IF charge[c].status = "pending"
            THEN [charge EXCEPT ![c].status = "settled"] ELSE charge

Settle(c) ==
  /\ pc[c] = "executing"
  /\ pc' = [pc EXCEPT ![c] = "delivered"]
  /\ answer' = [answer EXCEPT ![c] = c]
  /\ IF PriceOf[c] = 0 THEN UNCHANGED <<charge, idem>>
                       ELSE SettleEntry(c) /\ SetRow(c, "completed", c)
  /\ UNCHANGED <<account, balance, usage, refunds, at, now>>

\* The settlement write fails: the result is returned all the same and the
\* entry stays pending.
SettleLost(c) ==
  /\ pc[c] = "executing"
  /\ pc' = [pc EXCEPT ![c] = "delivered"]
  /\ answer' = [answer EXCEPT ![c] = c]
  /\ UNCHANGED <<account, money, idem, at, now>>

\* Mutant: the allowance is given back to the current period.
RefundCurrentPeriod(c) ==
  /\ charge' = [charge EXCEPT ![c].status = "refunded"]
  /\ refunds' = [refunds EXCEPT ![c] = @ + 1]
  /\ balance' = IF charge[c].rail = "api_credits" THEN balance + PriceOf[c] ELSE balance
  /\ usage' = IF charge[c].rail # "subscription" THEN usage ELSE
       [usage EXCEPT ![<<charge[c].sub, PeriodOf(charge[c].sub, now)>>] =
          [micros |-> IF @.micros >= PriceOf[c] THEN @.micros - PriceOf[c] ELSE 0,
           calls |-> IF @.calls >= 1 THEN @.calls - 1 ELSE 0]]

\* Mutant: allowance is given back as credits.
RefundAsCredits(c) ==
  /\ charge' = [charge EXCEPT ![c].status = "refunded"]
  /\ refunds' = [refunds EXCEPT ![c] = @ + 1]
  /\ balance' = balance + PriceOf[c]
  /\ UNCHANGED usage

Refund(c) ==
  /\ charge' = [charge EXCEPT ![c].status = "refunded"]
  /\ refunds' = [refunds EXCEPT ![c] = @ + 1]
  /\ balance' = IF charge[c].rail = "api_credits" THEN balance + PriceOf[c] ELSE balance
  /\ usage' = IF charge[c].rail # "subscription" THEN usage ELSE
       [usage EXCEPT ![<<charge[c].sub, charge[c].period>>] =
          [micros |-> IF @.micros >= PriceOf[c] THEN @.micros - PriceOf[c] ELSE 0,
           calls |-> IF @.calls >= 1 THEN @.calls - 1 ELSE 0]]

\* Mutant: the release does not ask whether the sweep came first.
ReleaseAnyEntry(c) == IF charge[c].status # "none" THEN Refund(c) ELSE UNCHANGED money

\* Only a pending entry is refunded.
ReleaseEntry(c) == IF charge[c].status = "pending" THEN Refund(c) ELSE UNCHANGED money

\* The capability throws: the entry is refunded if still pending, and the
\* key's row fails if it is in progress, whichever entry it points to.
Release(c) ==
  /\ pc[c] = "executing"
  /\ pc' = [pc EXCEPT ![c] = "failed"]
  /\ IF PriceOf[c] = 0 THEN UNCHANGED <<money, idem>> ELSE
       /\ ReleaseEntry(c)
       /\ idem' = IF Keyed(c) /\ Row(c).status = "in_progress"
                  THEN [idem EXCEPT ![KeyOf[c]].status = "failed"] ELSE idem
  /\ UNCHANGED <<account, at, answer, now>>

\* The capability throws and the release write fails too.
ReleaseLost(c) ==
  /\ pc[c] = "executing"
  /\ pc' = [pc EXCEPT ![c] = "failed"]
  /\ UNCHANGED <<account, money, idem, at, answer, now>>

\* The process dies while the call is in flight.
Crash(c) ==
  /\ pc[c] \in {"authenticated", "executing"}
  /\ pc' = [pc EXCEPT ![c] = "crashed"]
  /\ UNCHANGED <<account, money, idem, at, answer, now>>

\* Mutant: the sweep takes only the entries of calls that died.
StaleIfCrashed(c) == charge[c].status = "pending" /\ pc[c] = "crashed"

\* releaseStale, one entry of the sweep: a pending entry older than the TTL.
\* Any time may pass between two steps, so only an entry whose capability
\* is still running within its TTL is known to be young.
Stale(c) ==
  /\ charge[c].status = "pending"
  /\ pc[c] = "executing" => c \in SlowCalls

\* Mutant: the sweep leaves the entry's idempotency row alone.
ReleaseStaleEntryOnly(c) ==
  /\ Stale(c)
  /\ Refund(c)
  /\ UNCHANGED <<account, idem, pc, at, answer, now>>

ReleaseStale(c) ==
  /\ Stale(c)
  /\ Refund(c)
  /\ idem' = [k \in Keys |-> IF idem[k].entry = c /\ idem[k].status = "in_progress"
                             THEN [idem[k] EXCEPT !.status = "failed"] ELSE idem[k]]
  /\ UNCHANGED <<account, pc, at, answer, now>>

---------------------------------------------------------------------------
(* Funding and administration.                                             *)

\* The external transaction id was used before.
Duplicate(t) ==
  \E u \in TopUps : topUp[u] = "applied" /\ ExtOf[u] = ExtOf[t] /\ ExtOf[t] # NoExt

ApplyCredit(t) ==
  /\ topUp[t] = "new"
  /\ LET outcome == IF Duplicate(t) THEN "duplicate"
                    ELSE IF balance + AmountOf[t] < 0 THEN "rejected" ELSE "applied"
     IN /\ topUp' = [topUp EXCEPT ![t] = outcome]
        /\ balance' = IF outcome = "applied" THEN balance + AmountOf[t] ELSE balance
  /\ UNCHANGED <<active, revoked, subs, usage, charge, refunds, idem, pc, at, answer, now>>

Canceled == [s \in DOMAIN subs |-> [subs[s] EXCEPT !.status = "canceled"]]

AssignSubscription(p) ==
  /\ Len(subs) < MaxSubs
  /\ subs' = Append(Canceled, [plan |-> p, status |-> "active", anchor |-> now])
  /\ UNCHANGED <<active, revoked, topUp, money, idem, pc, at, answer, now>>

CancelSubscription ==
  /\ ActiveSubs # {}
  /\ subs' = Canceled
  /\ UNCHANGED <<active, revoked, topUp, money, idem, pc, at, answer, now>>

SetAccountStatus ==
  /\ active' = ~active
  /\ UNCHANGED <<revoked, topUp, subs, money, idem, pc, at, answer, now>>

RevokeKey(a) ==
  /\ revoked' = revoked \cup {a}
  /\ UNCHANGED <<active, topUp, subs, money, idem, pc, at, answer, now>>

NextDay ==
  /\ now < MaxNow
  /\ now' = now + 1
  /\ UNCHANGED <<account, money, idem, pc, at, answer>>

---------------------------------------------------------------------------
Finish(c) ==
  Settle(c) \/ SettleLost(c) \/ Release(c) \/ ReleaseLost(c)

Next ==
  \/ \E c \in Calls :
       \/ Authenticate(c) \/ AuthorizeFree(c)
       \/ ReserveRefused(c) \/ ReserveReplay(c) \/ ReserveUnfunded(c)
       \/ ReserveAllowance(c) \/ ReserveCredits(c)
       \/ Finish(c) \/ Crash(c) \/ ReleaseStale(c)
  \/ \E t \in TopUps : ApplyCredit(t)
  \/ \E p \in Plans : AssignSubscription(p)
  \/ \E a \in Agents : RevokeKey(a)
  \/ CancelSubscription \/ SetAccountStatus \/ NextDay

Spec == Init /\ [][Next]_vars

\* The sweep is scheduled, and a capability that is running returns (or the
\* process dies): see the README for where the code says so.
FairSpec ==
  /\ Spec
  /\ \A c \in Calls : WF_vars(Finish(c) \/ Crash(c)) /\ WF_vars(ReleaseStale(c))

---------------------------------------------------------------------------
(* Properties.                                                             *)

Sum(S, f(_)) == MapThenSumSet(f, S)

Funded == {t \in TopUps : topUp[t] = "applied"}
OnRail(rail) == {c \in Calls : charge[c].rail = rail}

(* docs/billing.md: the sum of the ledger over the credit rails is the
   balance, always: top-ups and adjustments, less the debits of every
   status, plus the refund rows.  Two stores write it (reserve, release,
   applyCredit), the balance itself is never derived from the rows. *)
LedgerSumsToBalance ==
  balance = Sum(Funded, LAMBDA t : AmountOf[t])
            - Sum(OnRail("api_credits"), LAMBDA c : PriceOf[c])
            + Sum(OnRail("api_credits"), LAMBDA c : refunds[c] * PriceOf[c])

(* The rows may sum to a balance that is wrong.  It is right if every micro
   of it came in once and has not been spent: what was funded, under each
   external transaction at most once however often that is delivered, less
   the charges that are held or settled, whoever released the others, the
   call itself or the sweep, and however often they tried. *)
BalanceIsEarned ==
  /\ LedgerSumsToBalance
  /\ balance = Sum(Funded, LAMBDA t : AmountOf[t])
               - Sum({c \in OnRail("api_credits") : Live(c)}, LAMBDA c : PriceOf[c])
  /\ \A t, u \in Funded : t # u => ExtOf[t] = NoExt \/ ExtOf[t] # ExtOf[u]

(* Each usage row (micros and calls) is exactly the live charges made
   against that subscription and period, and never exceeds the plan: a
   release long after the period rolled, or after another plan was
   assigned, gives back to the row it took from, and the floor at zero in
   the release never hides a difference. *)
AllowanceMatchesLedger ==
  \A row \in SubIds \X Days :
    LET against == {c \in OnRail("subscription") :
                      Live(c) /\ <<charge[c].sub, charge[c].period>> = row}
    IN /\ usage[row].micros = Sum(against, LAMBDA c : PriceOf[c])
       /\ usage[row].calls = Cardinality(against)
       /\ against # {} =>
            LET plan == subs[row[1]].plan
            IN /\ usage[row].micros <= plan.micros
               /\ plan.calls # NoCap => usage[row].calls <= plan.calls

(* A charge has one refund row if it was refunded and none otherwise,
   though the call's own release and any number of sweeps may try to
   refund it (billing_ledger_one_refund is only the last line of defence). *)
OneRefundPerCharge ==
  \A c \in Calls : refunds[c] = IF charge[c].status = "refunded" THEN 1 ELSE 0

(* A replayed answer is the body that an execution of the same request
   under the same key has delivered. *)
ReplayIsFaithful ==
  \A c \in Calls : pc[c] = "replayed" =>
    /\ answer[c] \in Calls
    /\ KeyOf[answer[c]] = KeyOf[c] /\ BodyOf[answer[c]] = BodyOf[c]
    /\ pc[answer[c]] = "delivered"

SameKey(c, d) == c # d /\ Keyed(c) /\ KeyOf[c] = KeyOf[d]

(* docs/billing.md: a failed (refunded) attempt may be retried with the
   same key and is charged at most once.  At most one charge of a key is
   ever pending or settled, over retries, crashes, lost writes and sweeps. *)
KeyChargedAtMostOnce ==
  \A c, d \in Calls : SameKey(c, d) => ~(Live(c) /\ Live(d))

(* The weaker promise in the same words: of the attempts under one key at
   most one ends up charged. *)
KeySettledAtMostOnce ==
  \A c, d \in Calls : SameKey(c, d) =>
    ~(charge[c].status = "settled" /\ charge[d].status = "settled")

(* docs/billing.md: the same key while the first attempt is still running
   answers 409 idempotency_in_progress. *)
OneAttemptAtATime ==
  \A c, d \in Calls : SameKey(c, d) /\ PriceOf[c] > 0 /\ PriceOf[d] > 0 =>
    ~(pc[c] = "executing" /\ pc[d] = "executing")

(* Keys and charges own each other: the row of a key points to the one live
   charge made under it, in progress while that is pending and completed
   once it is settled; an in-progress key is backed by a pending charge, so
   that the sweep unlocks it, and a completed one by a settled charge, so
   that nobody is served a free replay of an attempt that was refunded. *)
KeyOwnership ==
  /\ \A c \in Calls : Keyed(c) /\ charge[c].status = "pending" =>
       Row(c).status = "in_progress" /\ Row(c).entry = c
  /\ \A c \in Calls : Keyed(c) /\ charge[c].status = "settled" =>
       Row(c).status = "completed" /\ Row(c).entry = c
  /\ \A k \in Keys : idem[k].status \in {"in_progress", "completed"} =>
       /\ idem[k].entry \in Calls /\ KeyOf[idem[k].entry] = k
       /\ charge[idem[k].entry].status =
            IF idem[k].status = "completed" THEN "settled" ELSE "pending"

(* In every calendar month the account's live charges, and on every day an
   agent's, stay within the spend limit, although a call reads its clock
   before it waits for the account's lock and so may be booked on a day
   that is already over. *)
SpendWithinLimits ==
  \A t \in Days :
    LET month == {c \in Calls : Live(c) /\ MonthStart(charge[c].at) = MonthStart(t)}
        day(a) == {c \in Calls : Live(c) /\ AgentOf[c] = a /\ charge[c].at = t}
    IN /\ ~Exceeds(Sum(month, LAMBDA c : PriceOf[c]), MonthlyLimit)
       /\ \A a \in Agents : ~Exceeds(Sum(day(a), LAMBDA c : PriceOf[c]), DailyLimitOf[a])

(* No money stays reserved: whatever dies or gets lost, every pending
   charge is settled or refunded in the end. *)
ReservationsResolve ==
  \A c \in Calls : charge[c].status = "pending" ~> charge[c].status # "pending"

(* No key stays locked: an in-progress row is completed or failed in the
   end, so the customer's retries are not refused for ever. *)
KeysUnlock ==
  \A k \in Keys : idem[k].status = "in_progress" ~> idem[k].status # "in_progress"

---------------------------------------------------------------------------
(* The ledger implements the customer's view of it.                        *)

PurchaseOf(status) ==
  CASE status = "none" -> "none" [] status = "pending" -> "held"
    [] status = "settled" -> "paid" [] status = "refunded" -> "returned"
PocketOf(rail) ==
  CASE rail = "none" -> "none" [] rail = "api_credits" -> "prepaid"
    [] rail = "subscription" -> "allowance"

WalletPurchase == [c \in Calls |-> PurchaseOf(charge[c].status)]
WalletPocket == [c \in Calls |-> PocketOf(charge[c].rail)]

Wallet == INSTANCE PrepaidWallet WITH
  Purchases <- Calls, RequestOf <- KeyOf, NoRequest <- NoKey, CostOf <- PriceOf,
  funds <- balance, purchase <- WalletPurchase, pocket <- WalletPocket

(* Every behaviour of the ledger is one of the wallet: a step that holds,
   pays or returns a purchase moves exactly its price out of the right
   pocket, none is returned twice or kept after a refund, and no request is
   bought twice. *)
ImplementsWallet == Wallet!WSpec
=============================================================================

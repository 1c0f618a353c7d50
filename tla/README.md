# Verification of the Rafid agent API

Rafid is a pay-per-call HTTP and MCP service for software agents: a caller pays
for one capability (a report, an analysis, a lookup) and receives its result. Most
capabilities are stateless functions. What can really go wrong is the money
around them, and the few things that run or are written without a caller waiting:
a call is authorized, executed and charged in separate awaits, over a database,
payment networks and serverless processes that die. This directory models those
paths in TLA+, checks them with TLC on small instances and proves the most
important invariants with TLAPS for all instances.

Paths below are relative to `src/src/` unless they start with `src/`.

- [Inventory](#inventory): the system's parts, their state, operations and hazards
- [Modules](#modules): which module models which code, and how
- [Runs](#runs): what each check asks and shows, its bounds, the fairness it assumes
- [Proofs](#proofs): what holds for every instance, and along which argument
- [Disagreements](#disagreements-with-the-documentation) between code and documents
- [Not modelled](#not-modelled), and why

## Inventory

`PROJECT.json` lists every component with its sources and status. The parts with
state of their own:

| Part | State | Operations | Talks to |
|---|---|---|---|
| **Unified billing ledger** `billing/unified/` | account (status, balance), API keys, subscriptions, usage per period, ledger rows, idempotency rows | `applyCredit`, `reserve`, `settle`, `release`, `releaseStale`, `assignSubscription`, `cancelSubscription`, status and key administration; `runBilledCall` strings them together | every capability; external funding and monitoring call it |
| **MPP sessions** `billing/mpp/sessions.ts`, `service.ts` | session row (budget, spent, reserved, status, channel), one usage event per Idempotency-Key | `createSession`, `callTool`, `expireIfDue`, `close`, purge | the payment channel, owned by the `mppx` SDK |
| **MPP settlement** `billing/mpp/service.ts`, `mppx.ts` | settlement status, lease, settled amount | `closeSession`, `reconcileSettlements` | the channel, the chain, the revenue ledger |
| **MPP charges, L402** `billing/mpp/`, `billing/l402/` | one redemption row per paid credential | claim, run, settle, mark redeemed or unknown, release | payment networks |
| **External funding** `billing/external/` | external payments, top-up intents | Stripe webhooks, USDC confirmation, expiry, refund | the ledger's `applyCredit` |
| **x402 and the revenue ledger** `api/app.ts`, `revenue/`, `db/revenueStore.ts` | append-only rows with a dedupe key | record durably, observe, reconcile | every settlement |
| **Monitoring** `monitoring/service.ts` | jobs, runs | `runDue` | the ledger, a capability, a webhook |
| **Partner feeds** `domain/oman/partnerFeedRunner.ts` | partner rows, statistics, audit | `runDueFeeds`, `runPartnerFeed` with retries | market data import |
| **Company data** `db/businessStore.ts`, `business-data/` | company rows, flags | `upsertCompanies`, attach, split, flag | operators |
| **Rate limits, caches** `middleware/`, `preview/`, `company-reputation/` | counters and entries with a deadline | count, get, set, evict | |

Everything else (risk, document, invoice, property, vehicle, supplier and website
analyses, workflows, the dashboard, schemas, command-line tools) computes a result
from its input, keeps nothing between calls, and is to the ledger a call that
succeeds or throws.

What makes each part correct, and what makes that hard:

- **Ledger.** The balance equals the sum of the rows, and these count what came in once
  and what is charged once; a charge is refunded at most
  once; an allowance is used up exactly and given back to the period it came from;
  one idempotency key is charged once and runs once at a time; limits hold; nothing
  stays reserved or locked for ever. Hard because each transaction is atomic and a
  *call* is not: retries, the sweep of stale reservations, a period that rolls, lost
  writes and crashes fall between its steps.
- **Sessions.** Spent plus reserved never passes the budget; what Rafid charges the
  channel has metered; what the channel meters the payer has signed for and locked; a
  key is metered once; nothing is in flight once the session is over. Hard because two
  ledgers are kept (Rafid's row, the channel) and no transaction spans them.
- **Settlement.** The chain pays out no more than was metered, "settled" means
  captured, revenue is booked once, every session comes to an end of its settlement.
  Hard because the payer, the server and maintenance race with leases, and answers are lost.
- **Single-use payments.** One payment buys one successful call; a failed call keeps
  the payment usable. Hard because the mark is written after the response and a stale
  claim is given away after five minutes.
- **External funding.** Each confirmed payment becomes credit exactly once; a refund
  is reversed once. Hard because the payment, the intent and the credit are written in
  separate steps and webhooks repeat and overtake each other.
- **Revenue.** One row of revenue per settled transaction, whoever records it: the route,
  the observer of its response, or a reconciliation by hash.
- **Monitoring and feeds.** One run per due date, and a stored run that agrees with its
  charge; one failing feed does not stop the others. Hard because passes overlap and die.
- **Company data.** What an operator decided survives an import that read the row before;
  one registration number is one company.

`PROJECT.json` lists the hazards line by line with the properties that cover them, and
for the few that none covers, why.

## Modules

| Module | Models |
|---|---|
| `PrepaidWallet` | abstract: what a customer is promised of prepaid money |
| `BillingLedger` | one account of the unified billing ledger and its billed calls |
| `MppSession` | one MPP session and its payment channel |
| `MppSettlement` | extends `MppSession` by the settlement of that session |
| `PaymentCredit` | abstract: what a customer is promised of a payment from outside |
| `StripeTopup` | Stripe checkouts, their webhooks and their credits |
| `UsdcTopup` | USDC top-up intents, their confirmation and their credits |
| `PaidCall` | L402 tokens and MPP charge credentials: one payment for one call |
| `X402Revenue` | x402 calls and the rows of the revenue ledger |
| `Monitoring` | scheduled monitoring jobs and their charges |
| `PartnerFeeds` | scheduled partner feeds |
| `CompanyRecords` | imports of company rows beside operators |
| `MCBillingLedger`, `MCMppSession`, `MCMppSettlement` | constants of the instances of one component |
| `MCFunding`, `MCProgress`, `MCOperations` | instances that hold several components (below) |
| `SumTheorems` | lemmas about sums over finite sets, for the proofs about money |
| `BillingLedgerProofs`, `MppSessionProofs`, `MppSettlementProofs`, `MonitoringProofs`, `CompanyRecordsProofs` | the theorems of the component they are named after |
| `FundingProofs` | the theorems of `StripeTopup` and `UsdcTopup` |
| `PaymentProofs` | the theorems of `PaidCall` and `X402Revenue` |

`StripeTopup` and `UsdcTopup` share no variable but the account's balance, which only a
Stripe refund reads; `PaidCall` and `X402Revenue` share none; nor do `Monitoring`,
`PartnerFeeds` and `CompanyRecords`. Interleaving them would multiply states and show
nothing, so each of the last three `MC` modules chooses one of its components in the
initial state and runs that one.

### BillingLedger

The store serializes what it does to an account with `SELECT ... FOR UPDATE` in one
transaction, so **each store operation is one action**. `cancelSubscription`, status
changes and key revocation are single statements. What is not atomic is a call,
`runBilledCall` in `execution.ts`, and every await of it is a step of `pc`:

| Step | Code |
|---|---|
| `Authenticate` | `engine.ts` `authenticate`; the clock for the reservation (`at`) is read after it, before any lock |
| `AuthorizeFree` | `authorize` of a zero-priced tool: no row is touched |
| `ReserveRefused`, `ReserveReplay`, `ReserveUnfunded`, `ReserveAllowance`, `ReserveCredits` | the outcomes of `reserve` in `postgresStore.ts`, in the order of its early returns |
| `Settle`, `SettleLost` | the capability returned; the settlement write took place or failed (and was swallowed) |
| `Release`, `ReleaseLost` | the capability threw; likewise |
| `Crash` | the process died between two awaits |
| `ReleaseStale` | one entry of the sweep |
| `ApplyCredit`, `AssignSubscription`, `CancelSubscription`, `SetAccountStatus`, `RevokeKey` | operator and funding operations |
| `NextDay` | the clock |

A call reserves at most once, so its ledger row is `charge[c]` and its refund rows are
counted in `refunds[c]`. A refund row has no state of its own. Row bodies and names are
left out: the body of an answer is the call that produced it (`answer[c]`), which is
what lets `ReplayIsFaithful` say whose result a replay serves.

Time is a day counter. Calendar periods of limits are `MonthLen` days; subscription
periods count from the subscription's anchor, as in `plans.ts`. The age of a
reservation is not a clock: since any time may pass between two steps, every pending
entry may be stale, except that of a capability still running within the reservation
TTL (`BILLING_RESERVATION_TTL_SECONDS`, 900 s by default). `SlowCalls` names the calls
whose capability may outlive the TTL. The hosted deployment kills a request after 60 s
(`src/vercel.json`), so there `SlowCalls = {}`; a self-hosted server has no such limit.

Of the three spend limits the model has the account's monthly and the key's daily one;
the key's monthly one is the same loop iteration with another period.

### PrepaidWallet

The promise of `src/docs/billing.md` without rows, keys or sweeps: a purchase is held,
then paid or returned, each exactly once and for exactly its cost; of the attempts of
one request at most one is ever held or paid; funds are never overdrawn. Deposits are
unconstrained, because topping up is somebody else's promise. `BillingLedger` maps
balance, charge status and rail to it; `MppSession` maps what is left of the budget and
the usage events to it. Both implement it.

### MppSession

One session row (`sessions.ts`, PostgreSQL store: each method is one transaction under
the row lock), one usage event per Idempotency-Key, and the channel as the code sees it
through `provider.ts`: the highest accepted voucher and the metered spend. The SDK is not
in the repository; its behaviour is taken from how `mppx.ts` uses it.

| Steps | Code |
|---|---|
| `OpenCheck` … `MarkFailed` | `createSession` with an open credential: read the row, open on chain, `activate` (conditional update), and for one that came too late the second read and `markFailed` |
| `Reserve`, `Refuse`, `Replay` | `sessions.reserve` and what `callTool` makes of it |
| `Unpaid`, `Verify`, `Fail` | no voucher or a rejected one; an accepted check; a tool that throws |
| `Accept`, `Meter`, `MeterFails` | `recordUsage`: the SDK accepts the voucher, then deducts the price; either may fail, and for a call in `LostAcks` a failure may have taken effect |
| `Commit`, `CommitLost` | `sessions.commit`; its failure is swallowed because the channel has been metered |
| `TimePasses`, `Expire`, `Close`, `Purge` | expiry on any request or by maintenance, `close`, `purgeExpiredPending` |

Each voucher is any amount from the accepted one to the deposit, so a call may hold one
that a faster call has overtaken. `GiveBack` is `release` or nothing, because every
caller swallows its failure. `metered` is a history variable.

### MppSettlement

Extends `MppSession`: all its steps go on while attempts settle the session.

| Steps | Code |
|---|---|
| `CloseRequest`, `Respond`, `ConcludeFromRow` | `closeSession` up to the claim; the maintenance candidate with nothing spent |
| `Select` | `settlementCandidates` |
| `Claim`, `LeaseExpires` | `claimSettlement`, a conditional update holding a lease |
| `ReadChain`, `ReadChannel` | maintenance reads the chain; the provider reads the channel before it submits |
| `Captured`, `CapturedUnseen`, `Refused`, `GiveUp` | what the chain did and whether the answer came back |
| `Conclude`, `BookOnly` | `finishSettlement` and the revenue row |

`NothingToDo` folds the payer's reading of the channel (is it closed already?) into the step that
decides on it.
`captured` and `final` are the chain; `known` is the SDK's record of both; `settled` is
the row. An attempt in `Slow` may outlast its lease (`MPP_SETTLEMENT_LEASE_SECONDS`, 120 s by
default, at least 10). The SDK's settlement hook is not waited for in the code
(`service.ts:79`); the model lets it record at once or never.

### PaymentCredit

The promise of `src/docs/external-payments.md`: a payment is credited only after its
provider has it, once, and for exactly what was received. `StripeTopup` maps paid
checkouts and `credit_purchase` rows to it, `UsdcTopup` confirmed transfers and their
credits. `StripeTopup` implements it; `UsdcTopup` does as long as no transaction is submitted
in two spellings of its hash (below).

### StripeTopup

Stripe's side is three variables: the state of each Checkout Session, what was refunded,
the events raised. A raised event may be delivered to any handler, at any time and again,
even after it was acknowledged; the code answers 400 to every failure, so an event whose
handler failed stays unacknowledged. Each await of a handler is a step.

| Step | Code (`billing/external/service.ts`) |
|---|---|
| `OpenCheckout`, `RecordCheckout` | `createStripeCheckout`: the session, then its row |
| `Complete`, `AttemptFails`, `Expire`, `Refund` | what a customer or an operator does at Stripe |
| `Deliver` | the webhook and the first read of the row, with its early returns (`Ignored`) |
| `Confirm`, `Fund` | `handleStripeCheckoutCompleted`: the row, then `fundExternalCredit` |
| `Review`, `Fail` | completed unpaid; expired or declined |
| `ReadBalance`, `Reverse`, `MarkRefunded`, `FlagRefund` | `handleStripeRefund`: read the balance, adjust the ledger, mark the row, or flag it |
| `Crash` | a call fails or the process dies |
| `Spend` | a call takes from the balance (how: `BillingLedger`) |

### UsdcTopup

| Step | Code (`service.ts`, `usdcTopup.ts`, stores) |
|---|---|
| `Broadcast`, `Settle` | the chain: a transaction is mined, reverted, confirmed |
| `PickAmount`, `CreateIntent`, `ExpireIntent` | an amount no open intent has when it is looked up; the insert, which the unique index may refuse; the expiry |
| `Ask`, `AskFinal`, `LookUp`, `StoreHash` | `confirmUsdcTopup` up to the chain: the reading of the intent decides the way |
| `Verify`, `MarkFailed` | `verifyUsdcTransfer`; a reverted transaction fails the intent whatever it is by now |
| `Record`, `MarkConfirmed`, `Credit` | the three writes of a confirmation |
| `VerifyLate`, `RecordLate` | `handleLateUsdcConfirm`: an expired intent is flagged for review |

An amount, like the tag in its last digits, is one number. `picked` is the amount between
its lookup and its insert. A transaction moves one amount to the receiving address or none.

A hash is what the customer submits, a string, and payments are looked up and unique by it:
`payment` and `funded` are functions on `Hashes`. The chain, and what it says of a transfer,
is a function on `Transactions`. `TxOf` says which transaction a string names; since the format
check admits both cases of a hexadecimal digit and the chain answers to either, several
strings may name one. A string that is no hash at all is, to the code and to the model, one
whose transaction is never mined. The credit of a transaction that the refinement
speaks of (`CreditedFor`) is the sum over its spellings.

### PaidCall

One model for two kinds of credential, because both claim a row, run once, and redeem or
release. They differ in what is awaited: an L402 call answers and then writes, on the
"finish" event, without waiting; a charge runs, settles, writes, answers. A write that
nobody waits for is an element of `writes` that is performed some time or lost.

| Step | Code |
|---|---|
| `Claim`, `ClaimAges` | `redemptions.ts:64`, `sessions.ts` `claimChargeCredential`: a new row, or a takeover of one in flight for five minutes |
| `FinishResult`, `FinishFailure`, `Perform`, `Lose` | `gate.ts`: redeem and book, or release, after the response |
| `RunFails`, `RunSucceeds`, `SettleCharge` | `service.ts` `charge`: the capability; `settleCharge` with its refusals and its unknown outcome |
| `MarkSettled`, `Respond`, `Withhold`, `Doubt` | what each outcome writes (and swallows if it fails) and answers |
| `Die` | the process, or the client of a token whose response never finishes |

`takeovers` counts the claims that were taken over: each is one that the code gives
away, and the property says that there are no other second calls.

### X402Revenue

Verification and settlement are the SDK middleware's; the model lets it settle before or
after the capability runs. The facilitator settles an authorization once, refuses it, or gives
up waiting for a transaction that may be mined all the same.

| Step | Code |
|---|---|
| `VerifyPayment`, `SettlePayment` | the middleware (external) |
| `Run`, `RecordDurably` | the route in `api/app.ts`: a settlement that it can see is recorded before the answer, then the flag is set |
| `Observe`, `WriteUnwaited` | the "finish" observer |
| `Insert`, `DedupeKey` | `revenueStore.ts` (`ON CONFLICT DO NOTHING`), `idempotency.ts` |
| `FindRow`, `VerifyOnChain`, `Import` | `reconcileX402.ts` |

A hash has one or several `Spellings`: the lookup by hash ignores case, the dedupe key does not.

### Monitoring

| Step | Code (`monitoring/service.ts`, `runDue`) |
|---|---|
| `ListDue`, `Finish` | the list of due jobs and the end of the loop |
| `ClaimJob` | the conditional update to the next date, by which one pass wins |
| `OwnerGone`, `Authorize`, `Execute` | the key or account is gone; `authorize`, refused or failed; the capability |
| `SettleRun`, `ReleaseRun`, `StoreRun` | settle, release in the catch block, the insert of the run |
| `CronDies`, `SweepFee`, `Tick` | the process dies; the ledger's sweep; the clock |

The ledger appears as `fee`, with what `BillingLedger` shows of a charge: pending, then
settled or refunded, by its own call or by the sweep.

### PartnerFeeds

| Step | Code (`partnerFeedRunner.ts`) |
|---|---|
| `ListFeeds`, `StartFeed`, `EndPass` | `runDueFeeds` over enabled partners that are due; `runPartnerFeed` reads each again |
| `FetchFeed` | `fetchFeedWithRetry`, at most `MaxAttempts` |
| `ImportFeed` | `importMarketRecords`, one transaction, which may throw |
| `RecordAttempt` | `recordFeedAttempt`, whose failure is swallowed |
| `KillPass`, `SetEnabled`, `NextHour` | a command that is killed; operators; the clock |

### CompanyRecords

`upsertCompanies` is one transaction at READ COMMITTED. Each statement is an action and
sees the committed table and the transaction's own writes; a written row stays locked to
its end; the unique index on (source, record id) makes a second insert wait and then fail.

| Step | Code (`db/businessStore.ts`, `api/adminRoutes.ts`) |
|---|---|
| `BeginImport`, `ReadRecord`, `CommitImport`, `RollBack` | the transaction and the first SELECT of each record |
| `UpdateRow` | `UPDATE ... WHERE id AND company_id`: an operator's move in between makes it match nothing |
| `ResolveCompany`, `InsertRow` | by registration number, else by name and governorate, else a new company; the insert |
| `OpenConflict`, `Split`, `SetFlag`, `GiveUp` | the resolution of a conflict: its statements commit one by one |
| `Attach` | `attachSourceRecord` |

`ResolveCompany` is both lookups in one step, by registration number (`businessStore.ts:245`) and
by name and governorate (249): a row committed between the two is either found by the second
lookup, as it would have been by the first, or by neither, as if it had come later.

A company is named by the row that founded it. `decided` and `excused` are history: what
was decided last about each row, and whether something happened after which one
registration may have two companies.

## Runs

Prices are 1 or 2 micros and funds a few: what matters is that an amount fits exactly, no
longer fits, or fits after somebody else's refund, and these sizes produce all three.

| Run | Instance | Question |
|---|---|---|
| `ledger_retries` | 4 calls on one key: two attempts of one request, one of another, one free; allowance, then credits | Is a key charged once and replayed only to its own request; is this a wallet; does every reservation resolve and every key unlock? |
| `ledger_allowance` | 3 unkeyed calls of two prices, two of them slow; two periods, two subscriptions | Does each usage row equal its live charges? |
| `ledger_funds` | two purchases with one external id and a negative correction; 3 calls of two agents over the two days of a month; monthly limit 3, daily limit 2 for one agent | Does the ledger sum to the balance, and is that what came in once less what is charged; do limits hold? |
| `ledger_slow_retry` | 3 retries, the first outliving the TTL | *violation*: is a key settled at most once? |
| `session_calls` | 4 calls, three on one key and one of those different and dearer; two racing opens; budget 2, deposit 1 or 2; one lost acknowledgement | Do budget, events, channel and deposit agree; is a key metered once, a replay paid, a channel bound for life; is this a wallet? |
| `session_lost_ack` | two requests under one key, an acknowledgement lost | *violation*: is a key metered once? |
| `settle_capture` | one call; a payer's close, a server settle and maintenance, two of them slower than the lease | Does the chain pay out only what was metered; is "settled" captured? |
| `settle_concludes` | payer and maintenance within their lease, revenue writes lost | Does the settlement come to an end; do the books stay within what was captured? |
| `progress` | Stripe: one checkout, two handlers, other credit of the same size, calls that spend; USDC: two intents, two amounts, one transfer with one spelling, two confirmations; feeds: two partners, two passes, one of which may be killed | Is each payment credited once and only when received; is a refund reversed once; is a paid session noticed, and a customer told only what is on record? Are due feeds run? |
| `funding_spellings` | one intent, two confirmations, one transaction in two spellings | *violation*: does a transfer fund at most one top-up? |
| `funding_uncredited` | one checkout, one handler | *violation*: is a confirmed payment credited? |
| `operations` | 3 requests on a token and a charge credential; 2 authorizations, 2 x402 calls, 2 reconciliations; one job, two passes, cadence 2 of 3 hours; two rows, three records, two imports, two operators | Does a credential buy one call for each claim; are results settled and failures free; is a transaction revenue once? Are runs paced and do they agree with their charges? Do operators' decisions survive; is one registration one company? |

**Bounds and why they suffice.** One account, one session, one channel: the transactions
of different accounts or sessions touch disjoint rows. Three or four calls: each hazard
known involves at most an attempt, its retry and the retry's rival, with one call more to
be charged in their place. Two agents and two days are what a sum over "this agent" and
"this day" needs to be wrong about; two subscriptions and two periods are what a refund
to the wrong row needs. Three attempts to settle are one of each kind. Two handlers, two
confirmations, two passes or two imports are the race; a third finds what the second
left. A price of 2 can be refunded in parts. Three requests of one credential are a call,
its takeover and a retry after both. The larger of two imports holds two records, so that
one can see what it wrote itself. `MaxNow`, `LastTime`, `LastHour` cap the clocks (each
lets a job or feed fall due twice), `MaxSubs` the number of assigned plans, `MaxSpent` what
is spent of the account, `MaxRecords` the records of an import. Symmetry is used only
between calls or opens with equal constants, and in no run with a liveness property.

Requests, calls and imports are handled once, so most instances run out of them: that is
why those configurations switch deadlock checking off. `funding_uncredited` keeps it on.

**Fairness.** Safety assumes none.

- `ledger_retries` assumes that a running capability returns or its process dies, and that
  the sweep takes every entry that stays stale. The sweep is not called by the program
  itself; `src/docs/billing.md:164` tells the operator to schedule it. No fairness is put on
  retries, settle or release writes.
- `settle_concludes` assumes that maintenance is scheduled (`src/docs/mpp.md:75`), that a lease
  runs out, that a close request once started is worked off, and, strongly, that a step of
  maintenance that is possible again and again (the chain answers, the write succeeds)
  succeeds at last. Nothing is assumed of the payer.
- `progress` assumes that a handler goes on or fails, that Stripe delivers the completed event
  of a paid session again until it is acknowledged, which it does because every failure
  is answered with 400, and that confirming it does not fail for ever.
  For feeds it assumes that the pass `f1` takes its next step, and that the scheduler starts
  it again; of `f2`, which may be killed anywhere, nothing is assumed.

**Scope of some properties.** `ImplementsWallet` says nothing of top-ups, since the wallet's
deposits are unconstrained: that a transaction is credited once is in `BalanceIsEarned`.
`TransfersAreCreditedOnce` is checked and proved for one spelling of each transaction
(`OneSpelling`); `funding_spellings` shows that it needs it. `KeyChargedAtMostOnce` is checked and proved with
`SlowCalls = {}`; `ledger_slow_retry` shows that it needs it. `KeyMeteredAtMostOnce` speaks of
calls whose reported failures had no effect; `session_lost_ack` shows the others.
`PaidIsAccountedFor` excepts a session with a declined attempt: the failed attempt sets the
row to failed, and the completion that follows does not resurrect it (`service.ts:117`), so
that payment is in no row and no credit. `OneCallPerClaim` counts takeovers: the words "one
paid token buys one successful call" (`gate.ts:201`) hold only if no call outlives its
claim of five minutes. `RevenueIsSettledOnce` is checked and proved for one spelling of a hash
(`Spellings`): the explorer or an operator who gives the same hash in capitals while the
first row is being written gets a second one. `RegistrationsAgree` excepts overlapping imports
and rows whose registration or company was changed: there one registration may come to
have two companies, and the lookup takes either. `RunsAgreeWithCharges` excepts a swept charge
and a settlement that was reported as failed. `BooksWithinCaptured` is checked for attempts
within their lease: when one outlasts its lease, two attempts compute their difference
from the same earlier reading (`mppx.ts:303-306`) and both book it. `src/README.md:1123` says two
settlements "can never both submit"; that, too, holds within the lease only. On the chain
the amounts are cumulative, so `NeverOverCaptured` and `SettledIsCaptured` hold for slow attempts
as well (`settle_capture`).

**Mutants.** Each property of a passing run has a mutated definition (the operators whose
comment begins *Mutant*, beside the definitions they replace) under which the run finds it
violated: a dropped guard, a refund to the wrong row, a voucher settled above the spend, a
missing unique index, a date trusted as it was listed, a row written back as it was read.

## Proofs

For all sets of calls, keys, agents, payments, handlers, requests, jobs, passes, records
and operators, and all prices, plans, deposits and budgets that the `ASSUME`s allow:

| Theorem | Says | Assuming |
|---|---|---|
| `TypeCorrect` | the ledger is well typed; the balance is never negative | |
| `RefundedOnce` | a charge has one refund row if refunded and none otherwise | |
| `LedgerSums` | the stored balance is the sum of the ledger rows | |
| `BalanceEarned` | it is what was funded, each external transaction once, less the charges held or settled | |
| `AllowanceMatches` | the usage of each subscription and period is its live charges, and within the plan | |
| `SpendLimited` | no month of the account and no day of an agent passes its limit | |
| `ReplaysAreFaithful` | a replay serves a delivered result of the same request under the same key | |
| `AtMostOnce` | one charge of a key is pending or settled at a time | `SlowCalls = {}` |
| `KeysOwnTheirCharge` | the row of a key points to its one live charge; one attempt runs at a time | `SlowCalls = {}` |
| `WalletRefinement` | the ledger implements `PrepaidWallet` | `SlowCalls = {}` |
| `BudgetKept` | spent plus reserved stay within the budget | |
| `SignedAndLockedKept` | metered ≤ signed for ≤ locked, and the budget is backed | |
| `BoundOnce` | a bound channel stays bound and its session is never failed | |
| `ReplayPaid` | a replay is of a metered, delivered call of the same request | |
| `KeyMeteredOnce` | a key is metered once | `LostAcks = {}` |
| `CountersAccounted` | spent and reserved are the sums of the charged and the reserved events | |
| `SessionTypes` | a session is well typed; reserved is never negative | |
| `ChargesAreMetered` | the row charges no more than the channel has metered | |
| `OverIsQuiet` | no call is in flight once the session is over | |
| `SessionRefinement` | a session implements `PrepaidWallet` | |
| `NeverOvercaptured` | the chain pays out no more than was metered | |
| `SettledWasCaptured` | "settled" means that the whole spend has been paid out | |
| `RowFollowsTheChain` | the row's settled amount never exceeds what was paid out | |
| `BooksFollowTheChain` | nor does the revenue that was booked | `Slow = {}` |
| `StripeTyped` | Stripe top-ups are well typed | |
| `PaidAccountedFor` | an acknowledged completion of a paid session left a credit, or a row that is reported or reviewed | |
| `RefundedReversed` | a row that says refunded has its reversal | |
| `BalanceExplained` | the balance is the opening one and the credits, less reversals and spending | |
| `StripeImplementsCredit` | Stripe top-ups implement `PaymentCredit` | |
| `UsdcTyped` | USDC top-ups are well typed | |
| `CreditFits` | a credited transfer is the one its intent asked for | |
| `AmountsDiffer` | no two open intents have one amount | |
| `ToldRecorded` | a customer is told only what is on record | |
| `SpellingCredited` | each submitted hash is credited once, after confirmation, with what its transaction moved | |
| `UsdcImplementsCredit` | USDC top-ups implement `PaymentCredit` | `OneSpelling` |
| `PaidTyped` | single-use payments are well typed | |
| `OneCall` | a credential buys one call and one more for each takeover | |
| `ResultsSettled` | no charge hands over an unsettled result, nor one settlement twice | |
| `FailuresKeep` | a credential is redeemed only for a result or for money that moved | |
| `SpentStays` | nothing takes back a redeemed or doubtful claim | |
| `X402Typed` | the recording of x402 revenue is well typed | |
| `RevenueOnce` | a transaction is revenue at most once, and only if it is on the chain | `Spellings = {"lower"}` |
| `ReportedRecorded` | what is reported as recorded has its row | |
| `MonitoringTyped` | monitoring is well typed | |
| `RunsPaced` | a job starts at most once in a cadence | |
| `RunsAgree` | a stored run agrees with its charge | |
| `CompanyTyped` | company rows are well typed | |
| `RegistrationsAgreed` | one registration number is one company, unless imports overlap or a row changed hands | |
| `OperatorsDecided` | a row keeps what its insertion or an operator decided last | |

The assumptions on the constants are the `ASSUME`s of the modules: prices, deposits, budgets
and amounts are naturals, a plan has a price and a cap, a limit is a natural or none
(`LimitsAssumption`). The requests of single-use credentials are finitely many; no other set
is bounded: there may be infinitely many calls, keys, payments or attempts. The third column
lists hypotheses beyond these.

**Sums.** The library's induction takes an operator as a parameter, which the provers
cannot instantiate. `SumTheorems` states it for a set of sets instead (`FiniteInduction`: a
set that contains each subset of `S` whose strict subsets it contains also contains `S`),
which follows from the well-founded ordering of the finite subsets. From it come, for any
function and finite set: the sum is an integer or a natural, one summand may be taken out
(`SumRemove`), added or changed (`SumAdd`, `SumChange`), an element may join or leave the set while
its value changes (`SumJoin`, `SumLeave`), and a part is no more than the whole (`SumOfPart`).
Sums over infinite sets mean nothing, so each proof about money also carries that only
finitely many rows exist at any time.

**The ledger.** `TypeOK` is inductive by itself; the one delicate point is
`balance \in Nat`, which needs that a rail that pays covers the price. `RefundedOnce` rests
on `StepsOfCharges`: every step leaves a charge alone, or is one of reserve, settle or
refund of one call, and a refund starts from pending.
The four theorems about sums share `BookInv`: types, one refund for each charge, no charge
of a call that has not reserved (`Unreserved`), finitely many rows, and a row on the
subscription rail names a subscription of the account and a day. `StepsOfMoney` divides all
steps into those that leave the books alone, a top-up, a reservation on either rail, a
settlement and a refund, so each sum has five cases. For the balance a refund moves a row out of
the charged ones and adds its price back. `BalanceEarned` is the same induction over the live
charges alone, which a refund leaves, and `ApplyCredit`'s lookup of the external id. For an allowance the delicate case is a refund
long after its period: `RowRefund` uses that the row it gives back to is the one its charge
names, whose live charges it equals, so the floor at zero in the code is never met. For the
limits, `OverLimit` sums under the lock all live charges since the start of the call's period,
later ones included; `ReserveStep` shows that this is at least the sum of the period in which
the call, with its earlier reading of the clock, is booked. `RepliesInv` says that a completed row names
a delivered call of its key with the row's body.
The key invariant is not inductive
as it stands, since nothing in it says that a running attempt still has its money.
`KeyInv` adds two facts: a call that has not reserved has no charge (`Unreserved`), and a
priced call that executes has a pending one (`RunningHolds`), which is where the sweep
must keep its hands off running calls, hence `SlowCalls = {}`. From it follow
`KeyOwnership`, that a key has one owner (`OneOwner`), and so both theorems about keys. The
refinement then maps each step to a wallet step or a stutter; `RivalsAreFree` turns the
key's row into the wallet's guard that no rival is held or paid.

**The session.** `SessionInv` types `reserved` as an integer, so that the budget needs no sums, and adds
what the status says about the row (`StatusInv`) and that an open request that is still
on its way is never the bound one (`ChannelInv`). Budget, channel order and binding follow.
For the keys, `KeyInv` says that a call in flight owns the reserved event of its key and a
charged event stands for a metered, delivered call. `MeteredInv`, without lost
acknowledgements, says that the event of a metered call stays its own, reserved
or charged, even if its commit was lost or its process died, so no second call of the key
gets through.
`AccountInv` is the two sums over the events; a step changes one event, which joins or leaves
the reserved or the charged ones, and `KeyInv` says that it is the event of the
call that steps. That `reserved` is not negative follows. `AheadInv` is what `ChargedIsMetered` lacks
to be inductive: the channel is ahead of the row by the prices of all calls that are
metered and not yet committed. A call in flight owns a reserved event, so its price is part
of `reserved`, and a session whose `reserved` is not zero neither closes nor expires: hence
`QuietWhenOver`.
The refinement needs only `SessionInv` and `KeyInv`: an event row that has moved on to a
later attempt means that the earlier one was given its money back.

**Settlement.** Every step of the composition is a step of the session or leaves it alone
(`SettleStepsSession`), so all session invariants hold of it. Once the session is over nothing
is in flight, so spend, metered amount and accepted voucher stand still
(`OverIsFrozen`). `SettleInv` says that before that point nothing is captured, booked or read
as pending, and after it the chain has paid out the metered amount or nothing, that the SDK's
record and the row follow the chain, and what an attempt may rely on at its step. That is
enough for the chain and for the row, however many attempts overlap. The revenue ledger adds
differences, so it needs to know who adds them: `ClaimInv` says that with `Slow = {}` an attempt
between its claim and its conclusion is alone, until nothing is left to capture;
`BookInv` that an attempt that can still capture has read the recorded amount as it is, and
that the one attempt that captured is the only one to book.

**Funding.** `StripeInv` says what each handler may still rely on at its step: one past the
confirmation holds a completed event with an amount, which only a paid session has; one
that has reversed has its event among the reversals; a row is failed only by a declined
attempt or an expiry. That a session is credited once is then `Fund`'s lookup, and that
nothing is credited unpaid is the event. `RowsInv` adds that finitely many payments are
credited and reversed and that the balance is their sum; a reversal is booked once for each
event because the adjustment carries the event's key. `UsdcInv` says the same of confirmations. Its
delicate part lies between `Record` and `Credit`: two confirmations there hold different
hashes, and nothing is credited for either yet, because `Record` lets only the one that
inserts the row go on. So `Credit`, which does not look for an earlier credit, cannot run
twice for one hash (`SpellingCredited`). With `OneSpelling` the sum over the spellings of a
transaction has at most one summand (`CreditOfSpelling`), so the same step is the promised
credit of the transaction. An intent that exists keeps its amount, which carries `Matches` from the
verification to the credit.

**Single-use payments.** A claim has no owner, so no invariant can say whose it is; what
can be counted are the calls that hold one. `ClaimsCover` says that the calls that used a
credential up, run with it, or have its release on the way are at most the takeovers so
far plus one if the row is there. A release may delete the row of another call, but the
call that releases stops being counted with it. `AnswersInv` relates the pending writes to
the answers, `FailuresStep` and `SettledStep` the redemption to the money.

**Revenue.** `RowsInv`: no two rows have one key, and the key of a row with a hash is that
of its transaction, so that with one spelling two rows of one transaction are one.
`CallsInv` relates a call's header and a pass's place to the chain.

**Monitoring.** `NextFollowsLast`: the next date of a job that has run is at least a cadence
after its last. `ChargesInv`: a pass that has started a run is alone on it, because the
number of the run is the count of starts, and the charge of the run suits the place where
the pass is (`Suits`). A pass that has
listed a job another has moved since is stopped by the condition of the update.

**Company rows.** `LocksInv`: two open transactions write different rows, and each row that
one has written carries the company and flag that are committed, if the row exists. An
operator waits for the lock, so nothing decided can fall between a transaction's
write and its commit; and what falls between its read and its write makes the update
match nothing.

`RegInv`: unless excused, one import runs at a time, all rows that it sees (committed or its
own) agree on the company of a registration, and so does the company it has resolved for
the row it is about to insert. A commit then adds nothing, since what it makes the table is
what the import saw.

**Model-checked only.** `ReservationsResolve`, `KeysUnlock`, `SettlementConcludes`, `PaidIsNoticed` and
`FeedsAreRun` are liveness under fairness, which needs `ENABLED` and is beyond the provers; TLC
checks them on the instances above. Every invariant and every action property or refinement
that a run checks is proved. The hypotheses of the third column
are needed: `ledger_slow_retry`, `session_lost_ack` and `funding_spellings` show what happens
without `SlowCalls = {}`, `LostAcks = {}` and `OneSpelling`, and *Scope of some properties*
describes the computation against the other two.

**Open.** `PartnerFeeds` has no theorem: what matters of it is that feeds are run, which is
liveness; its types could be proved. Nothing is stated yet of how far keys and books are
off when a hypothesis fails, for example how many charges a key can have when so many of
its calls are slow.

## Disagreements with the documentation

The first four are runs that TLC refutes; `PROJECT.json` quotes the lines.

1. **A failed attempt may unlock somebody else's key** (`ledger_slow_retry`).
   `release` fails the in-progress row of the key, whichever entry it points to. If a
   capability outlives the reservation TTL and then fails, it frees the key of the retry
   that has replaced it, and a third attempt is charged as well. A condition on
   `ledger_entry_id` in `postgresStore.ts:236` would close it.
2. **A lost acknowledgement meters the channel twice** (`session_lost_ack`). An unknown
   outcome of `recordUsage` releases the event as failed and says that nothing was charged.
3. **Confirmed but not credited** (`funding_uncredited`). The row and the credit of a Stripe
   payment are two transactions of two stores. If the process dies between them, the
   redelivered event finds the row confirmed and does nothing. `reconciliation.ts` reports
   the payment; nobody credits it.
4. **A transfer is as many transfers as its hash has spellings** (`funding_spellings`).
   `external/schema.ts:8` and `src/docs/external-payments.md:86` say that a transaction credits at most
   once. The code keys on the submitted string (`service.ts:235`, `postgresStore.ts:123`,
   `schema.ts:62`), whose digits may be in either case (`usdcTopup.ts:112`), so two confirmations that
   spell one transaction differently each insert a row and credit it. They need not overlap: a
   later intent of the same amount will do. Writing the hash in lower case before the
   lookup would close it.

Others were met while modelling; the models contain them, and no property claims the contrary:

- **Sessions.** An amount reserved by a call that died, or whose release was lost, is never
  given back. Close, expiry and with them the settlement are refused from then on
  (`sessions.ts:674`), where `src/docs/mpp.md:53` says "Retry shortly". A capture whose answer was
  lost is found later and marked settled on a path that writes no revenue row
  (`billing/mpp/service.ts:685`), though `billing/mpp/settlement.ts:18` says that a
  session's revenue appears exactly once.
- **Funding.** A second partial refund is ignored, and two that overlap reverse more than
  was refunded, since each event carries the total so far. A crash between the adjustment
  and the row makes the redelivery flag a review although the reversal was made. A
  confirmation that read its intent before it expired answers "Already confirmed" if another
  has flagged the same transfer as late in the meantime. `reconciliation.ts:81` reports every refunded payment as a credit without a
  confirmed payment.
- **Single-use payments.** A charge whose mark was lost may be claimed again after five
  minutes, and is then told that "nothing was charged" (`billing/mpp/service.ts:204`), although
  the first call moved the money.
- **Revenue.** A settlement that was reported as failed with its hash, and is mined after
  all, holds the dedupe key of the transaction, so that a reconciliation cannot book it.
  `payerMatches` is not among the checks that decide (`chainVerifier.ts:186`), though
  `reconcileX402.ts:24-25` says that the payer is proved.
- **Monitoring.** A crash, or an owner who is gone, costs the job its run of that cadence. An
  insert that fails ends the pass; the other due jobs wait for the next one.
- **Feeds.** Nothing is claimed, so overlapping passes run one partner twice, and
  `last_attempt_at`, which is the start of a run, may go back. An import that throws records no
  attempt, though `partners.ts:150-154` says that each attempt is recorded exactly once.
- **Companies.** `companyRepository.ts:252` calls `relinkRow` "the only way a companyId ever
  changes", but `attachSourceRecord` writes `company_id` of an existing row as well
  (`db/businessStore.ts:365`, the model's `Attach`). `record_version` and `last_seen_at` are read, changed and written, so updates
  of two imports may be lost. An update that matches nothing is counted as one.
  A split and its flag are two statements: the first may stand alone.

## Not modelled

- **Capabilities and workflows**, valuation, scoring, matching and risk functions: stateless
  computations with no property beyond their definition. They are most of the lines of this
  repository. To a payment rail each is a call that returns or throws.
- **Wire formats, signatures, challenges, authentication**, schemas and configuration. An API key
  revoked between `authenticate` and `reserve` still pays for that one call; the code promises
  nothing else, and the model allows it.
- **The SDKs, the chain and Stripe** are modelled as far as the code relies on their answers, and
  marked external.
- **Read-only parts**: reconciliation reports, the dashboard, aggregation, catalogues.
- **Append-only observations** that no decision reads: audit, analytics, usage records.
- **Rate limits and caches**: a fixed-window counter per process and per key, and entries with a
  deadline in memory; their methods run to the end without an await, and a race between two
  callers computes the same free result twice.
- **Partly modelled components** name what they leave out in `PROJECT.json`: creating and rotating
  keys, the merge of spend limits into an account's metadata (`engine.ts:115`, where a
  concurrent update may be lost), issuing of challenges and invoices, flags of whole companies,
  awards, the market records that a feed writes.

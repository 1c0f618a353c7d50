----------------------------- MODULE MppSession -----------------------------
(***************************************************************************)
(* One MPP session (src/src/billing/mpp): a budget a payer authorizes once *)
(* by opening a payment channel, and the calls metered against it.         *)
(*                                                                         *)
(* Two ledgers are kept and no transaction spans them.  Rafid's own row    *)
(* (sessions.ts) holds spent and reserved amounts and one usage event per  *)
(* Idempotency-Key; the payment channel, owned by the mppx SDK, holds the  *)
(* highest accepted voucher and the metered spend.  A call (service.ts,    *)
(* callTool) reserves in the first, executes, has its voucher accepted and *)
(* its price deducted in the second, and commits in the first again; each  *)
(* of these is an await, and any of them may fail or be the last thing the *)
(* process does.  An action is one of these awaits.                        *)
(***************************************************************************)
EXTENDS Integers, FiniteSets, FiniteSetsExt

CONSTANTS
  Opens,     \* requests that present an open credential, each for a channel of its own
  NoOpen,    \* the null external_session_id
  Deposits,  \* deposits a payer may lock in a channel
  Budget,    \* requested_budget_micros
  Cheapest,  \* price of the cheapest allowed tool
  Calls,     \* requests to POST .../tools/{tool}
  NoCall,
  Keys,      \* Idempotency-Keys
  KeyOf,     \* the key of each call
  BodyOf,    \* its request hash (tool and input)
  PriceOf,   \* the price of its tool
  LostAcks   \* calls whose channel updates may take effect and be reported as failed

ASSUME SessionAssumption ==
  /\ NoOpen \notin Opens /\ NoCall \notin Calls /\ NoCall \notin Keys
  /\ Cheapest \in Nat \ {0} /\ Budget \in Nat /\ Cheapest <= Budget
  /\ \A d \in Deposits : d \in Nat /\ Cheapest <= d
  /\ KeyOf \in [Calls -> Keys]
  /\ PriceOf \in [Calls -> Nat]
  /\ \A c \in Calls : Cheapest <= PriceOf[c]
  /\ \A c, d \in Calls : BodyOf[c] = BodyOf[d] => PriceOf[c] = PriceOf[d]
  /\ LostAcks \subseteq Calls

VARIABLES
  status,    \* mpp_sessions.status, "purged" once the row is deleted
  due,       \* has expires_at passed?
  bound,     \* external_session_id: the open request whose channel backs the session
  maxBudget, \* max_budget_micros
  spent,     \* spent_micros
  reserved,  \* reserved_micros
  event,     \* mpp_usage_events by request_id; "by" is the attempt the row stands for
             \* and, once it is charged, whose response the row stores
  opc,       \* where each open request is in createSession
  deposit,   \* deposit of the channel each has opened, 0 if none
  pc,        \* where each call is in callTool
  answer,    \* whose result the caller received
  voucher,   \* the cumulative amount the caller signed
  accepted,  \* channel: highest accepted voucher
  drawn,     \* channel: metered spend
  metered    \* calls whose price was deducted from the channel (history)

row == <<status, due, bound, maxBudget, spent, reserved>>
money == <<spent, reserved, event>>
channel == <<accepted, drawn, metered>>
opening == <<opc, deposit>>
calling == <<pc, answer, voucher>>
sessionVars == <<status, due, bound, maxBudget, spent, reserved, event, opc, deposit,
                 pc, answer, voucher, accepted, drawn, metered>>

NoEvent == [status |-> "none", amount |-> 0, body |-> NoCall, by |-> NoCall]
InFlight == {"reserved", "executing", "accepted", "metered"}

TypeOK ==
  /\ status \in {"pending", "active", "exhausted", "expired", "closed", "failed", "purged"}
  /\ due \in BOOLEAN /\ bound \in Opens \cup {NoOpen}
  /\ maxBudget \in Nat /\ spent \in Nat /\ reserved \in Nat
  /\ event \in [Keys -> [status : {"none", "reserved", "charged", "failed", "released"},
                         amount : Nat, body : {BodyOf[c] : c \in Calls} \cup {NoCall},
                         by : Calls \cup {NoCall}]]
  /\ opc \in [Opens -> {"idle", "verifying", "opened", "late", "orphaned", "bound", "ended"}]
  /\ deposit \in [Opens -> Nat]
  /\ pc \in [Calls -> InFlight \cup {"idle", "delivered", "replayed", "refused",
                                     "unpaid", "failed", "crashed"}]
  /\ answer \in [Calls -> Calls \cup {NoCall}]
  /\ voucher \in [Calls -> Nat] /\ accepted \in Nat /\ drawn \in Nat
  /\ metered \subseteq Calls

\* createPending: the row the open challenge is issued for.
Init ==
  /\ status = "pending" /\ due = FALSE /\ bound = NoOpen
  /\ maxBudget = Budget /\ spent = 0 /\ reserved = 0
  /\ event = [k \in Keys |-> NoEvent]
  /\ opc = [o \in Opens |-> "idle"] /\ deposit = [o \in Opens |-> 0]
  /\ pc = [c \in Calls |-> "idle"] /\ answer = [c \in Calls |-> NoCall]
  /\ voucher = [c \in Calls |-> 0]
  /\ accepted = 0 /\ drawn = 0 /\ metered = {}

---------------------------------------------------------------------------
(* Opening: createSession with an open credential.                         *)

OpenTo(o, s) == opc' = [opc EXCEPT ![o] = s]

\* The row is read: pending and not expired.
OpenCheck(o) ==
  /\ opc[o] = "idle"
  /\ OpenTo(o, IF status = "pending" /\ ~due THEN "verifying" ELSE "ended")
  /\ UNCHANGED <<row, event, deposit, calling, channel>>

\* verifySession: the SDK opens the channel on chain; its answer may be lost.
OpenChannel(o) ==
  /\ opc[o] = "verifying"
  /\ \E d \in Deposits : deposit' = [deposit EXCEPT ![o] = d]
  /\ \E s \in {"opened", "ended"} : OpenTo(o, s)
  /\ UNCHANGED <<row, event, calling, channel>>

\* The credential is refused, or the process dies before the next await.
OpenEnds(o) ==
  /\ opc[o] \in {"verifying", "opened", "late", "orphaned"}
  /\ OpenTo(o, "ended")
  /\ UNCHANGED <<row, event, deposit, calling, channel>>

\* Mutant: the requested budget stands whatever the payer locked.
ActivateRequested(o) ==
  /\ opc[o] = "opened" /\ status = "pending" /\ ~due
  /\ status' = "active" /\ bound' = o /\ due' = FALSE
  /\ accepted' = Cheapest
  /\ \E s \in {"bound", "late"} : OpenTo(o, s)
  /\ UNCHANGED <<maxBudget, spent, reserved, event, deposit, calling, drawn, metered>>

\* activate: the conditional update that binds the channel.  The open
\* credential carries a first voucher for the cheapest tool, accepted but
\* not metered.  The update's answer may be lost.
Activate(o) ==
  /\ opc[o] = "opened" /\ status = "pending" /\ ~due
  /\ status' = "active" /\ bound' = o /\ due' = FALSE
  /\ maxBudget' = IF Budget <= deposit[o] THEN Budget ELSE deposit[o]
  /\ accepted' = Cheapest
  /\ \E s \in {"bound", "late"} : OpenTo(o, s)
  /\ UNCHANGED <<spent, reserved, event, deposit, calling, drawn, metered>>

\* activate matches no row, or fails.
ActivateMisses(o) ==
  /\ opc[o] = "opened"
  /\ OpenTo(o, "late")
  /\ UNCHANGED <<row, event, deposit, calling, channel>>

\* The row is read again to tell an expired session from a bound one.
OpenIsLate(o) ==
  /\ opc[o] = "late"
  /\ OpenTo(o, IF status \notin {"active", "purged"} /\ bound = NoOpen
               THEN "orphaned" ELSE "ended")
  /\ UNCHANGED <<row, event, deposit, calling, channel>>

\* Mutant: the row is failed whatever became of it since it was read.
MarkFailedBlindly(o) ==
  /\ opc[o] = "orphaned"
  /\ status' = "failed"
  /\ OpenTo(o, "ended")
  /\ UNCHANGED <<due, bound, maxBudget, spent, reserved, event, deposit, calling, channel>>

\* markFailed: the channel that opened too late is recorded on the row.
MarkFailed(o) ==
  /\ opc[o] = "orphaned"
  /\ status' = IF status \in {"pending", "expired"} /\ bound = NoOpen
               THEN "failed" ELSE status
  /\ OpenTo(o, "ended")
  /\ UNCHANGED <<due, bound, maxBudget, spent, reserved, event, deposit, calling, channel>>

---------------------------------------------------------------------------
(* The clock, expiry, closing and purging of the row.                      *)

TimePasses ==
  /\ ~due /\ due' = TRUE
  /\ UNCHANGED <<status, bound, maxBudget, spent, reserved, event, opening, calling, channel>>

\* expireIfDue, expirePending, expireDue: lazily on any request, or by
\* maintenance; never while an amount is reserved.
Expire ==
  /\ due /\ status \in {"pending", "active", "exhausted"} /\ reserved = 0
  /\ status' = "expired"
  /\ UNCHANGED <<due, bound, maxBudget, money, opening, calling, channel>>

\* Mutant: a session is closed under the calls that are executing.
CloseBusy ==
  /\ status \in {"active", "exhausted", "expired"} /\ bound # NoOpen
  /\ status' = "closed"
  /\ UNCHANGED <<due, bound, maxBudget, money, opening, calling, channel>>

Close ==
  /\ status \in {"active", "exhausted", "expired"} /\ bound # NoOpen /\ reserved = 0
  /\ status' = "closed"
  /\ UNCHANGED <<due, bound, maxBudget, money, opening, calling, channel>>

\* purgeExpiredPending: a row that never opened a channel nor metered a call.
Purge ==
  /\ status = "expired" /\ bound = NoOpen /\ \A k \in Keys : event[k].status = "none"
  /\ status' = "purged"
  /\ UNCHANGED <<due, bound, maxBudget, money, opening, calling, channel>>

---------------------------------------------------------------------------
(* Calls: callTool.                                                        *)

Event(c) == event[KeyOf[c]]
To(c, s) == pc' = [pc EXCEPT ![c] = s]

\* Mutant: a key is free again while its first call is executing.
KeyFreeWhileReserved(c) ==
  Event(c).status # "charged" /\ Event(c).body \in {NoCall, BodyOf[c]}

\* No event of the key stands in the way: none yet, or one that failed or
\* was released and was made for the same tool and input.
KeyFree(c) ==
  \/ Event(c).status = "none"
  \/ Event(c).status \in {"failed", "released"} /\ Event(c).body = BodyOf[c]

\* Mutant: amounts held by other calls are not counted.
FitsSpent(c) == spent + PriceOf[c] <= maxBudget

Fits(c) == spent + reserved + PriceOf[c] <= maxBudget

\* reserve holds the price under the row lock.
Reserve(c) ==
  /\ pc[c] = "idle" /\ KeyFree(c) /\ status = "active" /\ ~due /\ Fits(c)
  /\ reserved' = reserved + PriceOf[c]
  /\ event' = [event EXCEPT ![KeyOf[c]] =
                 [status |-> "reserved", amount |-> PriceOf[c], body |-> BodyOf[c],
                  by |-> c]]
  /\ To(c, "reserved")
  /\ UNCHANGED <<status, due, bound, maxBudget, spent, opening, answer, voucher, channel>>

\* reserve finds the key charged for another tool or input, or in progress,
\* the session not active, or the budget too small.
Refuse(c) ==
  /\ pc[c] = "idle"
  /\ IF KeyFree(c) THEN status # "active" \/ due \/ ~Fits(c)
                   ELSE Event(c).body # BodyOf[c] \/ Event(c).status = "reserved"
  /\ To(c, "refused")
  /\ UNCHANGED <<row, event, opening, answer, voucher, channel>>

\* Mutant: the stored result is replayed for any request with the key.
ReplayAnyRequest(c) ==
  /\ pc[c] = "idle" /\ Event(c).status = "charged"
  /\ answer' = [answer EXCEPT ![c] = Event(c).by]
  /\ To(c, "replayed")
  /\ UNCHANGED <<row, event, opening, voucher, channel>>

\* reserve finds the key charged for the same request: its stored result is
\* returned and nothing is charged, also when the session is over.
Replay(c) ==
  /\ pc[c] = "idle" /\ Event(c).status = "charged" /\ Event(c).body = BodyOf[c]
  /\ answer' = [answer EXCEPT ![c] = Event(c).by]
  /\ To(c, "replayed")
  /\ UNCHANGED <<row, event, opening, voucher, channel>>

\* Mutant: the held amount is not returned to the budget.
ReleaseEventOnly(c, s) ==
  /\ event' = [event EXCEPT ![KeyOf[c]].status =
                 IF @ = "reserved" THEN s ELSE @]
  /\ UNCHANGED reserved

\* release: the held amount returns to the budget.
Release(c, s) ==
  IF Event(c).status = "reserved"
  THEN /\ reserved' = reserved - Event(c).amount
       /\ event' = [event EXCEPT ![KeyOf[c]].status = s]
  ELSE UNCHANGED <<reserved, event>>

\* Every caller of release swallows its failure.
GiveBack(c, s) == Release(c, s) \/ UNCHANGED <<reserved, event>>

\* No voucher came with the request, or verifySessionCall rejects it.
Unpaid(c) ==
  /\ pc[c] = "reserved"
  /\ GiveBack(c, "released") /\ To(c, "unpaid")
  /\ UNCHANGED <<status, due, bound, maxBudget, spent, opening, answer, voucher, channel>>

\* verifySessionCall: a voucher that does not decrease the accepted amount
\* and stays within the deposit.
Verify(c) ==
  /\ pc[c] = "reserved"
  /\ \E v \in accepted .. deposit[bound] : voucher' = [voucher EXCEPT ![c] = v]
  /\ To(c, "executing")
  /\ UNCHANGED <<row, event, opening, answer, channel>>

\* The tool fails, or the voucher is not accepted: another call's voucher
\* may have been accepted since.  An acceptance may take effect all the same.
Fail(c) ==
  /\ pc[c] = "executing"
  /\ GiveBack(c, "failed") /\ To(c, "failed")
  /\ \/ accepted' = accepted
     \/ c \in LostAcks /\ voucher[c] > accepted /\ accepted' = voucher[c]
  /\ UNCHANGED <<status, due, bound, maxBudget, spent, opening, answer, voucher,
                 drawn, metered>>

\* recordUsage, first step: the tool has succeeded and the SDK accepts the voucher.
Accept(c) ==
  /\ pc[c] = "executing" /\ voucher[c] >= accepted
  /\ accepted' = voucher[c]
  /\ To(c, "accepted")
  /\ UNCHANGED <<row, event, opening, answer, voucher, drawn, metered>>

\* recordUsage, second step: the price is deducted if the accepted voucher
\* covers it.
Deduct(c) ==
  /\ drawn + PriceOf[c] <= accepted
  /\ drawn' = drawn + PriceOf[c]
  /\ metered' = metered \cup {c}

Meter(c) ==
  /\ pc[c] = "accepted" /\ Deduct(c)
  /\ To(c, "metered")
  /\ UNCHANGED <<row, event, opening, answer, voucher, accepted>>

\* The deduction is refused or its outcome is unknown: the result is withheld.
MeterFails(c) ==
  /\ pc[c] = "accepted"
  /\ \/ UNCHANGED <<drawn, metered>>
     \/ c \in LostAcks /\ Deduct(c)
  /\ GiveBack(c, "failed") /\ To(c, "failed")
  /\ UNCHANGED <<status, due, bound, maxBudget, spent, opening, answer, voucher, accepted>>

\* Mutant: the session is charged before the channel is.
CommitUnmetered(c) ==
  /\ pc[c] \in {"accepted", "metered"} /\ Event(c).status = "reserved"
  /\ reserved' = reserved - Event(c).amount
  /\ spent' = spent + Event(c).amount
  /\ event' = [event EXCEPT ![KeyOf[c]].status = "charged"]
  /\ answer' = [answer EXCEPT ![c] = c]
  /\ To(c, "delivered")
  /\ UNCHANGED <<status, due, bound, maxBudget, opening, voucher, channel>>

\* commit: reserved becomes spent, the result is stored for replay, and the
\* session is exhausted once no allowed tool fits.
Commit(c) ==
  /\ pc[c] = "metered" /\ Event(c).status = "reserved"
  /\ reserved' = reserved - Event(c).amount
  /\ spent' = spent + Event(c).amount
  /\ status' = IF status = "active" /\ maxBudget - spent' < Cheapest
               THEN "exhausted" ELSE status
  /\ event' = [event EXCEPT ![KeyOf[c]].status = "charged"]
  /\ answer' = [answer EXCEPT ![c] = c]
  /\ To(c, "delivered")
  /\ UNCHANGED <<due, bound, maxBudget, opening, voucher, channel>>

\* The commit fails after the channel was metered: the result is returned.
CommitLost(c) ==
  /\ pc[c] = "metered"
  /\ answer' = [answer EXCEPT ![c] = c]
  /\ To(c, "delivered")
  /\ UNCHANGED <<row, event, opening, voucher, channel>>

Crash(c) ==
  /\ pc[c] \in InFlight
  /\ To(c, "crashed")
  /\ UNCHANGED <<row, event, opening, answer, voucher, channel>>

---------------------------------------------------------------------------
OpenStep(o) ==
  \/ OpenCheck(o) \/ OpenChannel(o) \/ OpenEnds(o) \/ Activate(o)
  \/ ActivateMisses(o) \/ OpenIsLate(o) \/ MarkFailed(o)

CallStep(c) ==
  \/ Reserve(c) \/ Refuse(c) \/ Replay(c) \/ Unpaid(c) \/ Verify(c) \/ Fail(c)
  \/ Accept(c) \/ Meter(c) \/ MeterFails(c) \/ Commit(c) \/ CommitLost(c) \/ Crash(c)

Next ==
  \/ \E o \in Opens : OpenStep(o)
  \/ \E c \in Calls : CallStep(c)
  \/ TimePasses \/ Expire \/ Close \/ Purge

Spec == Init /\ [][Next]_sessionVars

---------------------------------------------------------------------------
(* Properties.                                                             *)

Sum(S, f(_)) == MapThenSumSet(f, S)
Having(s) == {k \in Keys : event[k].status = s}

(* sessions.ts calls it the one invariant everything there protects: spent
   plus reserved never exceeds the budget, however many calls reserve at
   once and whatever fails between their steps. *)
WithinBudget == spent + reserved <= maxBudget

(* The row's counters are derived from its usage events and from nothing
   else: reserved is what the reserved events hold and spent what the
   charged ones cost, though no query ever recomputes them. *)
MoneyAccounted ==
  /\ reserved = Sum(Having("reserved"), LAMBDA k : event[k].amount)
  /\ spent = Sum(Having("charged"), LAMBDA k : event[k].amount)

(* Rafid never charges a session for what the channel did not meter,
   whichever of the two updates of a call is lost. *)
ChargedIsMetered == spent <= drawn

(* What the channel meters never exceeds what the payer has signed for, nor
   that the deposit; the budget is what the deposit really backs. *)
SignedAndLocked ==
  /\ drawn <= accepted
  /\ bound # NoOpen => accepted <= deposit[bound] /\ maxBudget <= deposit[bound]

(* Once a session is expired or closed no call is in flight: what the
   settlement reads from the channel can no longer change under it. *)
QuietWhenOver ==
  status \in {"expired", "closed"} => \A c \in Calls : pc[c] \notin InFlight

(* A channel, once bound, backs the session for the rest of its life: an
   open request that comes too late never fails or rebinds a session that
   another request has opened in the meantime. *)
BoundForLife ==
  [][bound # NoOpen => bound' = bound /\ status' \notin {"failed", "pending", "purged"}]_sessionVars

SameKey(c, d) == c # d /\ KeyOf[c] = KeyOf[d]

(* sessions.ts: a retried call finds its own previous event instead of
   creating (and charging) a second one.  The channel is metered at most
   once for a key. *)
KeyMeteredAtMostOnce ==
  \A c, d \in metered : ~SameKey(c, d)

(* A replayed result is that of a delivered call of the same request,
   metered on the channel. *)
ReplayIsPaid ==
  \A c \in Calls : pc[c] = "replayed" =>
    /\ answer[c] \in metered /\ pc[answer[c]] = "delivered"
    /\ KeyOf[answer[c]] = KeyOf[c] /\ BodyOf[answer[c]] = BodyOf[c]

---------------------------------------------------------------------------
(* The session implements the customer's view of a wallet.                 *)

\* An attempt that reserved and whose row now stands for a later one was
\* given its amount back.
PurchaseView(p, e, c) ==
  IF p \in {"idle", "refused", "replayed"} THEN "none"
  ELSE IF e.by # c \/ e.status \in {"failed", "released"} THEN "returned"
  ELSE IF e.status = "charged" THEN "paid" ELSE "held"

WalletPurchase == [c \in Calls |-> PurchaseView(pc[c], Event(c), c)]
WalletPocket == [c \in Calls |-> IF WalletPurchase[c] = "none" THEN "none" ELSE "prepaid"]
WalletFunds == IF bound = NoOpen THEN 0 ELSE maxBudget - spent - reserved

Wallet == INSTANCE PrepaidWallet WITH
  Purchases <- Calls, RequestOf <- KeyOf, NoRequest <- NoCall, CostOf <- PriceOf,
  funds <- WalletFunds, purchase <- WalletPurchase, pocket <- WalletPocket

(* A session keeps the promise of the prepaid wallet: what is left of the
   budget moves by exactly the price of a call when it is held and back when
   it is returned, and no key is ever held or paid twice. *)
ImplementsWallet == Wallet!WSpec
=============================================================================

-------------------------- MODULE MppSessionProofs --------------------------
(***************************************************************************)
(* Proofs about MppSession for every set of open requests, calls, keys,    *)
(* prices, deposits and budgets.                                           *)
(*                                                                         *)
(*   BudgetKept           spent plus reserved stay within the budget       *)
(*   SignedAndLockedKept  what is metered is signed for and locked         *)
(*   BoundOnce            a bound channel stays bound, and its session     *)
(*                        is never failed                                  *)
(*   ReplayPaid           a replayed result was metered and delivered      *)
(*   KeyMeteredOnce       a key is metered once, if a channel update that  *)
(*                        is reported as failed has no effect              *)
(*   CountersAccounted    spent and reserved are sums over the events      *)
(*   SessionTypes         the type invariant, with reserved >= 0           *)
(*   ChargesAreMetered    what the row has spent the channel has metered   *)
(*   OverIsQuiet          no call is in flight once the session is over    *)
(*   SessionRefinement    a session is a PrepaidWallet                     *)
(***************************************************************************)
EXTENDS MppSession, SumTheorems, TLAPS

OpenStates == {"idle", "verifying", "opened", "late", "orphaned", "bound", "ended"}
CallStates == InFlight \cup {"idle", "delivered", "replayed", "refused", "unpaid",
                             "failed", "crashed"}
EventRows == [status : {"none", "reserved", "charged", "failed", "released"},
              amount : Nat, body : {BodyOf[c] : c \in Calls} \cup {NoCall},
              by : Calls \cup {NoCall}]

\* The type invariant but for reserved >= 0, which needs the sum over the events.
Typed ==
  /\ status \in {"pending", "active", "exhausted", "expired", "closed", "failed", "purged"}
  /\ bound \in Opens \cup {NoOpen}
  /\ maxBudget \in Nat /\ spent \in Nat /\ reserved \in Int
  /\ event \in [Keys -> EventRows]
  /\ opc \in [Opens -> OpenStates] /\ deposit \in [Opens -> Nat]
  /\ pc \in [Calls -> CallStates] /\ answer \in [Calls -> Calls \cup {NoCall}]
  /\ voucher \in [Calls -> Nat] /\ accepted \in Nat /\ drawn \in Nat
  /\ metered \subseteq Calls

\* What the status of the row says about its channel and its calls.
StatusInv ==
  /\ status = "pending" =>
       spent = 0 /\ reserved = 0 /\ \A k \in Keys : event[k].status = "none"
  /\ status \in {"active", "exhausted", "closed"} => bound # NoOpen
  /\ bound # NoOpen => status \notin {"pending", "failed", "purged"}
  /\ \A c \in Calls : pc[c] \in InFlight => bound # NoOpen

\* The channel behind the session is not touched by another open request.
ChannelInv ==
  /\ bound = NoOpen => drawn = 0
  /\ bound # NoOpen => opc[bound] \notin {"idle", "verifying", "opened"}
  /\ \A o \in Opens : opc[o] = "opened" => deposit[o] \in Deposits
  /\ \A c \in Calls : pc[c] \in {"executing", "accepted"} => voucher[c] <= deposit[bound]

SessionInv == Typed /\ StatusInv /\ ChannelInv /\ WithinBudget /\ SignedAndLocked

---------------------------------------------------------------------------
(* The session and its channel.                                            *)

LEMMA SessionInvInit == Init => SessionInv
PROOF
<1> SUFFICES ASSUME Init PROVE SessionInv
  OBVIOUS
<1> USE SessionAssumption DEF Init
<1>1. Typed
  BY DEF Typed, NoEvent, EventRows, OpenStates, CallStates
<1>2. StatusInv /\ ChannelInv
  BY DEF StatusInv, ChannelInv, NoEvent, InFlight
<1>3. WithinBudget /\ SignedAndLocked
  BY DEF WithinBudget, SignedAndLocked
<1> QED
  BY <1>1, <1>2, <1>3 DEF SessionInv

\* Open requests.
LEMMA OpenKeepsInv ==
  ASSUME SessionInv, NEW o \in Opens, OpenStep(o)
  PROVE  SessionInv'
PROOF
<1> USE SessionAssumption DEF SessionInv, Typed, StatusInv, ChannelInv, WithinBudget,
        SignedAndLocked, OpenStates, InFlight, row, money, channel, calling, OpenTo
<1>1. CASE OpenCheck(o)
  BY <1>1 DEF OpenCheck
<1>2. CASE OpenChannel(o)
  BY <1>2 DEF OpenChannel
<1>3. CASE OpenEnds(o)
  BY <1>3 DEF OpenEnds
<1>4. CASE Activate(o)
  BY <1>4 DEF Activate
<1>5. CASE ActivateMisses(o)
  BY <1>5 DEF ActivateMisses
<1>6. CASE OpenIsLate(o)
  BY <1>6 DEF OpenIsLate
<1>7. CASE MarkFailed(o)
  BY <1>7 DEF MarkFailed
<1> QED
  BY <1>1, <1>2, <1>3, <1>4, <1>5, <1>6, <1>7 DEF OpenStep

\* The clock, expiry, closing and purging.
LEMMA RowKeepsInv ==
  ASSUME SessionInv, TimePasses \/ Expire \/ Close \/ Purge
  PROVE  SessionInv'
PROOF
<1> USE SessionAssumption DEF SessionInv, Typed, StatusInv, ChannelInv, WithinBudget,
        SignedAndLocked, OpenStates, InFlight, row, money, channel, calling, opening
<1>1. CASE TimePasses
  BY <1>1 DEF TimePasses
<1>2. CASE Expire
  BY <1>2 DEF Expire
<1>3. CASE Close
  BY <1>3 DEF Close
<1>4. CASE Purge
  BY <1>4 DEF Purge
<1> QED
  BY <1>1, <1>2, <1>3, <1>4

\* Giving an amount back moves one event out of "reserved", or does nothing.
LEMMA GiveBackKeepsRow ==
  ASSUME Typed, NEW c \in Calls, NEW s \in {"failed", "released"}, GiveBack(c, s)
  PROVE  /\ event' \in [Keys -> EventRows] /\ reserved' \in Int /\ reserved' <= reserved
         /\ \/ UNCHANGED <<reserved, event>>
            \/ Event(c).status = "reserved"
         /\ \A k \in Keys : k # KeyOf[c] => event'[k] = event[k]
         /\ \A k \in Keys : event'[k].by = event[k].by /\ event'[k].body = event[k].body
                         /\ event'[k].amount = event[k].amount
         /\ \A k \in Keys : event'[k].status = "none" <=> event[k].status = "none"
         /\ \A k \in Keys : event'[k].status = "charged" <=> event[k].status = "charged"
PROOF
<1>1. KeyOf[c] \in Keys
  BY SessionAssumption
<1>2. event[KeyOf[c]] \in EventRows /\ event \in [Keys -> EventRows] /\ reserved \in Int
  BY <1>1 DEF Typed
<1>3. CASE UNCHANGED <<reserved, event>>
  BY <1>2, <1>3
<1>4. CASE Event(c).status = "reserved" /\ Release(c, s)
  BY <1>1, <1>2, <1>4 DEF Event, Release, EventRows
<1> QED
  BY <1>3, <1>4 DEF GiveBack, Release

\* Committing makes the event of the key charged and leaves the others alone.
LEMMA ChargedRow ==
  ASSUME Typed, NEW c \in Calls,
         event' = [event EXCEPT ![KeyOf[c]].status = "charged"]
  PROVE  /\ event' \in [Keys -> EventRows]
         /\ event'[KeyOf[c]].status = "charged"
         /\ \A k \in Keys : k # KeyOf[c] => event'[k] = event[k]
         /\ \A k \in Keys : event'[k].by = event[k].by /\ event'[k].body = event[k].body
                         /\ event'[k].amount = event[k].amount
PROOF
<1>1. KeyOf[c] \in Keys
  BY SessionAssumption
<1>2. event[KeyOf[c]] \in EventRows /\ event \in [Keys -> EventRows]
  BY <1>1 DEF Typed
<1> QED
  BY <1>1, <1>2 DEF EventRows

\* Calls.
LEMMA CallKeepsInv ==
  ASSUME SessionInv, NEW c \in Calls, CallStep(c)
  PROVE  SessionInv'
PROOF
<1>0. KeyOf[c] \in Keys /\ PriceOf[c] \in Nat
  BY SessionAssumption
<1> USE <1>0, SessionAssumption
    DEF SessionInv, Typed, StatusInv, ChannelInv, WithinBudget, SignedAndLocked, CallStates,
        InFlight, row, money, channel, opening, To
<1>1. CASE Reserve(c)
  BY <1>1 DEF Reserve, Fits, EventRows
<1>2. CASE Refuse(c)
  BY <1>2 DEF Refuse
<1>3. CASE Replay(c)
  <2>1. event[KeyOf[c]].by \in Calls \cup {NoCall}
    BY DEF EventRows
  <2> QED
    BY <1>3, <2>1 DEF Replay, Event
<1>4. CASE Unpaid(c)
  BY <1>4, GiveBackKeepsRow DEF Unpaid
<1>5. CASE Verify(c)
  BY <1>5 DEF Verify
<1>6. CASE Fail(c)
  BY <1>6, GiveBackKeepsRow DEF Fail
<1>7. CASE Accept(c)
  BY <1>7 DEF Accept
<1>8. CASE Meter(c)
  BY <1>8 DEF Meter, Deduct
<1>9. CASE MeterFails(c)
  BY <1>9, GiveBackKeepsRow DEF MeterFails, Deduct
<1>10. CASE Commit(c)
  <2>1. /\ Event(c).amount \in Nat /\ status # "pending"
        /\ bound # NoOpen
    BY <1>10 DEF Commit, Event, EventRows
  <2>2. event' \in [Keys -> EventRows]
    BY <1>10, ChargedRow DEF Commit
  <2>3. /\ spent' \in Nat /\ reserved' \in Int /\ spent' + reserved' = spent + reserved
        /\ status' \in {status, "exhausted"} /\ (status' = "exhausted" => status \in {"active", "exhausted"})
    BY <1>10, <2>1 DEF Commit
  <2> QED
    BY <1>10, <2>1, <2>2, <2>3 DEF Commit
<1>11. CASE CommitLost(c)
  BY <1>11 DEF CommitLost
<1>12. CASE Crash(c)
  BY <1>12 DEF Crash
<1> QED
  BY <1>1, <1>2, <1>3, <1>4, <1>5, <1>6, <1>7, <1>8, <1>9, <1>10, <1>11, <1>12 DEF CallStep

LEMMA SessionInvNext == SessionInv /\ [Next]_sessionVars => SessionInv'
PROOF
<1> SUFFICES ASSUME SessionInv, [Next]_sessionVars PROVE SessionInv'
  OBVIOUS
<1>1. CASE UNCHANGED sessionVars
  BY <1>1 DEF sessionVars, SessionInv, Typed, StatusInv, ChannelInv, WithinBudget,
              SignedAndLocked
<1> QED
  BY <1>1, OpenKeepsInv, RowKeepsInv, CallKeepsInv DEF Next

(* sessions.ts, "the one invariant": spent plus reserved never exceeds the
   budget, for any number of concurrent calls at any prices. *)
THEOREM BudgetKept == Spec => []WithinBudget
PROOF
<1>1. SessionInv => WithinBudget
  BY DEF SessionInv
<1> QED
  BY <1>1, SessionInvInit, SessionInvNext, PTL DEF Spec

(* The channel never meters more than the payer has signed for and locked,
   and the budget never exceeds the deposit that backs it. *)
THEOREM SignedAndLockedKept == Spec => []SignedAndLocked
PROOF
<1>1. SessionInv => SignedAndLocked
  BY DEF SessionInv
<1> QED
  BY <1>1, SessionInvInit, SessionInvNext, PTL DEF Spec

\* No step of an open request, of the clock or of a call unbinds the channel.
LEMMA BoundStep ==
  ASSUME SessionInv, [Next]_sessionVars, bound # NoOpen
  PROVE  bound' = bound /\ status' \notin {"failed", "pending", "purged"}
PROOF
<1>1. bound' = bound
  BY DEF SessionInv, StatusInv, Next, OpenStep, CallStep, OpenCheck, OpenChannel, OpenEnds,
         Activate, ActivateMisses, OpenIsLate, MarkFailed, TimePasses, Expire, Close, Purge,
         Reserve, Refuse, Replay, Unpaid, Verify, Fail, Accept, Meter, MeterFails, Commit,
         CommitLost, Crash, row, channel, sessionVars
<1>2. SessionInv'
  BY SessionInvNext
<1> QED
  BY <1>1, <1>2 DEF SessionInv, StatusInv

(* A bound channel backs its session for life: an open request that comes too
   late neither rebinds nor fails a session another one has opened. *)
THEOREM BoundOnce == Spec => BoundForLife
PROOF
<1>1. SessionInv /\ [Next]_sessionVars =>
        [bound # NoOpen => bound' = bound /\ status' \notin {"failed", "pending", "purged"}]_sessionVars
  BY BoundStep
<1> QED
  BY <1>1, SessionInvInit, SessionInvNext, PTL DEF Spec, BoundForLife

---------------------------------------------------------------------------
(* Keys and their events.                                                  *)

\* A call in flight owns the event of its key; an event stands for a call of
\* its key, a charged one for a call that was metered and delivered.
KeyInv ==
  /\ \A c \in Calls : pc[c] \in InFlight => Event(c).status = "reserved" /\ Event(c).by = c
  /\ \A k \in Keys : event[k].status # "none" =>
       /\ event[k].by \in Calls /\ KeyOf[event[k].by] = k
       /\ event[k].body = BodyOf[event[k].by] /\ event[k].amount = PriceOf[event[k].by]
  /\ \A k \in Keys : event[k].status = "none" => event[k].by = NoCall
  /\ \A c \in Calls : pc[c] = "metered" => c \in metered
  /\ \A k \in Keys : event[k].status = "charged" =>
       event[k].by \in metered /\ pc[event[k].by] = "delivered"
  /\ ReplayIsPaid

\* A metered call owns the event of its key for good.
MeteredInv ==
  \A c \in metered :
    /\ Event(c).by = c /\ Event(c).status \in {"reserved", "charged"}
    /\ pc[c] \in {"metered", "delivered", "crashed"}

LEMMA KeyInvInit == Init => KeyInv /\ MeteredInv
PROOF
<1> SUFFICES ASSUME Init PROVE KeyInv /\ MeteredInv
  OBVIOUS
<1> USE SessionAssumption DEF Init
<1>1. KeyInv
  BY DEF KeyInv, ReplayIsPaid, InFlight, Event, NoEvent
<1> QED
  BY <1>1 DEF MeteredInv

\* What a step does that touches neither calls nor events.
LEMMA KeyInvFrame ==
  ASSUME KeyInv, UNCHANGED <<event, calling, metered>>
  PROVE  KeyInv' /\ (MeteredInv => MeteredInv')
PROOF
<1>1. pc' = pc /\ answer' = answer /\ event' = event /\ metered' = metered
  BY DEF calling
<1> QED
  BY <1>1 DEF KeyInv, MeteredInv, ReplayIsPaid, Event

LEMMA CallKeepsKeys ==
  ASSUME SessionInv, KeyInv, NEW c \in Calls, CallStep(c)
  PROVE  KeyInv'
PROOF
<1>0. Typed /\ KeyOf \in [Calls -> Keys] /\ NoCall \notin Calls
  BY SessionAssumption DEF SessionInv
<1> USE <1>0 DEF KeyInv, ReplayIsPaid, Typed, CallStates, InFlight, Event, row, channel, money, To
<1>1. CASE Reserve(c)
  BY <1>1 DEF Reserve, KeyFree
<1>2. CASE Refuse(c)
  BY <1>2 DEF Refuse
<1>3. CASE Replay(c)
  BY <1>3 DEF Replay
<1>4. CASE Unpaid(c)
  BY <1>4, GiveBackKeepsRow DEF Unpaid
<1>5. CASE Verify(c)
  BY <1>5 DEF Verify
<1>6. CASE Fail(c)
  <2>1. /\ pc' = [pc EXCEPT ![c] = "failed"] /\ GiveBack(c, "failed")
        /\ answer' = answer /\ metered' = metered /\ pc[c] = "executing"
    BY <1>6 DEF Fail
  <2>2. /\ \A k \in Keys : k # KeyOf[c] => event'[k] = event[k]
        /\ \A k \in Keys : /\ event'[k].by = event[k].by /\ event'[k].body = event[k].body
                         /\ event'[k].amount = event[k].amount
        /\ \A k \in Keys : event'[k].status = "none" <=> event[k].status = "none"
        /\ \A k \in Keys : event'[k].status = "charged" <=> event[k].status = "charged"
    BY <2>1, GiveBackKeepsRow
  <2> QED
    BY <2>1, <2>2
<1>7. CASE Accept(c)
  BY <1>7 DEF Accept
<1>8. CASE Meter(c)
  BY <1>8 DEF Meter, Deduct
<1>9. CASE MeterFails(c)
  <2>1. /\ pc' = [pc EXCEPT ![c] = "failed"] /\ GiveBack(c, "failed")
        /\ answer' = answer /\ metered \subseteq metered' /\ pc[c] = "accepted"
    BY <1>9 DEF MeterFails, Deduct
  <2>2. /\ \A k \in Keys : k # KeyOf[c] => event'[k] = event[k]
        /\ \A k \in Keys : /\ event'[k].by = event[k].by /\ event'[k].body = event[k].body
                         /\ event'[k].amount = event[k].amount
        /\ \A k \in Keys : event'[k].status = "none" <=> event[k].status = "none"
        /\ \A k \in Keys : event'[k].status = "charged" <=> event[k].status = "charged"
    BY <2>1, GiveBackKeepsRow
  <2> QED
    BY <2>1, <2>2
<1>10. CASE Commit(c)
  <2>1. /\ event'[KeyOf[c]].status = "charged" /\ Event(c).status = "reserved"
        /\ \A k \in Keys : k # KeyOf[c] => event'[k] = event[k]
        /\ \A k \in Keys : /\ event'[k].by = event[k].by /\ event'[k].body = event[k].body
                         /\ event'[k].amount = event[k].amount
    BY <1>10, ChargedRow DEF Commit
  <2>2. /\ pc' = [pc EXCEPT ![c] = "delivered"] /\ answer' = [answer EXCEPT ![c] = c]
        /\ metered' = metered /\ c \in metered /\ pc[c] = "metered"
    BY <1>10 DEF Commit
  <2>3. \A d \in Calls \ {c} : KeyOf[d] = KeyOf[c] => pc[d] \notin InFlight
    BY <2>2
  <2> QED
    BY <2>1, <2>2, <2>3
<1>11. CASE CommitLost(c)
  BY <1>11 DEF CommitLost
<1>12. CASE Crash(c)
  BY <1>12 DEF Crash
<1> QED
  BY <1>1, <1>2, <1>3, <1>4, <1>5, <1>6, <1>7, <1>8, <1>9, <1>10, <1>11, <1>12 DEF CallStep

LEMMA CallKeepsMetered ==
  ASSUME SessionInv, KeyInv, MeteredInv, LostAcks = {}, NEW c \in Calls, CallStep(c)
  PROVE  MeteredInv'
PROOF
<1>0. Typed /\ KeyOf \in [Calls -> Keys] /\ NoCall \notin Calls
  BY SessionAssumption DEF SessionInv
<1> USE <1>0 DEF KeyInv, MeteredInv, Typed, CallStates, InFlight, Event, row, channel, money, To
<1>1. CASE Reserve(c)
  BY <1>1 DEF Reserve, KeyFree
<1>2. CASE Refuse(c)
  BY <1>2 DEF Refuse
<1>3. CASE Replay(c)
  BY <1>3 DEF Replay
<1>4. CASE Unpaid(c)
  BY <1>4, GiveBackKeepsRow DEF Unpaid
<1>5. CASE Verify(c)
  BY <1>5 DEF Verify
<1>6. CASE Fail(c)
  BY <1>6, GiveBackKeepsRow DEF Fail
<1>7. CASE Accept(c)
  BY <1>7 DEF Accept
<1>8. CASE Meter(c)
  BY <1>8 DEF Meter, Deduct
<1>9. CASE MeterFails(c)
  BY <1>9, GiveBackKeepsRow DEF MeterFails, Deduct
<1>10. CASE Commit(c)
  BY <1>10, ChargedRow DEF Commit
<1>11. CASE CommitLost(c)
  BY <1>11 DEF CommitLost
<1>12. CASE Crash(c)
  BY <1>12 DEF Crash
<1> QED
  BY <1>1, <1>2, <1>3, <1>4, <1>5, <1>6, <1>7, <1>8, <1>9, <1>10, <1>11, <1>12 DEF CallStep

LEMMA KeyInvNext ==
  /\ SessionInv /\ KeyInv /\ [Next]_sessionVars => KeyInv'
  /\ LostAcks = {} => (SessionInv /\ KeyInv /\ MeteredInv /\ [Next]_sessionVars => MeteredInv')
PROOF
<1>1. ASSUME NEW o \in Opens, OpenStep(o) PROVE UNCHANGED <<event, calling, metered>>
  BY <1>1 DEF OpenStep, OpenCheck, OpenChannel, OpenEnds, Activate, ActivateMisses, OpenIsLate,
              MarkFailed, channel
<1>2. ASSUME TimePasses \/ Expire \/ Close \/ Purge \/ UNCHANGED sessionVars
      PROVE  UNCHANGED <<event, calling, metered>>
  BY <1>2 DEF TimePasses, Expire, Close, Purge, channel, calling, money, sessionVars
<1> QED
  BY <1>1, <1>2, KeyInvFrame, CallKeepsKeys, CallKeepsMetered DEF Next

(* A replayed result is that of a delivered call of the same key and request
   whose price was metered: a replay is never a way to an unpaid result. *)
THEOREM ReplayPaid == Spec => []ReplayIsPaid
PROOF
<1>1. KeyInv => ReplayIsPaid
  BY DEF KeyInv
<1> QED
  BY <1>1, SessionInvInit, SessionInvNext, KeyInvInit, KeyInvNext, PTL DEF Spec

(* sessions.ts: a retried call finds its own previous event instead of
   charging a second one.  It does, if a channel update that is reported as
   failed has no effect. *)
THEOREM KeyMeteredOnce == LostAcks = {} => (Spec => []KeyMeteredAtMostOnce)
PROOF
<1> SUFFICES ASSUME LostAcks = {} PROVE Spec => []KeyMeteredAtMostOnce
  OBVIOUS
<1>1. SessionInv /\ MeteredInv => KeyMeteredAtMostOnce
  BY DEF SessionInv, Typed, MeteredInv, KeyMeteredAtMostOnce, SameKey, Event
<1>2. SessionInv /\ KeyInv /\ MeteredInv /\ [Next]_sessionVars => MeteredInv'
  BY KeyInvNext
<1>3. SessionInv /\ KeyInv /\ [Next]_sessionVars => KeyInv'
  BY KeyInvNext
<1> QED
  BY <1>1, <1>2, <1>3, SessionInvInit, SessionInvNext, KeyInvInit, PTL DEF Spec

---------------------------------------------------------------------------
(* The row's counters and its events.                                      *)

Amounts == [k \in Keys |-> event[k].amount]
AmountsOf(s) == SumFunctionOnSet(Amounts, Having(s))

\* The counters are the sums over the events.  Only finitely many keys have
\* been used, however many there are.
AccountInv ==
  /\ IsFiniteSet(Having("reserved")) /\ IsFiniteSet(Having("charged"))
  /\ reserved = AmountsOf("reserved") /\ spent = AmountsOf("charged")

LEMMA AccountAsSums == AccountInv => MoneyAccounted
PROOF
<1>1. Sum(Having("reserved"), LAMBDA k : event[k].amount) = AmountsOf("reserved")
  BY DEF Sum, MapThenSumSet, SumFunctionOnSet, FoldFunctionOnSet, MapThenFoldSet, AmountsOf,
         Amounts, Having
<1>2. Sum(Having("charged"), LAMBDA k : event[k].amount) = AmountsOf("charged")
  BY DEF Sum, MapThenSumSet, SumFunctionOnSet, FoldFunctionOnSet, MapThenFoldSet, AmountsOf,
         Amounts, Having
<1> QED
  BY <1>1, <1>2 DEF AccountInv, MoneyAccounted

LEMMA AccountInit == Init => AccountInv
PROOF
<1> SUFFICES ASSUME Init PROVE AccountInv
  OBVIOUS
<1>1. Having("reserved") = {} /\ Having("charged") = {}
  BY DEF Init, Having, NoEvent
<1> QED
  BY <1>1, SumEmpty, FS_EmptySet DEF Init, AccountInv, AmountsOf

\* Amounts are natural numbers, so reserved is not negative, and covers any
\* one amount that is held.
LEMMA HeldAmounts ==
  ASSUME Typed, AccountInv
  PROVE  /\ reserved \in Nat
         /\ \A k \in Having("reserved") : event[k].amount <= reserved
PROOF
<1>1. \A k \in Keys : Amounts[k] \in Nat
  BY DEF Amounts, Typed, EventRows
<1>2. Having("reserved") \in SUBSET Keys
  BY DEF Having
<1>3. reserved \in Nat
  BY <1>1, <1>2, SumNat DEF AccountInv, AmountsOf
<1>4. ASSUME NEW k \in Having("reserved") PROVE event[k].amount <= reserved
  <2> DEFINE R == Having("reserved") \ {k}
  <2>1. reserved = Amounts[k] + SumFunctionOnSet(Amounts, R)
    BY <1>1, <1>2, SumRemove DEF AccountInv, AmountsOf
  <2>2. IsFiniteSet(R) /\ \A x \in R : Amounts[x] \in Nat
    BY <1>1, <1>2, FS_RemoveElement DEF AccountInv
  <2>3. SumFunctionOnSet(Amounts, R) \in Nat
    <3> HIDE DEF R
    <3> QED
      BY <2>2, SumNat
  <2>4. Amounts[k] = event[k].amount /\ Amounts[k] \in Nat
    BY <1>1, <1>2 DEF Amounts
  <2> QED
    BY <2>1, <2>3, <2>4
<1> QED
  BY <1>3, <1>4

\* The event of one key changes: it leaves the events held or charged, or
\* joins them with its new amount.
LEMMA AmountsLeave ==
  ASSUME Typed, AccountInv, NEW s \in {"reserved", "charged"}, NEW k \in Keys, k \in Having(s),
         event' \in [Keys -> EventRows], event'[k].status # s,
         \A j \in Keys \ {k} : event'[j] = event[j]
  PROVE  /\ IsFiniteSet(Having(s)')
         /\ AmountsOf(s)' = AmountsOf(s) - event[k].amount
PROOF
<1>1. Having(s)' = Having(s) \ {k} /\ Having(s) \in SUBSET Keys
  BY DEF Having
<1>2. IsFiniteSet(Having(s))
  BY DEF AccountInv
<1>3. /\ \A j \in Keys : Amounts[j] \in Nat /\ Amounts[j] = event[j].amount
      /\ \A j \in Keys \ {k} : Amounts'[j] = Amounts[j]
  BY DEF Amounts, Typed, EventRows
<1>4. /\ \A j \in Having(s) : Amounts[j] \in Int
      /\ \A j \in Having(s) \ {k} : Amounts'[j] = Amounts[j]
  BY <1>1, <1>3
<1>5. /\ IsFiniteSet(Having(s) \ {k})
      /\ SumFunctionOnSet(Amounts', Having(s) \ {k}) = SumFunctionOnSet(Amounts, Having(s)) - Amounts[k]
  <2> DEFINE S == Having(s)
             f == Amounts
             g == Amounts'
  <2>1. /\ IsFiniteSet(S) /\ k \in S
        /\ \A j \in S : f[j] \in Int
        /\ \A j \in S \ {k} : g[j] = f[j]
    BY <1>2, <1>4
  <2> HIDE DEF S, f, g
  <2>2. IsFiniteSet(S \ {k}) /\ SumFunctionOnSet(g, S \ {k}) = SumFunctionOnSet(f, S) - f[k]
    BY <2>1, SumLeave
  <2> QED
    BY <2>2 DEF S, f, g
<1> QED
  BY <1>1, <1>3, <1>5 DEF AmountsOf

LEMMA AmountsJoin ==
  ASSUME Typed, AccountInv, NEW s \in {"reserved", "charged"}, NEW k \in Keys \ Having(s),
         event' \in [Keys -> EventRows], event'[k].status = s,
         \A j \in Keys \ {k} : event'[j] = event[j]
  PROVE  /\ IsFiniteSet(Having(s)')
         /\ AmountsOf(s)' = AmountsOf(s) + event'[k].amount
PROOF
<1>1. Having(s)' = Having(s) \cup {k} /\ Having(s) \in SUBSET Keys
  BY DEF Having
<1>2. IsFiniteSet(Having(s)) /\ k \notin Having(s)
  BY DEF AccountInv
<1>3. /\ \A j \in Keys : Amounts[j] \in Nat /\ Amounts'[j] \in Nat
      /\ Amounts'[k] = event'[k].amount
      /\ \A j \in Keys \ {k} : Amounts'[j] = Amounts[j]
  BY DEF Amounts, Typed, EventRows
<1>4. /\ \A j \in Having(s) : Amounts[j] \in Int /\ Amounts'[j] = Amounts[j]
      /\ Amounts'[k] \in Int
  BY <1>1, <1>2, <1>3
<1>5. /\ IsFiniteSet(Having(s) \cup {k})
      /\ SumFunctionOnSet(Amounts', Having(s) \cup {k}) = SumFunctionOnSet(Amounts, Having(s)) + Amounts'[k]
  BY <1>2, <1>4, SumJoin
<1> QED
  BY <1>1, <1>3, <1>5 DEF AmountsOf

\* The event of one key changes outside the events of a status.
LEMMA AmountsStay ==
  ASSUME Typed, AccountInv, NEW s \in {"reserved", "charged"}, NEW k \in Keys,
         event' \in [Keys -> EventRows], event[k].status # s, event'[k].status # s,
         \A j \in Keys \ {k} : event'[j] = event[j]
  PROVE  IsFiniteSet(Having(s)') /\ AmountsOf(s)' = AmountsOf(s)
PROOF
<1>1. Having(s)' = Having(s) /\ Having(s) \in SUBSET Keys /\ k \notin Having(s)
  BY DEF Having
<1>2. IsFiniteSet(Having(s))
  BY DEF AccountInv
<1>3. \A j \in Having(s) : Amounts'[j] = Amounts[j]
  BY <1>1 DEF Amounts
<1>4. SumFunctionOnSet(Amounts', Having(s)) = SumFunctionOnSet(Amounts, Having(s))
  BY <1>2, <1>3, SumSame
<1> QED
  BY <1>1, <1>2, <1>4 DEF AmountsOf

LEMMA AccountFrame ==
  ASSUME AccountInv, UNCHANGED money
  PROVE  AccountInv'
PROOF
<1>1. event' = event /\ spent' = spent /\ reserved' = reserved
  BY DEF money
<1>2. Having("reserved")' = Having("reserved") /\ Having("charged")' = Having("charged")
      /\ Amounts' = Amounts
  BY <1>1 DEF Having, Amounts
<1> QED
  BY <1>1, <1>2 DEF AccountInv, AmountsOf

\* What a release that finds the event held does to the counters.
LEMMA GiveBackAccounts ==
  ASSUME Typed, AccountInv, NEW c \in Calls, NEW s \in {"failed", "released"},
         GiveBack(c, s), spent' = spent
  PROVE  AccountInv'
PROOF
<1> DEFINE k == KeyOf[c]
<1>0. k \in Keys /\ event \in [Keys -> EventRows] /\ event[k] \in EventRows
  BY SessionAssumption DEF Typed
<1>1. CASE UNCHANGED <<reserved, event>>
  BY <1>1, AccountFrame DEF money
<1>2. CASE ~UNCHANGED <<reserved, event>>
  <2>1. /\ event[k].status = "reserved" /\ reserved' = reserved - event[k].amount
        /\ event' = [event EXCEPT ![k].status = s]
    BY <1>2 DEF GiveBack, Release, Event
  <2>2. /\ event' \in [Keys -> EventRows] /\ event'[k].status = s
        /\ \A j \in Keys \ {k} : event'[j] = event[j]
    BY <1>0, <2>1 DEF EventRows
  <2>3. k \in Keys /\ k \in Having("reserved") /\ event'[k].status # "reserved"
    BY <1>0, <2>1, <2>2 DEF Having
  <2> HIDE DEF k
  <2>4. IsFiniteSet(Having("reserved")') /\ AmountsOf("reserved")' = AmountsOf("reserved") - event[k].amount
    BY <2>2, <2>3, AmountsLeave
  <2>5. IsFiniteSet(Having("charged")') /\ AmountsOf("charged")' = AmountsOf("charged")
    BY <1>0, <2>1, <2>2, AmountsStay
  <2> QED
    BY <2>1, <2>4, <2>5 DEF AccountInv
<1> QED
  BY <1>1, <1>2

LEMMA ReserveAccounts ==
  ASSUME Typed, AccountInv, NEW c \in Calls, Reserve(c)
  PROVE  AccountInv'
PROOF
<1> DEFINE k == KeyOf[c]
           e == [status |-> "reserved", amount |-> PriceOf[c], body |-> BodyOf[c], by |-> c]
<1>0. /\ k \in Keys /\ event \in [Keys -> EventRows] /\ e \in EventRows
  BY SessionAssumption DEF Typed, EventRows
<1>1. /\ event[k].status \notin {"reserved", "charged"}
      /\ reserved' = reserved + PriceOf[c] /\ spent' = spent
      /\ event' = [event EXCEPT ![k] = e]
  BY DEF Reserve, KeyFree, Event
<1>2. /\ event' \in [Keys -> EventRows] /\ event'[k] = e
      /\ \A j \in Keys \ {k} : event'[j] = event[j]
  <2> HIDE DEF e
  <2> QED
    BY <1>0, <1>1
<1>3. event'[k].status = "reserved" /\ event'[k].amount = PriceOf[c]
  BY <1>2
<1>4. k \in Keys \ Having("reserved")
  BY <1>0, <1>1 DEF Having
<1> HIDE DEF k, e
<1>5. IsFiniteSet(Having("reserved")') /\ AmountsOf("reserved")' = AmountsOf("reserved") + PriceOf[c]
  BY <1>2, <1>3, <1>4, AmountsJoin
<1>6. IsFiniteSet(Having("charged")') /\ AmountsOf("charged")' = AmountsOf("charged")
  BY <1>0, <1>1, <1>2, <1>3, AmountsStay
<1> QED
  BY <1>1, <1>5, <1>6 DEF AccountInv

LEMMA CommitAccounts ==
  ASSUME Typed, AccountInv, NEW c \in Calls, Commit(c)
  PROVE  AccountInv'
PROOF
<1> DEFINE k == KeyOf[c]
<1>0. k \in Keys /\ event \in [Keys -> EventRows] /\ event[k] \in EventRows
  BY SessionAssumption DEF Typed
<1>1. /\ event[k].status = "reserved"
      /\ reserved' = reserved - event[k].amount /\ spent' = spent + event[k].amount
      /\ event' = [event EXCEPT ![k].status = "charged"]
  BY DEF Commit, Event
<1>2. /\ event' \in [Keys -> EventRows] /\ event'[k].status = "charged"
      /\ event'[k].amount = event[k].amount
      /\ \A j \in Keys \ {k} : event'[j] = event[j]
  BY <1>0, <1>1 DEF EventRows
<1>3. k \in Having("reserved") /\ k \in Keys \ Having("charged")
  BY <1>0, <1>1 DEF Having
<1> HIDE DEF k
<1>4. IsFiniteSet(Having("reserved")') /\ AmountsOf("reserved")' = AmountsOf("reserved") - event[k].amount
  BY <1>2, <1>3, AmountsLeave
<1>5. IsFiniteSet(Having("charged")') /\ AmountsOf("charged")' = AmountsOf("charged") + event[k].amount
  BY <1>2, <1>3, AmountsJoin
<1> QED
  BY <1>1, <1>4, <1>5 DEF AccountInv

\* Only a reservation, a release and a commit touch events or counters.
LEMMA AccountNext == SessionInv /\ AccountInv /\ [Next]_sessionVars => AccountInv'
PROOF
<1> SUFFICES ASSUME SessionInv, AccountInv, [Next]_sessionVars PROVE AccountInv'
  OBVIOUS
<1>0. Typed
  BY DEF SessionInv
<1>1. ASSUME NEW o \in Opens, OpenStep(o) PROVE UNCHANGED money
  <2>1. CASE Activate(o)
    BY <2>1 DEF Activate, money
  <2>2. CASE ~Activate(o)
    BY <1>1, <2>2 DEF OpenStep, OpenCheck, OpenChannel, OpenEnds, ActivateMisses, OpenIsLate,
                      MarkFailed, row, money
  <2> QED
    BY <2>1, <2>2
<1>2. ASSUME TimePasses \/ Expire \/ Close \/ Purge \/ UNCHANGED sessionVars
      PROVE  UNCHANGED money
  BY <1>2 DEF TimePasses, Expire, Close, Purge, money, sessionVars
<1>3. ASSUME NEW c \in Calls,
             \/ Refuse(c) \/ Replay(c) \/ Verify(c) \/ Accept(c) \/ Meter(c)
             \/ CommitLost(c) \/ Crash(c)
      PROVE  UNCHANGED money
  BY <1>3 DEF Refuse, Replay, Verify, Accept, Meter, CommitLost, Crash, row, money
<1>4. ASSUME NEW c \in Calls, Unpaid(c) \/ Fail(c) \/ MeterFails(c) PROVE AccountInv'
  <2>1. \E s \in {"failed", "released"} : GiveBack(c, s) /\ spent' = spent
    BY <1>4 DEF Unpaid, Fail, MeterFails
  <2> QED
    BY <1>0, <2>1, GiveBackAccounts
<1>5. ASSUME NEW c \in Calls, Reserve(c) \/ Commit(c) PROVE AccountInv'
  BY <1>0, <1>5, ReserveAccounts, CommitAccounts
<1> QED
  BY <1>1, <1>2, <1>3, <1>4, <1>5, AccountFrame DEF Next, CallStep

(* The row's counters say what its events say: reserved is the sum of what
   the reserved events hold and spent of what the charged ones cost, for any
   number of keys, though no query ever recomputes them. *)
THEOREM CountersAccounted == Spec => []MoneyAccounted
PROOF
<1> QED
  BY AccountAsSums, SessionInvInit, SessionInvNext, AccountInit, AccountNext, PTL DEF Spec

DueTyped == due \in BOOLEAN

(* Every variable keeps its type.  That the amount held never falls below
   zero needs the sum: a release subtracts what its own event holds. *)
THEOREM SessionTypes == Spec => []TypeOK
PROOF
<1>1. Init => DueTyped
  BY DEF Init, DueTyped
<1>2. DueTyped /\ [Next]_sessionVars => DueTyped'
  BY DEF DueTyped, Next, OpenStep, CallStep, OpenCheck, OpenChannel, OpenEnds,
         Activate, ActivateMisses, OpenIsLate, MarkFailed, TimePasses, Expire, Close, Purge,
         Reserve, Refuse, Replay, Unpaid, Verify, Fail, Accept, Meter, MeterFails, Commit,
         CommitLost, Crash, row, channel, sessionVars
<1>3. SessionInv /\ AccountInv /\ DueTyped => TypeOK
  <2> SUFFICES ASSUME SessionInv, AccountInv, DueTyped PROVE TypeOK
    OBVIOUS
  <2>1. Typed /\ reserved \in Nat
    BY HeldAmounts DEF SessionInv
  <2> QED
    BY <2>1 DEF DueTyped, Typed, TypeOK, EventRows, OpenStates, CallStates
<1> QED
  BY <1>1, <1>2, <1>3, SessionInvInit, SessionInvNext, AccountInit, AccountNext, PTL DEF Spec

---------------------------------------------------------------------------
(* The row and the channel.                                                *)

\* Calls whose price the channel has deducted and the row not yet charged.
Owed == {c \in Calls : pc[c] = "metered"}

\* The channel is ahead of the row by at least what is owed.
AheadInv == IsFiniteSet(Owed) /\ spent + SumFunctionOnSet(PriceOf, Owed) <= drawn

LEMMA OwedPrices ==
  ASSUME IsFiniteSet(Owed)
  PROVE  /\ \A c \in Owed : PriceOf[c] \in Int
         /\ SumFunctionOnSet(PriceOf, Owed) \in Nat
PROOF
<1>1. \A c \in Owed : PriceOf[c] \in Nat
  BY SessionAssumption DEF Owed
<1> QED
  BY <1>1, SumNat

LEMMA AheadInit == Init => AheadInv
PROOF
<1> SUFFICES ASSUME Init PROVE AheadInv
  OBVIOUS
<1>1. Owed = {}
  BY DEF Init, Owed
<1> QED
  BY <1>1, SumEmpty, FS_EmptySet DEF Init, AheadInv

\* A call that leaves "metered" takes its price out of what is owed.
LEMMA OwedLess ==
  ASSUME Typed, AheadInv, NEW c \in Owed, NEW s, s # "metered", pc' = [pc EXCEPT ![c] = s]
  PROVE  /\ IsFiniteSet(Owed') /\ PriceOf[c] \in Nat
         /\ SumFunctionOnSet(PriceOf, Owed') = SumFunctionOnSet(PriceOf, Owed) - PriceOf[c]
PROOF
<1>1. Owed' = Owed \ {c}
  BY DEF Owed, Typed
<1>2. IsFiniteSet(Owed)
  BY DEF AheadInv
<1>3. \A d \in Owed : PriceOf[d] \in Int
  BY <1>2, OwedPrices
<1>4. /\ IsFiniteSet(Owed \ {c})
      /\ SumFunctionOnSet(PriceOf, Owed \ {c}) = SumFunctionOnSet(PriceOf, Owed) - PriceOf[c]
  BY <1>2, <1>3, SumLeave
<1> QED
  BY <1>1, <1>4, SessionAssumption DEF Owed

LEMMA AheadNext ==
  SessionInv /\ KeyInv /\ AheadInv /\ [Next]_sessionVars => AheadInv'
PROOF
<1> SUFFICES ASSUME SessionInv, KeyInv, AheadInv, [Next]_sessionVars PROVE AheadInv'
  OBVIOUS
<1>0. Typed /\ spent \in Nat /\ drawn \in Nat
  BY DEF SessionInv, Typed
<1>1. ASSUME spent' = spent, drawn' \in Nat, drawn <= drawn', Owed' = Owed PROVE AheadInv'
  <2>1. SumFunctionOnSet(PriceOf, Owed) \in Nat
    BY OwedPrices DEF AheadInv
  <2> QED
    BY <1>0, <1>1, <2>1 DEF AheadInv
<1>2. ASSUME NEW o \in Opens, OpenStep(o) PROVE AheadInv'
  <2>1. UNCHANGED <<spent, drawn, pc>>
    BY <1>2 DEF OpenStep, OpenCheck, OpenChannel, OpenEnds, Activate, ActivateMisses, OpenIsLate,
                MarkFailed, row, channel, calling
  <2> QED
    BY <1>0, <1>1, <2>1 DEF Owed
<1>3. ASSUME TimePasses \/ Expire \/ Close \/ Purge \/ UNCHANGED sessionVars PROVE AheadInv'
  <2>1. UNCHANGED <<spent, drawn, pc>>
    BY <1>3 DEF TimePasses, Expire, Close, Purge, money, channel, calling, sessionVars
  <2> QED
    BY <1>0, <1>1, <2>1 DEF Owed
<1>4. ASSUME NEW c \in Calls,
             \/ Reserve(c) \/ Refuse(c) \/ Replay(c) \/ Unpaid(c) \/ Verify(c) \/ Fail(c)
             \/ Accept(c) \/ MeterFails(c)
      PROVE  AheadInv'
  <2>1. /\ spent' = spent /\ \E s \in CallStates \ {"metered"} : pc' = [pc EXCEPT ![c] = s]
        /\ pc[c] # "metered"
    <3>1. CASE Reserve(c) \/ Refuse(c) \/ Replay(c) \/ Unpaid(c)
      BY <3>1 DEF Reserve, Refuse, Replay, Unpaid, row, To, CallStates, InFlight
    <3>2. CASE Verify(c) \/ Fail(c) \/ Accept(c) \/ MeterFails(c)
      BY <3>2 DEF Verify, Fail, Accept, MeterFails, row, To, CallStates, InFlight
    <3> QED
      BY <1>4, <3>1, <3>2
  <2>2. Owed' = Owed
    BY <1>0, <2>1 DEF Owed, Typed
  <2>3. drawn' = drawn \/ drawn' = drawn + PriceOf[c]
    BY <1>4 DEF Reserve, Refuse, Replay, Unpaid, Verify, Fail, Accept, MeterFails, Deduct, channel
  <2>4. drawn' \in Nat /\ drawn <= drawn'
    BY <1>0, <2>3, SessionAssumption
  <2> QED
    BY <1>1, <2>1, <2>2, <2>4
<1>5. ASSUME NEW c \in Calls, Meter(c) PROVE AheadInv'
  <2>1. /\ spent' = spent /\ drawn' = drawn + PriceOf[c] /\ PriceOf[c] \in Nat
        /\ pc[c] = "accepted" /\ pc' = [pc EXCEPT ![c] = "metered"]
    BY <1>5, SessionAssumption DEF Meter, Deduct, row, To
  <2>2. Owed' = Owed \cup {c} /\ c \notin Owed /\ IsFiniteSet(Owed)
    BY <1>0, <2>1 DEF Owed, Typed, AheadInv
  <2>3. (\A d \in Owed : PriceOf[d] \in Int) /\ SumFunctionOnSet(PriceOf, Owed) \in Nat
    BY <2>2, OwedPrices
  <2>4. /\ IsFiniteSet(Owed \cup {c})
        /\ SumFunctionOnSet(PriceOf, Owed \cup {c}) = SumFunctionOnSet(PriceOf, Owed) + PriceOf[c]
    <3>1. c \notin Owed /\ PriceOf[c] \in Int
      BY <2>1, <2>2
    <3> HIDE DEF Owed
    <3> QED
      BY <2>2, <2>3, <3>1, SumJoin
  <2> QED
    BY <1>0, <2>1, <2>2, <2>3, <2>4 DEF AheadInv
<1>6. ASSUME NEW c \in Calls, Commit(c) PROVE AheadInv'
  <2>1. /\ c \in Owed /\ pc' = [pc EXCEPT ![c] = "delivered"] /\ drawn' = drawn
        /\ spent' = spent + PriceOf[c]
    <3>1. Event(c).amount = PriceOf[c]
      BY <1>6, SessionAssumption DEF Commit, KeyInv, Event, InFlight
    <3> QED
      BY <1>6, <3>1 DEF Commit, Owed, To, channel
  <2>2. /\ IsFiniteSet(Owed') /\ PriceOf[c] \in Nat
        /\ SumFunctionOnSet(PriceOf, Owed') = SumFunctionOnSet(PriceOf, Owed) - PriceOf[c]
    BY <1>0, <2>1, OwedLess
  <2>3. SumFunctionOnSet(PriceOf, Owed) \in Nat
    BY OwedPrices DEF AheadInv
  <2> QED
    BY <1>0, <2>1, <2>2, <2>3 DEF AheadInv
<1>7. ASSUME NEW c \in Calls, CommitLost(c) \/ Crash(c) PROVE AheadInv'
  <2>1. spent' = spent /\ drawn' = drawn
    BY <1>7 DEF CommitLost, Crash, row, channel
  <2>2. \E s \in {"delivered", "crashed"} : pc' = [pc EXCEPT ![c] = s]
    BY <1>7 DEF CommitLost, Crash, To
  <2>3. CASE c \in Owed
    <3>1. /\ IsFiniteSet(Owed') /\ PriceOf[c] \in Nat
          /\ SumFunctionOnSet(PriceOf, Owed') = SumFunctionOnSet(PriceOf, Owed) - PriceOf[c]
      BY <1>0, <2>2, <2>3, OwedLess
    <3>2. SumFunctionOnSet(PriceOf, Owed) \in Nat
      BY OwedPrices DEF AheadInv
    <3> QED
      BY <1>0, <2>1, <3>1, <3>2 DEF AheadInv
  <2>4. CASE c \notin Owed
    <3>1. Owed' = Owed
      BY <1>0, <2>2, <2>4 DEF Owed, Typed
    <3> QED
      BY <1>0, <1>1, <2>1, <3>1
  <2> QED
    BY <2>3, <2>4
<1> QED
  BY <1>2, <1>3, <1>4, <1>5, <1>6, <1>7 DEF Next, CallStep, sessionVars

(* The row never charges what the channel did not meter, whichever of the two
   updates of a call is lost: the channel is ahead of the row by what the
   metered calls still owe it. *)
THEOREM ChargesAreMetered == Spec => []ChargedIsMetered
PROOF
<1>1. SessionInv /\ AheadInv => ChargedIsMetered
  <2> SUFFICES ASSUME SessionInv, AheadInv PROVE ChargedIsMetered
    OBVIOUS
  <2>1. SumFunctionOnSet(PriceOf, Owed) \in Nat
    BY OwedPrices DEF AheadInv
  <2> QED
    BY <2>1 DEF AheadInv, ChargedIsMetered, SessionInv, Typed
<1> QED
  BY <1>1, SessionInvInit, SessionInvNext, KeyInvInit, KeyInvNext, AheadInit, AheadNext, PTL
     DEF Spec

---------------------------------------------------------------------------
(* A session that is over.                                                 *)

\* A call in flight holds its price, which is not zero.
LEMMA InFlightHolds ==
  ASSUME SessionInv, KeyInv, AccountInv, NEW c \in Calls, pc[c] \in InFlight
  PROVE  reserved # 0
PROOF
<1>1. KeyOf[c] \in Keys /\ PriceOf[c] \in Nat /\ Cheapest <= PriceOf[c] /\ Cheapest \in Nat \ {0}
  BY SessionAssumption
<1>2. Event(c).status = "reserved" /\ Event(c).amount = PriceOf[c]
  BY <1>1 DEF KeyInv, Event
<1>3. event[KeyOf[c]].amount <= reserved
  BY <1>1, <1>2, HeldAmounts DEF Having, Event, SessionInv
<1>4. reserved \in Nat
  BY HeldAmounts DEF SessionInv
<1> QED
  BY <1>1, <1>2, <1>3, <1>4 DEF Event

LEMMA QuietNext ==
  SessionInv /\ KeyInv /\ AccountInv /\ QuietWhenOver /\ [Next]_sessionVars => QuietWhenOver'
PROOF
<1> SUFFICES ASSUME SessionInv, KeyInv, AccountInv, QuietWhenOver, [Next]_sessionVars
             PROVE  QuietWhenOver'
  OBVIOUS
<1>0. pc \in [Calls -> CallStates]
  BY DEF SessionInv, Typed
<1>1. ASSUME UNCHANGED pc, status' \in {"expired", "closed"} => status \in {"expired", "closed"}
      PROVE  QuietWhenOver'
  BY <1>1 DEF QuietWhenOver
<1>2. ASSUME NEW o \in Opens, OpenStep(o) PROVE QuietWhenOver'
  <2>1. UNCHANGED pc /\ (status' \in {"expired", "closed"} => status \in {"expired", "closed"})
    BY <1>2 DEF OpenStep, OpenCheck, OpenChannel, OpenEnds, Activate, ActivateMisses, OpenIsLate,
                MarkFailed, row, calling
  <2> QED
    BY <1>1, <2>1
<1>3. ASSUME Expire \/ Close PROVE QuietWhenOver'
  <2>1. UNCHANGED pc /\ reserved = 0
    BY <1>3 DEF Expire, Close, calling
  <2> QED
    BY <2>1, InFlightHolds DEF QuietWhenOver
<1>4. ASSUME TimePasses \/ Purge \/ UNCHANGED sessionVars PROVE QuietWhenOver'
  <2>1. UNCHANGED pc /\ (status' \in {"expired", "closed"} => status \in {"expired", "closed"})
    BY <1>4 DEF TimePasses, Purge, calling, sessionVars
  <2> QED
    BY <1>1, <2>1
<1>5. ASSUME NEW c \in Calls, CallStep(c) PROVE QuietWhenOver'
  <2>1. /\ status' \in {status, "exhausted"}
        /\ \E s \in CallStates : pc' = [pc EXCEPT ![c] = s]
        /\ pc[c] \in InFlight \cup {"idle"}
    <3> USE DEF row, To, CallStates, InFlight
    <3>1. CASE Reserve(c) \/ Refuse(c) \/ Replay(c) \/ Unpaid(c)
      BY <3>1 DEF Reserve, Refuse, Replay, Unpaid
    <3>2. CASE Verify(c) \/ Fail(c) \/ Accept(c) \/ MeterFails(c)
      BY <3>2 DEF Verify, Fail, Accept, MeterFails
    <3>3. CASE Meter(c) \/ Commit(c) \/ CommitLost(c) \/ Crash(c)
      BY <3>3 DEF Meter, Commit, CommitLost, Crash
    <3> QED
      BY <1>5, <3>1, <3>2, <3>3 DEF CallStep
  <2>2. ASSUME pc[c] = "idle", ~Reserve(c) PROVE pc'[c] \notin InFlight
    BY <1>0, <1>5, <2>2 DEF CallStep, Refuse, Replay, Unpaid, Verify, Fail, Accept, Meter,
                            MeterFails, Commit, CommitLost, Crash, To, InFlight
  <2>3. Reserve(c) => status' = "active"
    BY DEF Reserve
  <2> QED
    BY <1>0, <2>1, <2>2, <2>3 DEF QuietWhenOver
<1> QED
  BY <1>2, <1>3, <1>4, <1>5 DEF Next

(* Expiry and close wait for the amount held to be zero, and every call in
   flight holds its price: once a session is over none is in flight. *)
THEOREM OverIsQuiet == Spec => []QuietWhenOver
PROOF
<1>1. Init => QuietWhenOver
  BY DEF Init, QuietWhenOver
<1> QED
  BY <1>1, SessionInvInit, SessionInvNext, KeyInvInit, KeyInvNext, AccountInit, AccountNext,
     QuietNext, PTL DEF Spec

---------------------------------------------------------------------------
(* Refinement of PrepaidWallet.                                            *)

SessionWallet == SessionInv /\ KeyInv

LEMMA SessionWalletInit == Init => Wallet!WInit
PROOF
  BY DEF Init, Wallet!WInit, WalletFunds, WalletPurchase, WalletPocket, PurchaseView

\* A step that changes the view of one call and leaves the others'.
LEMMA ViewOfOneCall ==
  ASSUME NEW c \in Calls, NEW v,
         PurchaseView(pc'[c], Event(c)', c) = v,
         \A d \in Calls \ {c} :
           PurchaseView(pc'[d], Event(d)', d) = PurchaseView(pc[d], Event(d), d)
  PROVE  /\ WalletPurchase' = [WalletPurchase EXCEPT ![c] = v]
         /\ WalletPocket' = [WalletPocket EXCEPT ![c] = IF v = "none" THEN "none" ELSE "prepaid"]
PROOF
<1>1. \A d \in Calls : WalletPurchase'[d] = IF d = c THEN v ELSE WalletPurchase[d]
  BY DEF WalletPurchase
<1>2. WalletPurchase' = [WalletPurchase EXCEPT ![c] = v]
  BY <1>1 DEF WalletPurchase
<1>3. \A d \in Calls : WalletPocket'[d] =
        IF d = c THEN (IF v = "none" THEN "none" ELSE "prepaid") ELSE WalletPocket[d]
  BY <1>1 DEF WalletPocket
<1> QED
  BY <1>2, <1>3 DEF WalletPocket

\* The view of a call changes only if its place or the event of its key does.
LEMMA ViewIsStable ==
  ASSUME NEW c \in Calls, \A d \in Calls \ {c} : pc'[d] = pc[d],
         UNCHANGED <<event, WalletFunds>>,
         \/ pc[c] \in {"idle", "refused", "replayed"} /\ pc'[c] \in {"idle", "refused", "replayed"}
         \/ pc[c] \notin {"idle", "refused", "replayed"} /\ pc'[c] \notin {"idle", "refused", "replayed"}
  PROVE  UNCHANGED <<WalletFunds, WalletPurchase, WalletPocket>>
PROOF
<1>1. \A d \in Calls : Event(d)' = Event(d)
  BY DEF Event
<1>2. \A d \in Calls : PurchaseView(pc'[d], Event(d)', d) = PurchaseView(pc[d], Event(d), d)
  BY <1>1 DEF PurchaseView
<1>3. WalletPurchase' = WalletPurchase
  BY <1>2 DEF WalletPurchase
<1> QED
  BY <1>3 DEF WalletPocket

\* Giving back the amount of a call in flight returns its purchase.
LEMMA GiveBackReturns ==
  ASSUME SessionWallet, NEW c \in Calls, pc[c] \in InFlight,
         NEW s \in {"failed", "released"}, GiveBack(c, s),
         pc' = [pc EXCEPT ![c] = "failed"] \/ pc' = [pc EXCEPT ![c] = "unpaid"],
         UNCHANGED <<bound, maxBudget, spent>>
  PROVE  [Wallet!WNext]_(Wallet!wvars)
PROOF
<1>0. /\ Typed /\ KeyOf[c] \in Keys /\ bound # NoOpen
      /\ event[KeyOf[c]].status = "reserved" /\ event[KeyOf[c]].by = c
      /\ event[KeyOf[c]].amount = PriceOf[c]
  BY SessionAssumption DEF SessionWallet, SessionInv, StatusInv, KeyInv, Event
<1>1. /\ \A d \in Calls \ {c} : pc'[d] = pc[d]
      /\ pc'[c] \notin {"idle", "refused", "replayed"} /\ pc[c] \notin {"idle", "refused", "replayed"}
  BY <1>0 DEF InFlight, Typed
<1>2. CASE UNCHANGED <<reserved, event>>
  <2>1. WalletFunds' = WalletFunds
    BY <1>2 DEF WalletFunds
  <2> QED
    BY <1>1, <1>2, <2>1, ViewIsStable DEF Wallet!wvars
<1>3. CASE Release(c, s)
  <2>1. /\ reserved' = reserved - PriceOf[c]
        /\ event' = [event EXCEPT ![KeyOf[c]].status = s]
    BY <1>0, <1>3 DEF Release, Event
  <2>2. /\ event'[KeyOf[c]].status = s /\ event'[KeyOf[c]].by = c
        /\ \A k \in Keys : k # KeyOf[c] => event'[k] = event[k]
    BY <1>0, <2>1 DEF Typed, EventRows
  <2>3. PurchaseView(pc'[c], Event(c)', c) = "returned"
    BY <1>1, <2>2 DEF PurchaseView, Event
  <2>4. ASSUME NEW d \in Calls \ {c}
        PROVE  PurchaseView(pc'[d], Event(d)', d) = PurchaseView(pc[d], Event(d), d)
    <3>1. KeyOf[d] \in Keys
      BY SessionAssumption
    <3>2. CASE KeyOf[d] = KeyOf[c]
      BY <1>0, <1>1, <2>2, <3>2 DEF PurchaseView, Event
    <3>3. CASE KeyOf[d] # KeyOf[c]
      BY <1>1, <2>2, <3>1, <3>3 DEF PurchaseView, Event
    <3> QED
      BY <3>2, <3>3
  <2>5. /\ WalletPurchase' = [WalletPurchase EXCEPT ![c] = "returned"]
        /\ WalletPocket' = [WalletPocket EXCEPT ![c] = "prepaid"]
    BY <2>3, <2>4, ViewOfOneCall
  <2>6. WalletPurchase[c] = "held" /\ WalletPocket[c] = "prepaid"
    BY <1>0, <1>1 DEF WalletPurchase, WalletPocket, PurchaseView, Event
  <2>7. WalletPocket' = WalletPocket
    BY <2>5, <2>6 DEF WalletPocket
  <2>8. WalletFunds' = WalletFunds + PriceOf[c]
    BY <1>0, <2>1, SessionAssumption DEF WalletFunds, Typed
  <2> QED
    BY <2>5, <2>6, <2>7, <2>8 DEF Wallet!WNext, Wallet!Return
<1> QED
  BY <1>2, <1>3 DEF GiveBack

\* Reserving holds the price: no other attempt under the key is held or paid.
LEMMA ReserveHolds ==
  ASSUME SessionWallet, NEW c \in Calls, Reserve(c)
  PROVE  Wallet!Hold(c, "prepaid")
PROOF
<1>0. /\ Typed /\ KeyOf[c] \in Keys /\ bound # NoOpen /\ PriceOf[c] \in Nat
      /\ pc[c] = "idle" /\ KeyFree(c) /\ spent + reserved + PriceOf[c] <= maxBudget
  BY SessionAssumption DEF SessionWallet, SessionInv, StatusInv, Reserve, Fits
<1>1. /\ pc' = [pc EXCEPT ![c] = "reserved"] /\ reserved' = reserved + PriceOf[c]
      /\ event' = [event EXCEPT ![KeyOf[c]] =
                     [status |-> "reserved", amount |-> PriceOf[c], body |-> BodyOf[c],
                      by |-> c]]
      /\ UNCHANGED <<bound, maxBudget, spent>>
  BY DEF Reserve, To
<1>2. /\ pc'[c] = "reserved" /\ \A d \in Calls \ {c} : pc'[d] = pc[d]
      /\ event'[KeyOf[c]].status = "reserved" /\ event'[KeyOf[c]].by = c
      /\ \A k \in Keys : k # KeyOf[c] => event'[k] = event[k]
  BY <1>0, <1>1 DEF Typed
<1>3. /\ Event(c).status \in {"none", "failed", "released"}
      /\ Event(c).status = "none" => Event(c).by = NoCall
  BY <1>0 DEF KeyFree, SessionWallet, KeyInv, Event
<1>4. ASSUME NEW d \in Calls, KeyOf[d] = KeyOf[c]
      PROVE  PurchaseView(pc[d], Event(d), d) \in {"none", "returned"}
  BY <1>3, <1>4, SessionAssumption DEF PurchaseView, Event
<1>5. PurchaseView(pc'[c], Event(c)', c) = "held"
  BY <1>2 DEF PurchaseView, Event
<1>6. ASSUME NEW d \in Calls \ {c}
      PROVE  PurchaseView(pc'[d], Event(d)', d) = PurchaseView(pc[d], Event(d), d)
  <2>1. KeyOf[d] \in Keys
    BY SessionAssumption
  <2>2. CASE KeyOf[d] = KeyOf[c]
    <3>1. Event(d)' = event'[KeyOf[c]] /\ Event(d) = Event(c)
      BY <2>2 DEF Event
    <3> QED
      BY <1>2, <1>3, <3>1, SessionAssumption DEF PurchaseView
  <2>3. CASE KeyOf[d] # KeyOf[c]
    BY <1>2, <2>1, <2>3 DEF PurchaseView, Event
  <2> QED
    BY <2>2, <2>3
<1>7. /\ WalletPurchase' = [WalletPurchase EXCEPT ![c] = "held"]
      /\ WalletPocket' = [WalletPocket EXCEPT ![c] = "prepaid"]
  BY <1>5, <1>6, ViewOfOneCall
<1>8. WalletPurchase[c] = "none"
  BY <1>0 DEF WalletPurchase, PurchaseView
<1>9. \A q \in Wallet!Rivals(c) : WalletPurchase[q] \notin {"held", "paid"}
  BY <1>4 DEF Wallet!Rivals, WalletPurchase
<1>10. WalletFunds >= PriceOf[c] /\ WalletFunds' = WalletFunds - PriceOf[c]
  BY <1>0, <1>1 DEF WalletFunds, Typed
<1> QED
  BY <1>7, <1>8, <1>9, <1>10 DEF Wallet!Hold

\* Committing keeps what was held for good.
LEMMA CommitPays ==
  ASSUME SessionWallet, NEW c \in Calls, Commit(c)
  PROVE  Wallet!Pay(c)
PROOF
<1>0. /\ Typed /\ KeyOf[c] \in Keys
      /\ event[KeyOf[c]].status = "reserved" /\ event[KeyOf[c]].by = c /\ pc[c] = "metered"
      /\ event[KeyOf[c]].amount \in Nat
  BY SessionAssumption
     DEF SessionWallet, SessionInv, Typed, EventRows, KeyInv, Event, Commit, InFlight
<1>1. /\ pc' = [pc EXCEPT ![c] = "delivered"]
      /\ event' = [event EXCEPT ![KeyOf[c]].status = "charged"]
      /\ reserved' = reserved - event[KeyOf[c]].amount
      /\ spent' = spent + event[KeyOf[c]].amount
      /\ UNCHANGED <<bound, maxBudget>>
  BY DEF Commit, To, Event
<1>2. /\ pc'[c] = "delivered" /\ \A d \in Calls \ {c} : pc'[d] = pc[d]
      /\ event'[KeyOf[c]].status = "charged" /\ event'[KeyOf[c]].by = c
      /\ \A k \in Keys : k # KeyOf[c] => event'[k] = event[k]
  BY <1>0, <1>1, ChargedRow DEF Typed
<1>3. PurchaseView(pc'[c], Event(c)', c) = "paid"
  BY <1>2 DEF PurchaseView, Event
<1>4. ASSUME NEW d \in Calls \ {c}
      PROVE  PurchaseView(pc'[d], Event(d)', d) = PurchaseView(pc[d], Event(d), d)
  <2>1. KeyOf[d] \in Keys
    BY SessionAssumption
  <2>2. CASE KeyOf[d] = KeyOf[c]
    BY <1>0, <1>2, <2>2 DEF PurchaseView, Event
  <2>3. CASE KeyOf[d] # KeyOf[c]
    BY <1>2, <2>1, <2>3 DEF PurchaseView, Event
  <2> QED
    BY <2>2, <2>3
<1>5. /\ WalletPurchase' = [WalletPurchase EXCEPT ![c] = "paid"]
      /\ WalletPocket' = [WalletPocket EXCEPT ![c] = "prepaid"]
  BY <1>3, <1>4, ViewOfOneCall
<1>6. WalletPurchase[c] = "held" /\ WalletPocket[c] = "prepaid"
  BY <1>0 DEF WalletPurchase, WalletPocket, PurchaseView, Event
<1>7. WalletPocket' = WalletPocket
  BY <1>5, <1>6 DEF WalletPocket
<1>8. WalletFunds' = WalletFunds
  BY <1>0, <1>1 DEF WalletFunds, Typed
<1> QED
  BY <1>5, <1>6, <1>7, <1>8 DEF Wallet!Pay

LEMMA SessionWalletStep == SessionWallet /\ [Next]_sessionVars => [Wallet!WNext]_(Wallet!wvars)
PROOF
<1> SUFFICES ASSUME SessionWallet, [Next]_sessionVars PROVE [Wallet!WNext]_(Wallet!wvars)
  OBVIOUS
<1>0. Typed /\ KeyOf \in [Calls -> Keys]
  BY SessionAssumption DEF SessionWallet, SessionInv
<1>1. ASSUME UNCHANGED <<pc, event, WalletFunds>> PROVE [Wallet!WNext]_(Wallet!wvars)
  <2>1. WalletPurchase' = WalletPurchase
    BY <1>1 DEF WalletPurchase, Event
  <2> QED
    BY <1>1, <2>1 DEF WalletPocket, Wallet!wvars
<1>2. ASSUME NEW o \in Opens, Activate(o) PROVE [Wallet!WNext]_(Wallet!wvars)
  <2>1. /\ pc' = pc /\ event' = event /\ spent = 0 /\ reserved = 0
        /\ bound' = o /\ spent' = spent /\ reserved' = reserved
    BY <1>2 DEF SessionWallet, SessionInv, StatusInv, Activate, calling
  <2>2. maxBudget' \in Nat
    BY <1>0, <1>2, SessionAssumption DEF Activate, Typed
  <2>3. WalletFunds' \in Nat
    <3>1. spent' = 0 /\ reserved' = 0 /\ bound' # NoOpen
      BY <2>1, SessionAssumption
    <3>2. WalletFunds' = maxBudget' - spent' - reserved'
      BY <3>1 DEF WalletFunds
    <3>3. ASSUME NEW m \in Nat PROVE m - 0 - 0 = m
      OBVIOUS
    <3>4. maxBudget' - spent' - reserved' = maxBudget'
      BY <2>2, <3>1, <3>3
    <3> QED
      BY <2>2, <3>2, <3>4
  <2>4. WalletPurchase' = WalletPurchase
    BY <2>1 DEF WalletPurchase, Event
  <2> QED
    BY <2>3, <2>4 DEF WalletPocket, Wallet!WNext, Wallet!Deposit
<1>3. ASSUME NEW o \in Opens, OpenStep(o) PROVE [Wallet!WNext]_(Wallet!wvars)
  <2>1. CASE Activate(o)
    BY <1>2, <2>1
  <2>2. CASE ~Activate(o)
    <3>1. UNCHANGED <<pc, event, bound, maxBudget, spent, reserved>>
      BY <1>3, <2>2 DEF OpenStep, OpenCheck, OpenChannel, OpenEnds, ActivateMisses, OpenIsLate,
                        MarkFailed, row, calling
    <3> QED
      BY <1>1, <3>1 DEF WalletFunds
  <2> QED
    BY <2>1, <2>2
<1>4. ASSUME TimePasses \/ Expire \/ Close \/ Purge \/ UNCHANGED sessionVars
      PROVE  [Wallet!WNext]_(Wallet!wvars)
  <2>1. UNCHANGED <<pc, event, bound, maxBudget, spent, reserved>>
    BY <1>4 DEF TimePasses, Expire, Close, Purge, calling, money, sessionVars
  <2> QED
    BY <1>1, <2>1 DEF WalletFunds
<1>5. ASSUME NEW c \in Calls,
             \/ Refuse(c) \/ Replay(c) \/ Verify(c) \/ Accept(c) \/ Meter(c)
             \/ CommitLost(c) \/ Crash(c)
      PROVE  [Wallet!WNext]_(Wallet!wvars)
  <2>1. UNCHANGED <<event, bound, maxBudget, spent, reserved>>
    BY <1>5 DEF Refuse, Replay, Verify, Accept, Meter, CommitLost, Crash, row
  <2>2. /\ \A d \in Calls \ {c} : pc'[d] = pc[d]
        /\ \/ pc[c] \in {"idle", "refused", "replayed"} /\ pc'[c] \in {"idle", "refused", "replayed"}
           \/ pc[c] \notin {"idle", "refused", "replayed"} /\ pc'[c] \notin {"idle", "refused", "replayed"}
    <3> USE <1>0 DEF Typed, InFlight, To
    <3>1. CASE Refuse(c) \/ Replay(c)
      BY <3>1 DEF Refuse, Replay
    <3>2. CASE Verify(c) \/ Accept(c) \/ Meter(c)
      BY <3>2 DEF Verify, Accept, Meter
    <3>3. CASE CommitLost(c) \/ Crash(c)
      BY <3>3 DEF CommitLost, Crash
    <3> QED
      BY <1>5, <3>1, <3>2, <3>3
  <2>3. WalletFunds' = WalletFunds
    BY <2>1 DEF WalletFunds
  <2> QED
    BY <2>1, <2>2, <2>3, ViewIsStable DEF Wallet!wvars
<1>6. ASSUME NEW c \in Calls, Unpaid(c) \/ Fail(c) \/ MeterFails(c)
      PROVE  [Wallet!WNext]_(Wallet!wvars)
  BY <1>6, GiveBackReturns DEF Unpaid, Fail, MeterFails, InFlight, To
<1>7. ASSUME NEW c \in Calls, Reserve(c) PROVE [Wallet!WNext]_(Wallet!wvars)
  BY <1>7, ReserveHolds DEF Wallet!WNext
<1>8. ASSUME NEW c \in Calls, Commit(c) PROVE [Wallet!WNext]_(Wallet!wvars)
  BY <1>8, CommitPays DEF Wallet!WNext
<1> QED
  BY <1>3, <1>4, <1>5, <1>6, <1>7, <1>8 DEF Next, CallStep

(* Every behaviour of a session, seen through what is left of its budget, is
   a behaviour of PrepaidWallet, whatever updates are lost: a call's price is
   held once, and then paid for good or returned once, and no key is ever
   held or paid twice at the same time. *)
THEOREM SessionRefinement == Spec => ImplementsWallet
PROOF
<1>1. SessionInv /\ KeyInv <=> SessionWallet
  BY DEF SessionWallet
<1> QED
  BY <1>1, SessionInvInit, SessionInvNext, KeyInvInit, KeyInvNext, SessionWalletInit,
     SessionWalletStep, PTL DEF Spec, ImplementsWallet, Wallet!WSpec
=============================================================================

------------------------- MODULE MppSettlementProofs -------------------------
(***************************************************************************)
(* Proofs about MppSettlement for every set of sessions' calls and         *)
(* budgets and of settlement attempts.                                     *)
(*                                                                         *)
(*   NeverOvercaptured    the chain never pays out more than was metered   *)
(*   SettledWasCaptured   a settled session's spend has been paid out      *)
(*   RowFollowsTheChain   the row is never ahead of the chain              *)
(*   BooksFollowTheChain  nor is the revenue ledger, if no attempt         *)
(*                        outlasts its lease                               *)
(* Once a session is over none of its calls is in flight (OverIsQuiet), so *)
(* its spend, the metered amount and the accepted voucher stand still, and *)
(* a capture pays out the metered amount or nothing.  That is all the      *)
(* first three need, however many attempts overlap.  The last needs the    *)
(* claim: who holds it is alone until the spend is captured or known to    *)
(* be zero, so the one attempt that captures it has read the channel       *)
(* while nothing was captured or booked.                                   *)
(***************************************************************************)
EXTENDS MppSettlement, MppSessionProofs

Settlements == Unsettled \cup {"pending", "settled", "nothing_to_settle"}

SettleTyped ==
  /\ settlement \in Settlements /\ settled \in Nat /\ leased \in BOOLEAN
  /\ apc \in [Attempts -> Claiming \cup {"idle", "seen", "ended"}]
  /\ seen \in [Attempts -> [settlement : Settlements, settled : Nat]]
  /\ base \in [Attempts -> Nat] /\ result \in [Attempts -> Nat]
  /\ captured \in Nat /\ final \in BOOLEAN
  /\ known \in [settled : Nat, final : BOOLEAN] /\ booked \in Nat

\* Nothing is settled of a session that is not over.
BeforeInv ==
  ~Over => /\ settlement = "not_started" /\ settled = 0
           /\ captured = 0 /\ known.settled = 0 /\ booked = 0
           /\ \A a \in Attempts : apc[a] = "idle" /\ seen[a].settlement = "not_started"

\* The chain pays out the metered spend or nothing, and the two records of
\* it, what an attempt has read of them and the outcomes follow the chain.
ChainInv ==
  /\ captured \in {0, drawn} /\ known.settled \in {0, captured} /\ settled <= captured
  /\ settlement = "settled" => spent <= captured
  /\ \A a \in Attempts :
       /\ seen[a].settlement = "settled" => spent <= captured
       /\ seen[a].settled <= captured
       /\ apc[a] = "settling" /\ a \notin Payers => accepted = drawn
       /\ apc[a] = "onchain" => spent <= result[a] /\ result[a] <= captured
       /\ apc[a] = "captured" => result[a] = drawn /\ known.settled = drawn

SettleInv == SettleTyped /\ BeforeInv /\ ChainInv

\* Nothing is left to capture that the row would be charged for.
Done == spent = 0 \/ captured = drawn

\* An attempt that holds the claim is alone until Done.
ClaimInv ==
  /\ \A a \in Attempts : apc[a] \in Claiming =>
       leased /\ (a \in Payers \/ spent # 0) /\ (settlement = "pending" \/ Done)
  /\ \A a, b \in Attempts : apc[a] \in Claiming /\ apc[b] \in Claiming => a = b \/ Done

CanCapture(a) == apc[a] = "settling" /\ IF a \in Payers THEN ~final ELSE captured < accepted

\* The attempt that captures the spend, if any, is the one that books it.
Unbooked == {a \in Attempts : apc[a] = "captured" /\ base[a] < result[a]}
BookInv ==
  /\ \A a \in Attempts : CanCapture(a) => base[a] = known.settled
  /\ booked <= known.settled
  /\ Unbooked # {} => booked = 0
  /\ \A a, b \in Unbooked : a = b

---------------------------------------------------------------------------
(* The session under its settlement.                                       *)

SessionAll == SessionInv /\ KeyInv /\ AccountInv /\ AheadInv /\ QuietWhenOver

LEMMA SessionAllInit == Init => SessionAll
PROOF
<1>1. Init => QuietWhenOver
  BY DEF Init, QuietWhenOver
<1> QED
  BY <1>1, SessionInvInit, KeyInvInit, AccountInit, AheadInit DEF SessionAll

LEMMA SessionAllNext == SessionAll /\ [Next]_sessionVars => SessionAll'
PROOF
<1> QED
  BY SessionInvNext, KeyInvNext, AccountNext, AheadNext, QuietNext DEF SessionAll

\* Every step of the composition is one of the session, or leaves it alone.
LEMMA SettleStepsSession == [SettleNext]_allVars => [Next]_sessionVars
PROOF
<1>1. SessionStep => Next
  BY DEF SessionStep, Next
<1>2. ASSUME LeaseExpires PROVE UNCHANGED sessionVars
  BY <1>2 DEF LeaseExpires
<1>3. ASSUME NEW a \in Attempts, AttemptStep(a) PROVE Close \/ UNCHANGED sessionVars
  BY <1>3 DEF AttemptStep, CloseRequest, Select, Respond, ConcludeFromRow, Claim, ReadChain,
              ReadChannel, Captured, CapturedUnseen, Refused, GiveUp, Conclude, BookOnly
<1> QED
  BY <1>1, <1>2, <1>3 DEF SettleNext, Next, allVars

LEMMA SessionAmounts ==
  ASSUME SessionAll
  PROVE  /\ spent \in Nat /\ drawn \in Nat /\ accepted \in Nat
         /\ spent <= drawn /\ drawn <= accepted
         /\ status = "closed" => bound # NoOpen
PROOF
<1>1. SumFunctionOnSet(PriceOf, Owed) \in Nat
  BY OwedPrices DEF SessionAll, AheadInv
<1> QED
  BY <1>1 DEF SessionAll, SessionInv, Typed, StatusInv, SignedAndLocked, AheadInv

\* A session that is over stays over, and its amounts stand still.
LEMMA OverIsFrozen ==
  ASSUME SessionAll, Over, [Next]_sessionVars
  PROVE  Over' /\ UNCHANGED <<spent, drawn, accepted>>
PROOF
<1>0. /\ bound # NoOpen /\ status \in {"closed", "expired"}
      /\ \A c \in Calls : pc[c] \notin InFlight
  BY DEF Over, SessionAll, QuietWhenOver
<1>1. ASSUME NEW o \in Opens, OpenStep(o)
      PROVE  Over' /\ UNCHANGED <<spent, drawn, accepted>>
  BY <1>0, <1>1 DEF OpenStep, OpenCheck, OpenChannel, OpenEnds, Activate, ActivateMisses,
                    OpenIsLate, MarkFailed, row, channel, Over
<1>2. ASSUME TimePasses \/ Expire \/ Close \/ Purge \/ UNCHANGED sessionVars
      PROVE  Over' /\ UNCHANGED <<spent, drawn, accepted>>
  BY <1>0, <1>2 DEF TimePasses, Expire, Close, Purge, money, channel, sessionVars, Over
<1>3. ASSUME NEW c \in Calls, CallStep(c)
      PROVE  Over' /\ UNCHANGED <<spent, drawn, accepted>>
  <2>1. Refuse(c) \/ Replay(c)
    BY <1>0, <1>3 DEF CallStep, Reserve, Unpaid, Verify, Fail, Accept, Meter, MeterFails,
                      Commit, CommitLost, Crash, InFlight
  <2> QED
    BY <1>0, <2>1 DEF Refuse, Replay, row, channel, Over
<1> QED
  BY <1>1, <1>2, <1>3 DEF Next

---------------------------------------------------------------------------
(* What is captured and settled, however attempts overlap.                 *)

LEMMA SettleInvInit == SettleInit => SettleInv
PROOF
<1> SUFFICES ASSUME SettleInit PROVE SettleInv
  OBVIOUS
<1>1. SettleTyped
  BY DEF SettleInit, SettleTyped, Settlements, Unsettled
<1>2. ChainInv
  BY DEF SettleInit, ChainInv
<1>3. BeforeInv
  BY DEF SettleInit, BeforeInv
<1> QED
  BY <1>1, <1>2, <1>3 DEF SettleInv

\* The session moves on and its settlement does not.
LEMMA SessionKeepsSettle ==
  ASSUME SessionAll, SettleInv, [Next]_sessionVars, UNCHANGED settleVars
  PROVE  SettleInv'
PROOF
<1>0. SessionAll'
  BY SessionAllNext
<1>1. SettleTyped'
  BY DEF SettleInv, SettleTyped, settleVars
<1>2. CASE Over
  <2>1. Over' /\ UNCHANGED <<spent, drawn, accepted>>
    BY <1>2, OverIsFrozen
  <2> QED
    BY <1>1, <1>2, <2>1 DEF SettleInv, BeforeInv, ChainInv, settleVars
<1>3. CASE ~Over
  BY <1>0, <1>1, <1>3, SessionAmounts DEF SettleInv, BeforeInv, ChainInv, SettleTyped, settleVars
<1> QED
  BY <1>2, <1>3

\* What a capture pays out.
LEMMA CaptureAll ==
  ASSUME SessionAll, SettleInv, NEW a \in Attempts, Capture(a)
  PROVE  captured' = drawn /\ captured <= drawn /\ final' \in BOOLEAN
PROOF
<1>1. drawn \in Nat /\ captured \in {0, drawn} /\ final \in BOOLEAN
  BY SessionAmounts DEF SettleInv, SettleTyped, ChainInv
<1>2. a \notin Payers => accepted = drawn
  BY DEF Capture, SettleInv, ChainInv
<1>3. CASE a \in Payers
  BY <1>1, <1>3 DEF Capture
<1>4. CASE a \notin Payers
  BY <1>1, <1>2, <1>4 DEF Capture
<1> QED
  BY <1>3, <1>4

LEMMA AttemptKeepsSettle ==
  ASSUME SessionAll, SettleInv, NEW a \in Attempts, AttemptStep(a)
  PROVE  SettleInv'
PROOF
<1>0. /\ spent \in Nat /\ drawn \in Nat /\ accepted \in Nat
      /\ spent <= drawn /\ drawn <= accepted
      /\ status = "closed" => bound # NoOpen
  BY SessionAmounts
<1> USE <1>0 DEF SettleInv, SettleTyped, BeforeInv, ChainInv, AttemptTo, Rest, attempt, chain,
        Settlements, Unsettled, Claiming
<1>1. CASE CloseRequest(a)
  <2>1. Over' /\ UNCHANGED <<spent, drawn, accepted>>
    BY <1>1 DEF CloseRequest, Close, money, channel, sessionVars, Over
  <2> QED
    BY <1>1, <2>1 DEF CloseRequest, SeeRow
<1>2. ASSUME UNCHANGED sessionVars
      PROVE  Over' = Over /\ UNCHANGED <<spent, drawn, accepted, status, bound>>
  BY <1>2 DEF sessionVars, Over
<1>3. CASE Select(a)
  BY <1>2, <1>3 DEF Select, SeeRow
<1>4. CASE Respond(a)
  BY <1>2, <1>4 DEF Respond
<1>5. CASE ConcludeFromRow(a)
  <2>1. /\ UNCHANGED <<leased, seen, base, result, captured, final, known, booked>>
        /\ apc' = [apc EXCEPT ![a] = IF a \in Sweeps THEN "idle" ELSE "ended"] /\ apc[a] = "seen"
    BY <1>5 DEF ConcludeFromRow
  <2>2. settled' = settled /\ settlement' \in {settlement, "nothing_to_settle", "settled"}
    BY <1>5 DEF ConcludeFromRow, Finish
  <2>3. settlement' = "settled" => spent <= captured
    BY <1>5 DEF ConcludeFromRow, Finish, FromRow
  <2> QED
    BY <1>2, <1>5, <2>1, <2>2, <2>3 DEF ConcludeFromRow
<1>6. CASE Claim(a)
  BY <1>2, <1>6 DEF Claim
<1>7. CASE ReadChain(a)
  BY <1>2, <1>7 DEF ReadChain
<1>8. CASE ReadChannel(a)
  BY <1>2, <1>8 DEF ReadChannel, Settleable
<1>9. CASE Captured(a)
  <2>1. captured' = drawn /\ captured <= drawn /\ final' \in BOOLEAN /\ apc[a] = "settling"
    BY <1>9, CaptureAll DEF Captured, Capture
  <2>2. /\ UNCHANGED <<settlement, leased, seen, base, booked, spent, drawn, accepted>>
        /\ settled' \in {settled, drawn} /\ Over' = Over
        /\ known' = [settled |-> drawn, final |-> final']
        /\ result' = [result EXCEPT ![a] = drawn]
        /\ apc' = [apc EXCEPT ![a] = "captured"]
    BY <1>2, <1>9, <2>1 DEF Captured
  <2>3. SettleTyped' /\ BeforeInv'
    BY <2>1, <2>2
  <2>4. ChainInv'
    BY <2>1, <2>2
  <2> QED
    BY <2>3, <2>4
<1>10. CASE CapturedUnseen(a)
  <2>1. captured' = drawn /\ captured <= drawn /\ final' \in BOOLEAN /\ apc[a] = "settling"
    BY <1>10, CaptureAll DEF CapturedUnseen, Capture
  <2> QED
    BY <1>2, <1>10, <2>1 DEF CapturedUnseen
<1>11. CASE Refused(a)
  BY <1>2, <1>11 DEF Refused
<1>12. CASE GiveUp(a)
  BY <1>2, <1>12 DEF GiveUp
<1>13. CASE Conclude(a)
  <2>1. /\ UNCHANGED <<leased, seen, base, result, captured, final, known, spent, drawn, accepted>>
        /\ Over' = Over
        /\ apc' = [apc EXCEPT ![a] = IF a \in Sweeps THEN "idle" ELSE "ended"]
        /\ apc[a] \in {"onchain", "captured", "none", "failed", "rejected"}
    BY <1>2, <1>13 DEF Conclude
  <2>2. /\ settlement' = Outcome(a) /\ settlement' \in Settlements
        /\ settlement' = "settled" => spent <= captured
    BY <1>13, <2>1 DEF Conclude, Finish, Outcome
  <2>3. settled' \in Nat /\ settled' <= captured
    BY <1>13, <2>1 DEF Conclude, Finish
  <2>4. booked' \in Nat
    BY <1>13 DEF Conclude, Book
  <2> QED
    BY <2>1, <2>2, <2>3, <2>4
<1>14. CASE BookOnly(a)
  <2>1. booked' \in Nat
    BY <1>14 DEF BookOnly, Book
  <2> QED
    BY <1>2, <1>14, <2>1 DEF BookOnly
<1> QED
  BY <1>1, <1>3, <1>4, <1>5, <1>6, <1>7, <1>8, <1>9, <1>10, <1>11, <1>12, <1>13, <1>14
     DEF AttemptStep

LEMMA SettleInvNext == SessionAll /\ SettleInv /\ [SettleNext]_allVars => SettleInv'
PROOF
<1> SUFFICES ASSUME SessionAll, SettleInv, [SettleNext]_allVars PROVE SettleInv'
  OBVIOUS
<1>1. CASE UNCHANGED settleVars
  BY <1>1, SettleStepsSession, SessionKeepsSettle
<1>2. CASE LeaseExpires
  <2>1. /\ UNCHANGED sessionVars /\ leased' = FALSE
        /\ UNCHANGED <<settlement, settled, apc, seen, base, result, captured, final, known, booked>>
    BY <1>2 DEF LeaseExpires, attempt, chain
  <2>2. Over' = Over /\ UNCHANGED <<spent, drawn, accepted>>
    BY <2>1 DEF sessionVars, Over
  <2> QED
    BY <2>1, <2>2 DEF SettleInv, SettleTyped, BeforeInv, ChainInv
<1> QED
  BY <1>1, <1>2, AttemptKeepsSettle DEF SettleNext, SessionStep, allVars

LEMMA SettleInitSession == SettleInit => SessionAll
PROOF
<1> QED
  BY SessionAllInit DEF SettleInit

LEMMA SettleNextSession == SessionAll /\ [SettleNext]_allVars => SessionAll'
PROOF
<1> QED
  BY SettleStepsSession, SessionAllNext

(* docs/mpp.md: exactly the metered spend is captured.  However many payers,
   requests and maintenance runs race to settle a session, with whatever
   leases outlasted and answers lost, the chain never pays out more. *)
THEOREM NeverOvercaptured == SettleSpec => []NeverOverCaptured
PROOF
<1>1. SessionAll /\ SettleInv => NeverOverCaptured
  BY SessionAmounts DEF SettleInv, ChainInv, NeverOverCaptured
<1> QED
  BY <1>1, SettleInitSession, SettleNextSession, SettleInvInit, SettleInvNext, PTL DEF SettleSpec

(* README.md: a session is settled only when the chain has paid out at least
   what it spent, though outcomes are written late, twice, or from an
   earlier reading of the row. *)
THEOREM SettledWasCaptured == SettleSpec => []SettledIsCaptured
PROOF
<1>1. SessionAll /\ SettleInv => SettledIsCaptured
  BY SessionAmounts DEF SettleInv, SettleTyped, ChainInv, SettledIsCaptured
<1> QED
  BY <1>1, SettleInitSession, SettleNextSession, SettleInvInit, SettleInvNext, PTL DEF SettleSpec

RowWithinCaptured == settled <= captured /\ known.settled <= captured

(* Neither the row's settled amount nor the SDK's record is ever ahead of the
   chain, though both are written after it and by several attempts: the part
   of BooksWithinCaptured that needs no lease. *)
THEOREM RowFollowsTheChain == SettleSpec => []RowWithinCaptured
PROOF
<1>1. SettleInv => RowWithinCaptured
  BY DEF SettleInv, SettleTyped, ChainInv, RowWithinCaptured
<1> QED
  BY <1>1, SettleInitSession, SettleNextSession, SettleInvInit, SettleInvNext, PTL DEF SettleSpec

---------------------------------------------------------------------------
(* The books, when no attempt outlasts its lease.                          *)

BooksInv == ClaimInv /\ BookInv

LEMMA BooksInvInit == SettleInit => BooksInv
PROOF
<1> SUFFICES ASSUME SettleInit PROVE BooksInv
  OBVIOUS
<1>1. ClaimInv
  BY DEF SettleInit, ClaimInv, Claiming
<1>2. BookInv
  BY DEF SettleInit, BookInv, CanCapture, Unbooked
<1> QED
  BY <1>1, <1>2 DEF BooksInv

\* The session moves on and its settlement does not.
LEMMA SessionKeepsBooks ==
  ASSUME SessionAll, SettleInv, BooksInv, [Next]_sessionVars, UNCHANGED settleVars
  PROVE  BooksInv'
PROOF
<1>1. CASE Over
  <2>1. UNCHANGED <<spent, drawn, accepted>>
    BY <1>1, OverIsFrozen
  <2>2. ClaimInv'
    BY <2>1 DEF BooksInv, ClaimInv, Done, settleVars
  <2>3. BookInv'
    BY <2>1 DEF BooksInv, BookInv, CanCapture, Unbooked, settleVars
  <2> QED
    BY <2>2, <2>3 DEF BooksInv
<1>2. CASE ~Over
  <2>1. \A a \in Attempts : apc'[a] = "idle"
    BY <1>2 DEF SettleInv, BeforeInv, settleVars
  <2>2. booked' <= known'.settled
    BY DEF BooksInv, BookInv, settleVars
  <2>3. ClaimInv'
    BY <2>1 DEF ClaimInv, Claiming
  <2>4. BookInv'
    BY <2>1, <2>2 DEF BookInv, CanCapture, Unbooked
  <2> QED
    BY <2>3, <2>4 DEF BooksInv
<1> QED
  BY <1>1, <1>2

\* The claim: an attempt enters it when nobody holds it or nothing is left.
LEMMA AttemptKeepsClaim ==
  ASSUME SessionAll, SettleInv, BooksInv, NEW a \in Attempts, AttemptStep(a)
  PROVE  ClaimInv'
PROOF
<1>0. /\ spent \in Nat /\ drawn \in Nat /\ accepted \in Nat
      /\ spent <= drawn /\ drawn <= accepted
  BY SessionAmounts
<1>1. UNCHANGED <<spent, drawn>>
  BY DEF AttemptStep, CloseRequest, Close, Select, Respond, ConcludeFromRow, Claim, ReadChain,
         ReadChannel, Captured, CapturedUnseen, Refused, GiveUp, Conclude, BookOnly,
         money, channel, sessionVars
<1>2. Done => Done'
  <2>1. Captured(a) \/ CapturedUnseen(a) => captured' = drawn
    BY CaptureAll DEF Captured, CapturedUnseen
  <2>2. ~(Captured(a) \/ CapturedUnseen(a)) => captured' = captured
    BY DEF AttemptStep, CloseRequest, Select, Respond, ConcludeFromRow, Claim, ReadChain,
           ReadChannel, Refused, GiveUp, Conclude, BookOnly, chain
  <2> QED
    BY <1>1, <2>1, <2>2 DEF Done
<1> USE DEF BooksInv, ClaimInv
<1>3. ASSUME UNCHANGED <<settlement, leased>>, apc'[a] \in Claiming => apc[a] \in Claiming,
             \A b \in Attempts \ {a} : apc'[b] = apc[b]
      PROVE  ClaimInv'
  BY <1>1, <1>2, <1>3
<1>4. apc \in [Attempts -> Claiming \cup {"idle", "seen", "ended"}]
  BY DEF SettleInv, SettleTyped
<1>5. CASE CloseRequest(a) \/ Select(a) \/ Respond(a)
  BY <1>3, <1>4, <1>5 DEF CloseRequest, Select, Respond, AttemptTo, Rest, Claiming
<1>6. CASE ReadChain(a) \/ ReadChannel(a) \/ Captured(a) \/ CapturedUnseen(a) \/ Refused(a)
           \/ GiveUp(a) \/ BookOnly(a)
  <2>1. UNCHANGED <<settlement, leased>> /\ apc[a] \in Claiming
    BY <1>6 DEF ReadChain, ReadChannel, Captured, CapturedUnseen, Capture, Refused, GiveUp,
                BookOnly, Claiming
  <2>2. \A b \in Attempts \ {a} : apc'[b] = apc[b]
    BY <1>4, <1>6 DEF ReadChain, ReadChannel, Captured, CapturedUnseen, Refused, GiveUp,
                      BookOnly, AttemptTo
  <2> QED
    BY <1>3, <2>1, <2>2
<1>7. CASE ConcludeFromRow(a)
  <2>1. Done
    <3>1. CASE spent = 0
      BY <3>1 DEF Done
    <3>2. CASE spent # 0
      <4>1. spent <= seen[a].settled
        BY <1>7, <3>2 DEF ConcludeFromRow, FromRow
      <4>2. seen[a].settled <= captured /\ captured \in {0, drawn} /\ seen[a].settled \in Nat
        BY DEF SettleInv, SettleTyped, ChainInv
      <4> QED
        BY <1>0, <3>2, <4>1, <4>2 DEF Done
    <3> QED
      BY <3>1, <3>2
  <2>2. /\ leased' = leased /\ apc'[a] \notin Claiming
        /\ \A b \in Attempts \ {a} : apc'[b] = apc[b]
    BY <1>4, <1>7 DEF ConcludeFromRow, AttemptTo, Rest, Claiming
  <2> QED
    BY <1>1, <1>2, <2>1, <2>2
<1>8. CASE Claim(a)
  <2>1. CASE Over /\ ~(settlement = "pending" /\ leased) /\ (a \in Payers \/ settlement # "settled")
    <3>1. /\ settlement' = "pending" /\ leased' = TRUE
          /\ apc' = [apc EXCEPT ![a] = "claimed"] /\ apc[a] = "seen" /\ ~FromRow(a)
      BY <1>8, <2>1 DEF Claim, AttemptTo
    <3>2. a \in Payers \/ spent # 0
      <4>1. seen[a].settled \in Nat
        BY DEF SettleInv, SettleTyped
      <4> QED
        BY <1>0, <3>1, <4>1 DEF FromRow, Attempts, Closers
    <3>3. (\E b \in Attempts : apc[b] \in Claiming) => Done
      BY <2>1
    <3>4. \A b \in Attempts \ {a} : apc'[b] = apc[b]
      BY <1>4, <3>1
    <3> QED
      BY <1>1, <1>2, <3>1, <3>2, <3>3, <3>4
  <2>2. CASE ~(Over /\ ~(settlement = "pending" /\ leased) /\ (a \in Payers \/ settlement # "settled"))
    BY <1>3, <1>4, <1>8, <2>2 DEF Claim, AttemptTo, Rest, Claiming
  <2> QED
    BY <2>1, <2>2
<1>9. CASE Conclude(a)
  <2>1. /\ leased' = leased /\ apc[a] \in Claiming /\ apc'[a] \notin Claiming
        /\ \A b \in Attempts \ {a} : apc'[b] = apc[b]
    BY <1>4, <1>9 DEF Conclude, AttemptTo, Rest, Claiming
  <2> QED
    BY <1>1, <1>2, <2>1
<1> QED
  BY <1>5, <1>6, <1>7, <1>8, <1>9 DEF AttemptStep

\* An attempt that can still capture is alone, or the spend is known to be
\* zero and only the payer's close, which is final, captures.
LEMMA CaptureIsExclusive ==
  ASSUME SessionAll, SettleInv, BooksInv, NEW a \in Attempts, NEW b \in Attempts, a # b,
         CanCapture(a), CanCapture(b)
  PROVE  a \in Payers /\ b \in Payers
PROOF
<1>1. Done /\ (a \in Payers \/ spent # 0) /\ (b \in Payers \/ spent # 0)
  BY DEF CanCapture, BooksInv, ClaimInv, Claiming
<1>2. /\ a \notin Payers => accepted = drawn /\ captured < accepted
      /\ b \notin Payers => accepted = drawn /\ captured < accepted
  BY DEF CanCapture, SettleInv, ChainInv
<1>3. drawn \in Nat
  BY SessionAmounts
<1> QED
  BY <1>1, <1>2, <1>3 DEF Done

\* A step that records nothing new on the channel and books nothing.
LEMMA BookFrame ==
  ASSUME BookInv, NEW a \in Attempts,
         \A b \in Attempts \ {a} : /\ CanCapture(b)' => CanCapture(b)
                                  /\ apc'[b] = apc[b] /\ base'[b] = base[b] /\ result'[b] = result[b],
         ~CanCapture(a)', apc'[a] # "captured",
         UNCHANGED <<known, booked>>
  PROVE  BookInv'
PROOF
<1>1. Unbooked' \subseteq Unbooked
  BY DEF Unbooked
<1> QED
  BY <1>1 DEF BookInv

LEMMA AttemptKeepsBooks ==
  ASSUME SessionAll, SettleInv, BooksInv, NEW a \in Attempts, AttemptStep(a)
  PROVE  BookInv'
PROOF
<1>0. /\ spent \in Nat /\ drawn \in Nat /\ accepted \in Nat
      /\ SettleTyped /\ BookInv
  BY SessionAmounts DEF SettleInv, BooksInv
<1>1. UNCHANGED <<spent, drawn, accepted>>
  BY DEF AttemptStep, CloseRequest, Close, Select, Respond, ConcludeFromRow, Claim, ReadChain,
         ReadChannel, Captured, CapturedUnseen, Refused, GiveUp, Conclude, BookOnly,
         money, channel, sessionVars
<1> USE DEF SettleTyped, AttemptTo, Rest, chain
<1>2. CASE CloseRequest(a) \/ Select(a) \/ Respond(a) \/ ConcludeFromRow(a) \/ Claim(a)
           \/ ReadChain(a) \/ Refused(a) \/ GiveUp(a)
  <2>1. /\ UNCHANGED <<base, captured, final, known, booked>>
        /\ \A b \in Attempts \ {a} : apc'[b] = apc[b] /\ result'[b] = result[b]
        /\ apc'[a] \notin {"settling", "captured"}
    <3>1. CASE CloseRequest(a) \/ Select(a) \/ Respond(a) \/ ConcludeFromRow(a)
      BY <1>0, <3>1 DEF CloseRequest, Select, Respond, ConcludeFromRow
    <3>2. CASE Claim(a) \/ ReadChain(a) \/ Refused(a) \/ GiveUp(a)
      BY <1>0, <3>2 DEF Claim, ReadChain, Refused, GiveUp
    <3> QED
      BY <1>2, <3>1, <3>2
  <2>2. \A b \in Attempts : CanCapture(b)' => b # a /\ CanCapture(b)
    BY <1>1, <2>1 DEF CanCapture
  <2> QED
    BY <1>0, <2>1, <2>2, BookFrame
<1>3. CASE ReadChannel(a)
  <2>1. /\ UNCHANGED <<result, captured, final, known, booked>>
        /\ base' = [base EXCEPT ![a] = known.settled]
        /\ \A b \in Attempts \ {a} : apc'[b] = apc[b] /\ base'[b] = base[b]
        /\ apc'[a] \in {"settling", "none"} /\ base'[a] = known.settled
    BY <1>0, <1>3 DEF ReadChannel
  <2>2. \A b \in Attempts \ {a} : CanCapture(b)' => CanCapture(b)
    BY <1>1, <2>1 DEF CanCapture
  <2>3. Unbooked' \subseteq Unbooked
    BY <2>1 DEF Unbooked
  <2> QED
    BY <1>0, <2>1, <2>2, <2>3 DEF BookInv
<1>4. CASE CapturedUnseen(a)
  <2>1. /\ UNCHANGED <<base, result, known, booked>> /\ captured' = drawn
        /\ captured <= drawn /\ Capture(a)
        /\ \A b \in Attempts \ {a} : apc'[b] = apc[b]
        /\ apc'[a] \notin {"settling", "captured"}
    BY <1>0, <1>4, CaptureAll DEF CapturedUnseen
  <2>2. \A b \in Attempts \ {a} : CanCapture(b)' => CanCapture(b)
    BY <1>0, <1>1, <2>1 DEF CanCapture, Capture
  <2>3. ~CanCapture(a)'
    BY <2>1 DEF CanCapture
  <2> QED
    BY <1>0, <2>1, <2>2, <2>3, BookFrame
<1>5. CASE Captured(a)
  <2>1. /\ UNCHANGED <<base, booked>> /\ captured' = drawn /\ Capture(a) /\ CanCapture(a)
        /\ known' = [settled |-> drawn, final |-> final']
        /\ result' = [result EXCEPT ![a] = drawn]
        /\ apc' = [apc EXCEPT ![a] = "captured"]
    BY <1>5, CaptureAll DEF Captured, Capture, CanCapture
  <2>2. \A b \in Attempts : ~CanCapture(b)'
    <3> SUFFICES ASSUME NEW b \in Attempts, CanCapture(b)' PROVE FALSE
      OBVIOUS
    <3>1. b # a /\ CanCapture(b)
      BY <1>0, <1>1, <2>1 DEF CanCapture, Capture
    <3>2. a \in Payers /\ b \in Payers
      BY <2>1, <3>1, CaptureIsExclusive
    <3> QED
      BY <2>1, <3>1, <3>2 DEF Capture, CanCapture
  <2>3. base[a] = known.settled /\ booked <= known.settled /\ known.settled \in {0, captured}
        /\ captured \in {0, drawn} /\ booked \in Nat
    BY <1>0, <2>1 DEF BookInv, SettleInv, ChainInv
  <2>4. \A b \in Unbooked : base[b] < drawn /\ known.settled = drawn
    BY DEF Unbooked, SettleInv, ChainInv
  <2>5. base[a] < drawn => known.settled = 0 /\ booked = 0 /\ Unbooked = {}
    BY <1>0, <2>3, <2>4
  <2>6. /\ Unbooked' \subseteq Unbooked \cup {a}
        /\ a \in Unbooked' => base[a] < drawn
    BY <1>0, <2>1 DEF Unbooked
  <2>7. booked' <= known'.settled
    BY <1>0, <2>1, <2>3
  <2> QED
    BY <1>0, <2>1, <2>2, <2>5, <2>6, <2>7 DEF BookInv
<1>6. CASE Conclude(a) /\ apc[a] # "captured"
  <2>1. /\ UNCHANGED <<base, result, captured, final, known, booked>>
        /\ \A b \in Attempts \ {a} : apc'[b] = apc[b]
        /\ apc'[a] \notin {"settling", "captured"}
    BY <1>0, <1>6 DEF Conclude
  <2>2. \A b \in Attempts : CanCapture(b)' => b # a /\ CanCapture(b)
    BY <1>1, <2>1 DEF CanCapture
  <2> QED
    BY <1>0, <2>1, <2>2, BookFrame
<1>7. CASE BookOnly(a) \/ (Conclude(a) /\ apc[a] = "captured")
  <2>1. /\ UNCHANGED <<base, result, captured, final, known>> /\ Book(a) /\ apc[a] = "captured"
        /\ \A b \in Attempts \ {a} : apc'[b] = apc[b]
        /\ apc'[a] \notin {"settling", "captured"}
    BY <1>0, <1>7 DEF Conclude, BookOnly
  <2>2. \A b \in Attempts : CanCapture(b)' => b # a /\ CanCapture(b)
    BY <1>1, <2>1 DEF CanCapture
  <2>3. Unbooked' \subseteq Unbooked \ {a}
    BY <2>1 DEF Unbooked
  <2>4. CASE a \in Unbooked
    <3>1. booked = 0 /\ Unbooked' = {}
      BY <1>0, <2>3, <2>4 DEF BookInv
    <3>2. result[a] = known.settled /\ base[a] \in Nat /\ result[a] \in Nat
      BY <1>0, <2>1 DEF SettleInv, ChainInv
    <3>3. booked' <= known.settled
      BY <2>1, <3>1, <3>2 DEF Book
    <3> QED
      BY <1>0, <2>1, <2>2, <3>1, <3>3 DEF BookInv
  <2>5. CASE a \notin Unbooked
    <3>1. ~(base[a] < result[a])
      BY <2>1, <2>5 DEF Unbooked
    <3>2. booked' = booked
      BY <1>0, <2>1, <3>1 DEF Book
    <3> QED
      BY <1>0, <2>1, <2>2, <2>3, <3>2 DEF BookInv
  <2> QED
    BY <2>4, <2>5
<1> QED
  BY <1>2, <1>3, <1>4, <1>5, <1>6, <1>7 DEF AttemptStep

LEMMA BooksInvNext ==
  Slow = {} => (SessionAll /\ SettleInv /\ BooksInv /\ [SettleNext]_allVars => BooksInv')
PROOF
<1> SUFFICES ASSUME Slow = {}, SessionAll, SettleInv, BooksInv, [SettleNext]_allVars
             PROVE  BooksInv'
  OBVIOUS
<1>1. CASE UNCHANGED settleVars
  BY <1>1, SettleStepsSession, SessionKeepsBooks
<1>2. CASE LeaseExpires
  <2>1. /\ UNCHANGED <<drawn, spent, accepted, apc, base, result, captured, final, known, booked>>
        /\ \A a \in Attempts : apc[a] \notin Claiming
    BY <1>2 DEF LeaseExpires, attempt, chain, sessionVars
  <2>2. ClaimInv'
    BY <2>1 DEF ClaimInv
  <2>3. BookInv'
    BY <2>1 DEF BooksInv, BookInv, CanCapture, Unbooked
  <2> QED
    BY <2>2, <2>3 DEF BooksInv
<1>3. ASSUME NEW a \in Attempts, AttemptStep(a) PROVE BooksInv'
  BY <1>3, AttemptKeepsClaim, AttemptKeepsBooks DEF BooksInv
<1> QED
  BY <1>1, <1>2, <1>3 DEF SettleNext, SessionStep, allVars

(* service.ts books what an attempt has seen itself add to the channel's
   settled amount.  If no attempt outlasts its lease, the revenue ledger
   never counts a capture twice, and neither the row nor the SDK's record
   claims more than the chain has paid. *)
THEOREM BooksFollowTheChain == Slow = {} => (SettleSpec => []BooksWithinCaptured)
PROOF
<1> SUFFICES ASSUME Slow = {} PROVE SettleSpec => []BooksWithinCaptured
  OBVIOUS
<1>1. SessionAll /\ SettleInv /\ BooksInv => BooksWithinCaptured
  <2> SUFFICES ASSUME SessionAll, SettleInv, BooksInv PROVE BooksWithinCaptured
    OBVIOUS
  <2>1. /\ settled <= captured /\ known.settled \in {0, captured} /\ captured \in Nat
        /\ booked <= known.settled /\ booked \in Nat
    BY DEF SettleInv, SettleTyped, ChainInv, BooksInv, BookInv
  <2> QED
    BY <2>1 DEF BooksWithinCaptured
<1>2. SessionAll /\ SettleInv /\ BooksInv /\ [SettleNext]_allVars => BooksInv'
  BY BooksInvNext
<1> QED
  BY <1>1, <1>2, SettleInitSession, SettleNextSession, SettleInvInit, SettleInvNext, BooksInvInit,
     PTL DEF SettleSpec
=============================================================================

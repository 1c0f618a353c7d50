------------------------- MODULE PaymentProofs ----------------------------
(***************************************************************************)
(* Proofs about the payments for one call: single-use credentials          *)
(* (PaidCall), for any number of credentials, requests, retries and        *)
(* takeovers, and x402 (X402Revenue), for any number of calls,             *)
(* authorizations and reconciliations.                                     *)
(***************************************************************************)
EXTENDS PaidCall, X402Revenue, FiniteSetTheorems, TLAPS

---------------------------------------------------------------------------
(* Single-use credentials.                                                 *)

---------------------------------------------------------------------------
(* Lemmas about one step.                                                  *)

\* A call keeps its credential, and the other calls stay where they are.
LEMMA OnlyOneGoes ==
  ASSUME PaidTypeOK, NEW r \in Requests, NEW place \in Places, Goes(r, place)
  PROVE  /\ call' \in [Requests -> [at : Places, of : Credentials]]
         /\ \A q \in Requests : /\ call'[q].of = call[q].of
                                /\ q # r => call'[q] = call[q]
         /\ call'[r].at = place
BY DEF PaidTypeOK, Goes

LEMMA OnlyOneTold ==
  ASSUME PaidTypeOK, NEW r \in Requests, NEW what, Told(r, what)
  PROVE  /\ call' \in [Requests -> [at : Places, of : Credentials]]
         /\ \A q \in Requests : /\ call'[q].of = call[q].of
                                /\ q # r => call'[q] = call[q] /\ answer'[q] = answer[q]
         /\ call'[r].at = "done" /\ answer'[r] = what
<1>1. "done" \in Places /\ Goes(r, "done") /\ answer' = [answer EXCEPT ![r] = what]
  BY DEF Told, Places
<1> QED BY <1>1, OnlyOneGoes DEF PaidTypeOK

\* What a write makes of the table: types, and which claims it changes.
LEMMA TableWrites ==
  ASSUME PaidTypeOK, NEW c \in Credentials
  PROVE  /\ Redeemed(c) \/ Released(c) \/ Doubted(c) \/ UNCHANGED redemption =>
              /\ claim' \in [Credentials -> {"none", "in_flight", "redeemed", "settlement_unknown"}]
              /\ aged' \subseteq Credentials /\ takeovers' = takeovers
              /\ \A d \in Credentials : d # c => claim'[d] = claim[d]
         /\ Redeemed(c) => claim'[c] = IF claim[c] = "none" THEN "none" ELSE "redeemed"
         /\ Released(c) => claim'[c] = IF claim[c] = "in_flight" THEN "none" ELSE claim[c]
         /\ Doubted(c) => claim'[c] = IF claim[c] = "in_flight" THEN "settlement_unknown" ELSE claim[c]
         /\ UNCHANGED redemption => claim'[c] = claim[c]
BY DEF PaidTypeOK, Redeemed, Released, Doubted, redemption

---------------------------------------------------------------------------
(* Types.                                                                  *)

Writes == {"redeem", "release", "book"} \X Requests

LEMMA PaidTypeInit == PaidInit => PaidTypeOK
<1> SUFFICES ASSUME PaidInit PROVE PaidTypeOK
  OBVIOUS
<1>1. call \in [Requests -> [at : Places, of : Credentials]]
  <2>1. call \in [Requests -> [at : {"idle"}, of : Credentials]] /\ "idle" \in Places
    BY DEF PaidInit, Places
  <2> QED BY <2>1
<1> QED BY <1>1, PaidCallAssumption DEF PaidInit, PaidTypeOK

LEMMA PaidTypeStep == PaidTypeOK /\ [PaidNext]_paidVars => PaidTypeOK'
<1> SUFFICES ASSUME PaidTypeOK, [PaidNext]_paidVars PROVE PaidTypeOK'
  OBVIOUS
<1>1. CASE UNCHANGED paidVars
  BY <1>1 DEF paidVars, redemption, PaidTypeOK
<1>2. ASSUME NEW c \in Credentials, ClaimAges(c) PROVE PaidTypeOK'
  BY <1>2 DEF ClaimAges, PaidTypeOK
<1>3. ASSUME NEW w \in writes, Perform(w) PROVE PaidTypeOK'
  <2>1. w[2] \in Requests /\ Of(w[2]) \in Credentials
    BY DEF PaidTypeOK, Of
  <2>2. Redeemed(Of(w[2])) \/ Released(Of(w[2])) \/ UNCHANGED redemption
    BY <1>3 DEF Perform
  <2>3. booked' \subseteq Credentials
    BY <1>3, <2>1 DEF Perform, PaidTypeOK
  <2>4. writes' \subseteq writes /\ UNCHANGED <<moved, call, answer>>
    BY <1>3 DEF Perform
  <2> QED BY <2>1, <2>2, <2>3, <2>4, TableWrites DEF PaidTypeOK
<1>4. ASSUME NEW w \in writes, Lose(w) PROVE PaidTypeOK'
  BY <1>4 DEF Lose, PaidTypeOK, redemption
<1>5. ASSUME NEW r \in Requests, Claim(r) PROVE PaidTypeOK'
  <2>1. Of(r) \in Credentials /\ "running" \in Places /\ Goes(r, "running")
    BY <1>5 DEF PaidTypeOK, Of, Claim, Places
  <2>2. call' \in [Requests -> [at : Places, of : Credentials]]
    BY <2>1, OnlyOneGoes
  <2> QED BY <1>5, <2>1, <2>2 DEF Claim, PaidTypeOK
<1>6. ASSUME NEW r \in Requests, Die(r) \/ RunSucceeds(r) PROVE PaidTypeOK'
  <2>1. PICK place \in Places : Goes(r, place)
    BY <1>6 DEF Die, RunSucceeds, Places
  <2>2. call' \in [Requests -> [at : Places, of : Credentials]]
    BY <2>1, OnlyOneGoes
  <2> QED BY <1>6, <2>2 DEF Die, RunSucceeds, PaidTypeOK, redemption
<1>7. ASSUME NEW r \in Requests, FinishResult(r) \/ FinishFailure(r) PROVE PaidTypeOK'
  <2>1. PICK what \in {"result", "failed"} : Told(r, what)
    BY <1>7 DEF FinishResult, FinishFailure
  <2>2. answer' \in [Requests -> {"none", "result", "failed", "uncharged", "unconfirmed"}]
    BY <2>1 DEF Told, PaidTypeOK
  <2>3. writes' \subseteq Writes
    BY <1>7 DEF FinishResult, FinishFailure, PaidTypeOK, Writes
  <2> QED BY <1>7, <2>1, <2>2, <2>3, OnlyOneTold
          DEF FinishResult, FinishFailure, PaidTypeOK, redemption, Writes
<1>8. ASSUME NEW r \in Requests, RunFails(r) \/ Withhold(r) \/ Doubt(r) \/ Respond(r)
      PROVE  PaidTypeOK'
  <2>1. PICK what \in {"result", "failed", "uncharged", "unconfirmed"} : Told(r, what)
    BY <1>8 DEF RunFails, Withhold, Doubt, Respond
  <2>2. Of(r) \in Credentials
    BY DEF PaidTypeOK, Of
  <2>3. Released(Of(r)) \/ Doubted(Of(r)) \/ UNCHANGED redemption
    BY <1>8 DEF RunFails, Withhold, Doubt, Respond, Awaited
  <2>4. answer' \in [Requests -> {"none", "result", "failed", "uncharged", "unconfirmed"}]
    BY <2>1 DEF Told, PaidTypeOK
  <2>5. UNCHANGED <<moved, writes, booked>>
    BY <1>8 DEF RunFails, Withhold, Doubt, Respond
  <2> QED BY <2>1, <2>2, <2>3, <2>4, <2>5, TableWrites, OnlyOneTold DEF PaidTypeOK
<1>9. ASSUME NEW r \in Requests, SettleCharge(r) PROVE PaidTypeOK'
  <2>1. PICK place \in Places : Goes(r, place)
    BY <1>9 DEF SettleCharge, Places
  <2>2. Of(r) \in Credentials
    BY DEF PaidTypeOK, Of
  <2>3. moved' \subseteq Credentials
    BY <1>9, <2>2 DEF SettleCharge, PaidTypeOK
  <2> QED BY <1>9, <2>1, <2>3, OnlyOneGoes DEF SettleCharge, PaidTypeOK, redemption
<1>10. ASSUME NEW r \in Requests, MarkSettled(r) PROVE PaidTypeOK'
  <2>1. "marked" \in Places /\ Goes(r, "marked") /\ Of(r) \in Credentials
    BY <1>10 DEF MarkSettled, Places, PaidTypeOK, Of
  <2>2. Redeemed(Of(r)) \/ UNCHANGED redemption
    BY <1>10 DEF MarkSettled, Awaited
  <2>3. writes' \subseteq Writes
    BY <1>10 DEF MarkSettled, PaidTypeOK, Writes
  <2> QED BY <1>10, <2>1, <2>2, <2>3, TableWrites, OnlyOneGoes DEF MarkSettled, PaidTypeOK, Writes
<1> QED
  BY <1>1, <1>2, <1>3, <1>4, <1>5, <1>6, <1>7, <1>8, <1>9, <1>10 DEF PaidNext

\* Every variable keeps its type, for any number of requests.
THEOREM PaidTyped == PaidSpec => []PaidTypeOK
<1> QED BY PaidTypeInit, PaidTypeStep, PTL DEF PaidSpec

---------------------------------------------------------------------------
(* A spent claim stays spent.                                              *)

\* No step takes a redeemed or doubtful claim back, whoever's it is.
THEOREM SpentStays == PaidSpec => SpentStaysSpent
<1> DEFINE Kept == \A c \in Credentials :
                     claim[c] \in {"redeemed", "settlement_unknown"} => claim'[c] \in {claim[c], "redeemed"}
<1>1. ASSUME PaidTypeOK, [PaidNext]_paidVars PROVE Kept
  <2>0. \A r \in Requests : Of(r) \in Credentials
    BY <1>1 DEF PaidTypeOK, Of
  <2>1. CASE claim' = claim
    BY <2>1
  <2>2. ASSUME NEW c \in Credentials, Redeemed(c) \/ Released(c) \/ Doubted(c) PROVE Kept
    BY <1>1, <2>2, TableWrites
  <2>3. ASSUME NEW w \in writes, Perform(w) PROVE Kept
    <3>1. Of(w[2]) \in Credentials
      BY <1>1, <2>0 DEF PaidTypeOK
    <3> QED BY <2>1, <2>2, <2>3, <3>1 DEF Perform, redemption
  <2>4. ASSUME NEW r \in Requests, Claim(r) PROVE Kept
    BY <1>1, <2>0, <2>4 DEF Claim, Claimable, PaidTypeOK
  <2>5. ASSUME NEW r \in Requests, RunFails(r) \/ Withhold(r) \/ Doubt(r) \/ MarkSettled(r) PROVE Kept
    BY <2>0, <2>1, <2>2, <2>5 DEF RunFails, Withhold, Doubt, MarkSettled, Awaited, redemption
  <2> QED
    BY <1>1, <2>1, <2>3, <2>4, <2>5 DEF PaidNext, ClaimAges, Lose, Die, FinishResult, FinishFailure,
       RunSucceeds, SettleCharge, Respond, paidVars, redemption
<1>2. ASSUME PaidTypeOK, [PaidNext]_paidVars PROVE [Kept]_paidVars
  BY <1>1, <1>2
<1> QED BY PaidTyped, <1>2, PTL DEF PaidSpec, SpentStaysSpent

---------------------------------------------------------------------------
(* Who was told what, and what was paid.                                   *)

\* A call that is answered is over; only a charge is settled; a write that
\* is not waited for is the one that its answer calls for.
AnswersInv ==
  /\ \A r \in Requests :
       /\ answer[r] # "none" => call[r].at = "done"
       /\ call[r].at \in {"settling", "settled", "marked", "refused", "unknown"} => Of(r) \notin Lightning
  /\ \A w \in writes :
       /\ w[1] = "redeem" => Of(w[2]) \in Lightning /\ answer[w[2]] = "result"
       /\ w[1] = "release" => answer[w[2]] = "failed"

\* A charge whose money is settled, or was.
Settled(r) == Of(r) \notin Lightning /\ (At(r, {"settled", "marked"}) \/ answer[r] = "result")

PaidInv == AnswersInv /\ FailuresKeepThePayment /\ ResultsAreSettled

LEMMA AnswersStep == PaidTypeOK /\ AnswersInv /\ [PaidNext]_paidVars => AnswersInv'
<1> SUFFICES ASSUME PaidTypeOK, AnswersInv, [PaidNext]_paidVars PROVE AnswersInv'
  OBVIOUS
<1>1. CASE UNCHANGED <<call, answer>> /\ writes' \subseteq writes
  BY <1>1 DEF AnswersInv, Of
<1>2. ASSUME NEW r \in Requests, NEW place \in Places, Goes(r, place), answer[r] = "none",
             place = "done" => FALSE,
             place \in {"settling", "settled", "marked", "refused", "unknown"} => Of(r) \notin Lightning,
             answer' = answer, writes' \subseteq writes \cup {<<"book", r>>}
      PROVE  AnswersInv'
  <2>1. /\ \A q \in Requests : call'[q].of = call[q].of /\ (q # r => call'[q] = call[q])
        /\ call'[r].at = place
    BY <1>2, OnlyOneGoes
  <2>2. \A w \in writes' : w \in writes \/ w[1] = "book"
    BY <1>2
  <2>3. \A w \in writes : w[2] \in Requests
    BY DEF PaidTypeOK
  <2> QED BY <1>2, <2>1, <2>2, <2>3 DEF AnswersInv, Of
<1>3. ASSUME NEW r \in Requests, NEW what, Told(r, what), answer[r] = "none",
             \A w \in writes' \ writes :
                /\ w[2] = r /\ w[1] \in {"redeem", "release", "book"}
                /\ w[1] = "redeem" => Of(r) \in Lightning /\ what = "result"
                /\ w[1] = "release" => what = "failed"
      PROVE  AnswersInv'
  <2>1. /\ \A q \in Requests : /\ call'[q].of = call[q].of
                               /\ q # r => call'[q] = call[q] /\ answer'[q] = answer[q]
        /\ call'[r].at = "done" /\ answer'[r] = what
    BY <1>3, OnlyOneTold
  <2>2. \A w \in writes : w[2] \in Requests
    BY DEF PaidTypeOK
  <2>3. \A q \in Requests :
          /\ answer'[q] # "none" => call'[q].at = "done"
          /\ call'[q].at \in {"settling", "settled", "marked", "refused", "unknown"} => call'[q].of \notin Lightning
    BY <2>1 DEF AnswersInv, Of
  <2>4. ASSUME NEW w \in writes'
        PROVE  /\ w[1] = "redeem" => call'[w[2]].of \in Lightning /\ answer'[w[2]] = "result"
               /\ w[1] = "release" => answer'[w[2]] = "failed"
    <3>1. CASE w \in writes
      <4>1. w[1] \in {"redeem", "release"} => answer[w[2]] # "none"
        BY <3>1 DEF AnswersInv
      <4> QED BY <1>3, <2>1, <2>2, <3>1, <4>1 DEF AnswersInv, Of
    <3>2. CASE w \notin writes
      BY <1>3, <2>1, <3>2 DEF Of
    <3> QED BY <3>1, <3>2
  <2> QED BY <2>3, <2>4 DEF AnswersInv, Of
<1>4. \A r \in Requests : call[r].at # "done" => answer[r] = "none"
  BY DEF AnswersInv
<1>5. ASSUME NEW r \in Requests, Claim(r) \/ Die(r) \/ RunSucceeds(r) \/ SettleCharge(r) \/ MarkSettled(r)
      PROVE  AnswersInv'
  <2>1. /\ answer[r] = "none" /\ answer' = answer
        /\ writes' \subseteq writes \cup {<<"book", r>>}
    BY <1>4, <1>5 DEF Claim, Die, RunSucceeds, SettleCharge, MarkSettled, At
  <2>2. \E place \in Places :
          /\ Goes(r, place) /\ place # "done"
          /\ place \in {"settling", "settled", "marked", "refused", "unknown"} => Of(r) \notin Lightning
    BY <1>5 DEF Claim, Die, RunSucceeds, SettleCharge, MarkSettled, At, Places, AnswersInv
  <2> QED BY <1>2, <2>1, <2>2
<1>6. ASSUME NEW r \in Requests, FinishResult(r) PROVE AnswersInv'
  <2>1. Told(r, "result") /\ answer[r] = "none" /\ Of(r) \in Lightning
        /\ writes' = writes \cup {<<"redeem", r>>, <<"book", r>>}
    BY <1>4, <1>6 DEF FinishResult, At
  <2> QED BY <1>3, <2>1
<1>7. ASSUME NEW r \in Requests, FinishFailure(r) PROVE AnswersInv'
  <2>1. Told(r, "failed") /\ answer[r] = "none" /\ writes' = writes \cup {<<"release", r>>}
    BY <1>4, <1>7 DEF FinishFailure, At
  <2> QED BY <1>3, <2>1
<1>8. ASSUME NEW r \in Requests, RunFails(r) \/ Withhold(r) \/ Doubt(r) \/ Respond(r)
      PROVE  AnswersInv'
  <2>1. answer[r] = "none" /\ writes' = writes
    BY <1>4, <1>8 DEF RunFails, Withhold, Doubt, Respond, At
  <2>2. \E what : Told(r, what)
    BY <1>8 DEF RunFails, Withhold, Doubt, Respond
  <2> QED BY <1>3, <2>1, <2>2
<1> QED
  BY <1>1, <1>5, <1>6, <1>7, <1>8 DEF PaidNext, ClaimAges, Perform, Lose, paidVars

\* An answer that was given stays, and so does money that has moved.
LEMMA AnswersStay ==
  ASSUME PaidTypeOK, AnswersInv, [PaidNext]_paidVars
  PROVE  /\ \A r \in Requests : /\ call'[r].of = call[r].of
                                /\ answer[r] # "none" => answer'[r] = answer[r]
         /\ moved \subseteq moved'
<1>1. CASE call' = call /\ answer' = answer /\ moved' = moved
  BY <1>1
<1>2. ASSUME NEW r \in Requests,
             Claim(r) \/ Die(r) \/ RunSucceeds(r) \/ SettleCharge(r) \/ MarkSettled(r)
      PROVE  /\ \A q \in Requests : call'[q].of = call[q].of
             /\ answer' = answer /\ moved \subseteq moved'
  <2>1. PICK place \in Places : Goes(r, place)
    BY <1>2 DEF Claim, Die, RunSucceeds, SettleCharge, MarkSettled, Places
  <2>2. answer' = answer /\ moved \subseteq moved'
    BY <1>2 DEF Claim, Die, RunSucceeds, SettleCharge, MarkSettled
  <2> QED BY <2>1, <2>2, OnlyOneGoes
<1>3. ASSUME NEW r \in Requests,
             FinishResult(r) \/ FinishFailure(r) \/ RunFails(r) \/ Withhold(r) \/ Doubt(r) \/ Respond(r)
      PROVE  /\ \A q \in Requests : /\ call'[q].of = call[q].of
                                    /\ answer[q] # "none" => answer'[q] = answer[q]
             /\ moved' = moved
  <2>1. PICK what : Told(r, what)
    BY <1>3 DEF FinishResult, FinishFailure, RunFails, Withhold, Doubt, Respond
  <2>2. moved' = moved /\ call[r].at # "done"
    BY <1>3 DEF FinishResult, FinishFailure, RunFails, Withhold, Doubt, Respond, At
  <2> QED BY <2>1, <2>2, OnlyOneTold DEF AnswersInv
<1> QED
  BY <1>1, <1>2, <1>3 DEF PaidNext, ClaimAges, Perform, Lose, paidVars

LEMMA FailuresStep ==
  ASSUME PaidTypeOK, PaidInv, [PaidNext]_paidVars
  PROVE  FailuresKeepThePayment'
<1> DEFINE Explained(c) ==
      /\ claim'[c] = "redeemed" =>
           IF c \in Lightning THEN \E r \in Requests : call'[r].of = c /\ answer'[r] = "result"
           ELSE c \in moved'
      /\ claim'[c] = "settlement_unknown" =>
           \E r \in Requests : call'[r].of = c /\ answer'[r] = "unconfirmed"
<1>1. SUFFICES ASSUME NEW c \in Credentials PROVE Explained(c)
  BY DEF FailuresKeepThePayment, Of
<1>2. ASSUME claim'[c] \in {claim[c], "none", "in_flight"} PROVE Explained(c)
  BY <1>2, AnswersStay DEF PaidInv, FailuresKeepThePayment, Of
<1>3. \A r \in Requests : Of(r) \in Credentials
  BY DEF PaidTypeOK, Of
<1>4. ASSUME NEW d \in Credentials, Released(d) \/ UNCHANGED redemption PROVE Explained(c)
  BY <1>2, <1>4, TableWrites
<1>5. ASSUME NEW w \in writes, Perform(w) PROVE Explained(c)
  <2>1. w[2] \in Requests /\ Of(w[2]) \in Credentials
    BY <1>3 DEF PaidTypeOK
  <2>2. CASE w[1] = "redeem" /\ Redeemed(Of(w[2]))
    <3>1. CASE c = Of(w[2])
      <4>1. call'[w[2]].of = c /\ answer'[w[2]] = "result" /\ c \in Lightning
        BY <2>1, <2>2, <3>1, AnswersStay DEF PaidInv, AnswersInv, Of
      <4>2. claim'[c] \in {"none", "redeemed"}
        BY <2>1, <2>2, <3>1, TableWrites
      <4> QED BY <2>1, <4>1, <4>2
    <3>2. CASE c # Of(w[2])
      BY <1>2, <2>1, <2>2, <3>2, TableWrites
    <3> QED BY <3>1, <3>2
  <2> QED BY <1>4, <1>5, <2>1, <2>2 DEF Perform
<1>6. ASSUME NEW r \in Requests, MarkSettled(r) PROVE Explained(c)
  <2>1. CASE Redeemed(Of(r))
    <3>1. Of(r) \in moved' /\ Of(r) \notin Lightning
      BY <1>6, AnswersStay DEF MarkSettled, PaidInv, ResultsAreSettled, AnswersInv, At
    <3>2. c # Of(r) => claim'[c] = claim[c]
      BY <1>3, <2>1, TableWrites
    <3>3. c = Of(r) => claim'[c] \in {"none", "redeemed"}
      BY <1>3, <2>1, TableWrites
    <3> QED BY <1>2, <3>1, <3>2, <3>3
  <2> QED BY <1>3, <1>4, <1>6, <2>1 DEF MarkSettled, Awaited
<1>7. ASSUME NEW r \in Requests, Doubt(r) PROVE Explained(c)
  <2>1. CASE Doubted(Of(r))
    <3>1. call'[r].of = Of(r) /\ answer'[r] = "unconfirmed"
      BY <1>7, OnlyOneTold DEF Doubt, Of
    <3>2. c # Of(r) => claim'[c] = claim[c]
      BY <1>3, <2>1, TableWrites
    <3>3. c = Of(r) => claim'[c] \in {claim[c], "settlement_unknown"}
      BY <1>3, <2>1, TableWrites
    <3>4. c = Of(r) /\ claim'[c] = "settlement_unknown" => Explained(c)
      BY <3>1
    <3> QED BY <1>2, <3>2, <3>3, <3>4
  <2> QED BY <1>3, <1>4, <1>7, <2>1 DEF Doubt, Awaited
<1>8. ASSUME NEW r \in Requests, RunFails(r) \/ Withhold(r) PROVE Explained(c)
  BY <1>3, <1>4, <1>8 DEF RunFails, Withhold, Awaited
<1>9. ASSUME NEW r \in Requests, Claim(r) PROVE Explained(c)
  BY <1>2, <1>3, <1>9 DEF Claim, PaidTypeOK
<1>10. CASE claim' = claim
  BY <1>2, <1>10
<1> QED
  BY <1>5, <1>6, <1>7, <1>8, <1>9, <1>10 DEF PaidNext, ClaimAges, Lose, Die, FinishResult,
     FinishFailure, RunSucceeds, SettleCharge, Respond, paidVars, redemption

LEMMA SettledStep ==
  ASSUME PaidTypeOK, PaidInv, [PaidNext]_paidVars
  PROVE  ResultsAreSettled'
<1> DEFINE SettledNext(r) == /\ call'[r].of \notin Lightning
                             /\ call'[r].at \in {"settled", "marked"} \/ answer'[r] = "result"
<1>1. SUFFICES ASSUME NEW r \in Requests, NEW s \in Requests
               PROVE  /\ SettledNext(r) => call'[r].of \in moved'
                      /\ SettledNext(r) /\ SettledNext(s) /\ call'[r].of = call'[s].of => r = s
  BY DEF ResultsAreSettled, Of, At
<1>2. \A q \in Requests : Settled(q) => Of(q) \in moved
  BY DEF PaidInv, ResultsAreSettled, Settled
<1>3. \A p, q \in Requests : Settled(p) /\ Settled(q) /\ Of(p) = Of(q) => p = q
  BY DEF PaidInv, ResultsAreSettled, Settled
<1>9. (\A q \in Requests : call'[q].of = Of(q)) /\ moved \subseteq moved'
  BY AnswersStay DEF Of, PaidInv
<1>4. CASE \A q \in Requests : SettledNext(q) => Settled(q)
  <2> HIDE DEF SettledNext
  <2>1. /\ SettledNext(r) => call'[r].of \in moved'
        /\ SettledNext(r) /\ SettledNext(s) /\ call'[r].of = call'[s].of => r = s
    BY <1>2, <1>3, <1>4, <1>9
  <2> QED BY <1>1, <2>1 DEF SettledNext
<1>5. ASSUME NEW q \in Requests, SettleCharge(q)
      PROVE  /\ SettledNext(r) => call'[r].of \in moved'
             /\ SettledNext(r) /\ SettledNext(s) /\ call'[r].of = call'[s].of => r = s
  <2>1. PICK place \in Places :
          /\ Goes(q, place) /\ place \in {"settled", "refused", "unknown"}
          /\ place = "settled" => Of(q) \notin moved /\ moved' = moved \cup {Of(q)}
    BY <1>5 DEF SettleCharge, Places
  <2>2. /\ \A p \in Requests : call'[p].of = call[p].of /\ (p # q => call'[p] = call[p])
        /\ call'[q].at = place /\ answer' = answer
    BY <1>5, <2>1, OnlyOneGoes DEF SettleCharge
  <2>3. \A p \in Requests : p # q /\ SettledNext(p) => Settled(p)
    BY <2>2 DEF Settled, Of, At
  <2>4. answer[q] = "none"
    BY <1>5 DEF SettleCharge, At, PaidInv, AnswersInv
  <2>5. SettledNext(q) => Of(q) \notin moved /\ Of(q) \in moved'
    BY <2>1, <2>2, <2>4
  <2> HIDE DEF SettledNext
  <2> QED BY <1>2, <1>3, <1>9, <2>3, <2>5
<1>6. CASE UNCHANGED <<call, answer>>
  BY <1>4, <1>6 DEF Settled, Of, At
<1>7. ASSUME NEW q \in Requests, Claim(q) \/ Die(q) \/ RunSucceeds(q) \/ MarkSettled(q)
      PROVE  \A p \in Requests : SettledNext(p) => Settled(p)
  <2>1. PICK place \in Places :
          Goes(q, place) /\ (place \in {"settled", "marked"} => call[q].at = "settled")
    BY <1>7 DEF Claim, Die, RunSucceeds, MarkSettled, Places, At
  <2>2. answer' = answer
    BY <1>7 DEF Claim, Die, RunSucceeds, MarkSettled
  <2> QED BY <2>1, <2>2, OnlyOneGoes DEF Settled, Of, At
<1>8. ASSUME NEW q \in Requests,
             FinishResult(q) \/ FinishFailure(q) \/ RunFails(q) \/ Withhold(q) \/ Doubt(q) \/ Respond(q)
      PROVE  \A p \in Requests : SettledNext(p) => Settled(p)
  <2>1. PICK what : Told(q, what) /\ (what = "result" => Of(q) \in Lightning \/ call[q].at = "marked")
    BY <1>8 DEF FinishResult, FinishFailure, RunFails, Withhold, Doubt, Respond, At
  <2> QED BY <2>1, OnlyOneTold DEF Settled, Of, At
<1> QED
  BY <1>4, <1>5, <1>6, <1>7, <1>8 DEF PaidNext, ClaimAges, Perform, Lose, paidVars

LEMMA PaidInvHolds == PaidSpec => []PaidInv
<1>1. PaidInit => PaidInv
  <2> SUFFICES ASSUME PaidInit PROVE PaidInv
    OBVIOUS
  <2>1. /\ \A r \in Requests : call[r].at = "idle" /\ answer[r] = "none"
        /\ \A c \in Credentials : claim[c] = "none"
        /\ writes = {}
    BY DEF PaidInit
  <2> QED BY <2>1 DEF PaidInv, AnswersInv, FailuresKeepThePayment, ResultsAreSettled, At
<1>2. PaidTypeOK /\ PaidInv /\ [PaidNext]_paidVars => PaidInv'
  BY AnswersStep, FailuresStep, SettledStep DEF PaidInv
<1> QED BY <1>1, <1>2, PaidTyped, PTL DEF PaidSpec

\* Whatever writes are lost, late or find no row, and whoever takes a claim
\* over, a credential is redeemed only for a result or for money that moved.
THEOREM FailuresKeep == PaidSpec => []FailuresKeepThePayment
BY PaidInvHolds, PTL DEF PaidInv

\* No charge hands its result over unsettled, or one settlement twice.
THEOREM ResultsSettled == PaidSpec => []ResultsAreSettled
BY PaidInvHolds, PTL DEF PaidInv

---------------------------------------------------------------------------
(* One call for each claim.                                                *)

\* Calls that hold a claim of a credential: in progress, at the end with
\* it, or finished with its release still to be written.
Holding(r) ==
  \/ At(r, {"running", "settling", "settled", "marked", "refused", "unknown", "dead"})
  \/ answer[r] \in {"result", "unconfirmed"}
  \/ <<"release", r>> \in writes

Holders(c) == {r \in Requests : Of(r) = c /\ Holding(r)}

\* Claims that were ever made of a credential and are not given back.
Claims(c) == takeovers[c] + IF claim[c] = "none" THEN 0 ELSE 1

ClaimsCover == \A c \in Credentials : Cardinality(Holders(c)) <= Claims(c)

\* A step of one request that leaves the claims or makes one more.
LEMMA HoldersGrow ==
  ASSUME NEW S, NEW T, NEW r, IsFiniteSet(S), T \subseteq S \cup {r}
  PROVE  IsFiniteSet(T) /\ Cardinality(T) <= Cardinality(S) + 1
<1>1. /\ IsFiniteSet(S \cup {r}) /\ Cardinality(S \cup {r}) \in Nat /\ Cardinality(S) \in Nat
      /\ Cardinality(S \cup {r}) <= Cardinality(S) + 1
  <2>1. Cardinality(S) \in Nat
    BY FS_CardinalityType
  <2>2. /\ IsFiniteSet(S \cup {r})
        /\ Cardinality(S \cup {r}) = IF r \in S THEN Cardinality(S) ELSE Cardinality(S) + 1
    BY FS_AddElement
  <2> QED BY <2>1, <2>2
<1>2. IsFiniteSet(T) /\ Cardinality(T) <= Cardinality(S \cup {r}) /\ Cardinality(T) \in Nat
  BY <1>1, FS_Subset, FS_CardinalityType
<1> QED BY <1>1, <1>2

LEMMA HoldersShrink ==
  ASSUME NEW S, NEW T, IsFiniteSet(S), T \subseteq S
  PROVE  Cardinality(T) <= Cardinality(S)
BY FS_Subset

LEMMA HoldersLose ==
  ASSUME NEW S, NEW T, NEW r \in S, IsFiniteSet(S), T \subseteq S \ {r}
  PROVE  Cardinality(T) <= Cardinality(S) - 1
<1>1. /\ IsFiniteSet(S \ {r}) /\ Cardinality(S \ {r}) = Cardinality(S) - 1
  BY FS_RemoveElement
<1> QED BY <1>1, FS_Subset

LEMMA HoldersFinite == \A c : IsFiniteSet(Holders(c)) /\ Cardinality(Holders(c)) \in Nat
<1>1. \A c : Holders(c) \subseteq Requests
  BY DEF Holders
<1> QED BY <1>1, PaidCallAssumption, FS_Subset, FS_CardinalityType

LEMMA ClaimsType == PaidTypeOK => \A c \in Credentials : Claims(c) \in Nat
BY DEF PaidTypeOK, Claims

LEMMA CoverStep ==
  ASSUME PaidTypeOK, PaidInv, ClaimsCover, [PaidNext]_paidVars
  PROVE  ClaimsCover'
<1> SUFFICES ASSUME NEW c \in Credentials PROVE Cardinality(Holders(c)') <= Claims(c)'
  BY DEF ClaimsCover
<1>1. Cardinality(Holders(c)) <= Claims(c) /\ Cardinality(Holders(c)) \in Nat /\ Claims(c) \in Nat
  BY HoldersFinite, ClaimsType DEF ClaimsCover
<1>2. Claims(c)' \in Nat /\ IsFiniteSet(Holders(c)) /\ Cardinality(Holders(c)') \in Nat
  <2>1. Claims(c)' \in Nat
    BY PaidTypeStep DEF PaidTypeOK, Claims
  <2>2. Holders(c)' \subseteq Requests
    BY DEF Holders
  <2> QED BY <2>1, <2>2, HoldersFinite, PaidCallAssumption, FS_Subset, FS_CardinalityType
<1>3. ASSUME Holders(c)' \subseteq Holders(c), Claims(c) <= Claims(c)'
      PROVE  Cardinality(Holders(c)') <= Claims(c)'
  <2>1. Cardinality(Holders(c)') <= Cardinality(Holders(c))
    BY <1>2, <1>3, HoldersShrink
  <2> QED BY <1>1, <1>2, <1>3, <2>1
<1>4. ASSUME NEW r \in Holders(c), Holders(c)' \subseteq Holders(c) \ {r}, Claims(c) - 1 <= Claims(c)'
      PROVE  Cardinality(Holders(c)') <= Claims(c)'
  <2>1. Cardinality(Holders(c)') <= Cardinality(Holders(c)) - 1
    BY <1>2, <1>4, HoldersLose
  <2> QED BY <1>1, <1>2, <1>4, <2>1
<1>5. \A r \in Requests : call'[r].of = call[r].of /\ Of(r) \in Credentials
  BY AnswersStay DEF PaidInv, PaidTypeOK, Of
\* What the table may do.
<1>6. ASSUME NEW d \in Credentials, Redeemed(d) \/ Doubted(d) \/ UNCHANGED redemption
      PROVE  Claims(c)' = Claims(c)
  BY <1>6, TableWrites DEF Claims
<1>7. ASSUME NEW d \in Credentials, Released(d)
      PROVE  /\ d # c => Claims(c)' = Claims(c)
             /\ d = c => Claims(c)' \in {Claims(c), Claims(c) - 1}
  BY <1>7, TableWrites DEF Claims, PaidTypeOK
\* What a step that no call takes does to the holders.
<1>8. CASE UNCHANGED <<call, answer, claim, takeovers>> /\ writes' \subseteq writes
  <2>1. Holders(c)' \subseteq Holders(c)
    BY <1>8 DEF Holders, Holding, Of, At
  <2> QED BY <1>1, <1>3, <1>8, <2>1 DEF Claims
<1>9. ASSUME NEW w \in writes, Perform(w) PROVE Cardinality(Holders(c)') <= Claims(c)'
  <2>1. w[2] \in Requests /\ Of(w[2]) \in Credentials
    BY <1>5 DEF PaidTypeOK
  <2>2. UNCHANGED <<call, answer>> /\ writes' = writes \ {w}
    BY <1>9 DEF Perform
  <2>3. Holders(c)' \subseteq Holders(c)
    BY <2>2 DEF Holders, Holding, Of, At
  <2>4. CASE w[1] = "release" /\ Released(Of(w[2])) /\ Of(w[2]) = c
    <3>1. w = <<"release", w[2]>>
      BY <2>4 DEF PaidTypeOK
    <3>2. answer[w[2]] = "failed" /\ call[w[2]].at = "done"
      BY <2>1, <2>4 DEF PaidInv, AnswersInv
    <3>3. w[2] \in Holders(c)
      BY <2>1, <2>4, <3>1 DEF Holders, Holding
    <3>4. w[2] \notin Holders(c)'
      BY <2>2, <3>1, <3>2 DEF Holders, Holding, At
    <3>5. Claims(c) - 1 <= Claims(c)'
      BY <1>1, <1>7, <2>1, <2>4
    <3> QED BY <1>4, <2>3, <3>3, <3>4, <3>5
  <2>5. CASE Claims(c)' = Claims(c)
    BY <1>1, <1>3, <2>3, <2>5
  <2> QED BY <1>6, <1>7, <1>9, <2>1, <2>4, <2>5 DEF Perform
\* What a step of one call does to them.
<1>10. ASSUME NEW r \in Requests, Claim(r) PROVE Cardinality(Holders(c)') <= Claims(c)'
  <2>1. /\ \A q \in Requests : call'[q].of = call[q].of /\ (q # r => call'[q] = call[q])
        /\ answer' = answer /\ writes' = writes
    BY <1>10, OnlyOneGoes DEF Claim, Places
  <2>2. CASE Of(r) = c
    <3>1. Claims(c)' = Claims(c) + 1
      BY <1>10, <2>2 DEF Claim, Claimable, Claims, PaidTypeOK
    <3>2. Holders(c)' \subseteq Holders(c) \cup {r}
      BY <2>1 DEF Holders, Holding, Of, At
    <3>3. Cardinality(Holders(c)') <= Cardinality(Holders(c)) + 1
      BY <1>2, <3>2, HoldersGrow
    <3> QED BY <1>1, <1>2, <3>1, <3>3
  <2>3. CASE Of(r) # c
    <3>1. Claims(c)' = Claims(c)
      BY <1>10, <2>3 DEF Claim, Claims, PaidTypeOK
    <3>2. Holders(c)' \subseteq Holders(c)
      BY <2>1, <2>3 DEF Holders, Holding, Of, At
    <3> QED BY <1>1, <1>3, <3>1, <3>2
  <2> QED BY <2>2, <2>3
<1>11. ASSUME NEW r \in Requests,
              At(r, {"running", "settling", "settled", "marked", "refused", "unknown"}),
              \A q \in Requests : q # r => call'[q] = call[q] /\ answer'[q] = answer[q],
              \A w \in writes' \ writes : w[2] = r
       PROVE  Holders(c)' \subseteq Holders(c)
  BY <1>5, <1>11 DEF Holders, Holding, Of, At
<1>12. ASSUME NEW r \in Requests, Die(r) \/ RunSucceeds(r) \/ SettleCharge(r) \/ MarkSettled(r)
       PROVE  Cardinality(Holders(c)') <= Claims(c)'
  <2>1. \A q \in Requests : q # r => call'[q] = call[q] /\ answer'[q] = answer[q]
    <3>1. PICK place \in Places : Goes(r, place)
      BY <1>12 DEF Die, RunSucceeds, SettleCharge, MarkSettled, Places
    <3>2. answer' = answer
      BY <1>12 DEF Die, RunSucceeds, SettleCharge, MarkSettled
    <3> QED BY <3>1, <3>2, OnlyOneGoes
  <2>2. Holders(c)' \subseteq Holders(c)
    BY <1>11, <1>12, <2>1 DEF Die, RunSucceeds, SettleCharge, MarkSettled, At
  <2>3. Claims(c)' = Claims(c)
    BY <1>5, <1>6, <1>12 DEF Die, RunSucceeds, SettleCharge, MarkSettled, Awaited
  <2> QED BY <1>1, <1>3, <2>2, <2>3
<1>13. ASSUME NEW r \in Requests,
              FinishResult(r) \/ FinishFailure(r) \/ RunFails(r) \/ Withhold(r) \/ Doubt(r) \/ Respond(r)
       PROVE  Cardinality(Holders(c)') <= Claims(c)'
  <2>1. PICK what : Told(r, what)
    BY <1>13 DEF FinishResult, FinishFailure, RunFails, Withhold, Doubt, Respond
  <2>2. /\ \A q \in Requests : q # r => call'[q] = call[q] /\ answer'[q] = answer[q]
        /\ call'[r].at = "done" /\ answer'[r] = what
    BY <2>1, OnlyOneTold
  <2>3. Holders(c)' \subseteq Holders(c)
    <3>1. At(r, {"running", "settling", "settled", "marked", "refused", "unknown"})
      BY <1>13 DEF FinishResult, FinishFailure, RunFails, Withhold, Doubt, Respond, At
    <3>2. \A w \in writes' \ writes : w[2] = r
      BY <1>13 DEF FinishResult, FinishFailure, RunFails, Withhold, Doubt, Respond
    <3> QED BY <1>11, <2>2, <3>1, <3>2
  <2>4. CASE Claims(c)' = Claims(c)
    BY <1>1, <1>3, <2>3, <2>4
  <2>5. CASE (RunFails(r) \/ Withhold(r)) /\ Released(Of(r)) /\ Of(r) = c
    <3>1. answer[r] = "none" /\ writes' = writes
      BY <2>5 DEF RunFails, Withhold, At, PaidInv, AnswersInv
    <3>2. <<"release", r>> \notin writes
      BY <3>1 DEF PaidInv, AnswersInv
    <3>3. what \in {"failed", "uncharged"}
      <4>1. answer' = [answer EXCEPT ![r] = "failed"] \/ answer' = [answer EXCEPT ![r] = "uncharged"]
        BY <2>5 DEF RunFails, Withhold, Told
      <4> QED BY <2>2, <4>1 DEF PaidTypeOK
    <3>4. r \in Holders(c) /\ r \notin Holders(c)'
      BY <2>2, <2>5, <3>1, <3>2, <3>3 DEF Holders, Holding, RunFails, Withhold, At
    <3>5. Claims(c) - 1 <= Claims(c)'
      BY <1>1, <1>5, <1>7, <2>5
    <3> QED BY <1>4, <2>3, <3>4, <3>5
  <2>6. CASE (RunFails(r) \/ Withhold(r)) /\ ((Released(Of(r)) /\ Of(r) # c) \/ UNCHANGED redemption)
    BY <1>5, <1>6, <1>7, <2>4, <2>6
  <2>7. CASE FinishResult(r) \/ FinishFailure(r) \/ Respond(r) \/ Doubt(r)
    BY <1>5, <1>6, <2>4, <2>7 DEF FinishResult, FinishFailure, Respond, Doubt, Awaited
  <2> QED BY <1>13, <2>5, <2>6, <2>7 DEF RunFails, Withhold, Awaited
<1> QED
  BY <1>8, <1>9, <1>10, <1>12, <1>13 DEF PaidNext, ClaimAges, Lose, paidVars, redemption

\* A paid token buys one call, and one more for each takeover, however the
\* calls end, for any number of requests.
THEOREM OneCall == PaidSpec => []OneCallPerClaim
<1>1. PaidInit => ClaimsCover
  <2> SUFFICES ASSUME PaidInit, NEW c \in Credentials PROVE Cardinality(Holders(c)) <= Claims(c)
    BY DEF ClaimsCover
  <2>1. Holders(c) = {}
    BY DEF PaidInit, Holders, Holding, At
  <2> QED BY <2>1, FS_EmptySet DEF PaidInit, Claims
<1>2. PaidTypeOK /\ PaidInv /\ ClaimsCover /\ [PaidNext]_paidVars => ClaimsCover'
  BY CoverStep
<1>3. PaidTypeOK /\ ClaimsCover => OneCallPerClaim
  <2> SUFFICES ASSUME PaidTypeOK, ClaimsCover, NEW c \in Credentials
               PROVE  Cardinality(UsedUp(c)) <= 1 + takeovers[c]
    BY DEF OneCallPerClaim
  <2>1. UsedUp(c) \subseteq Holders(c)
    BY DEF UsedUp, Holders, Holding, At
  <2>2. Cardinality(UsedUp(c)) <= Cardinality(Holders(c)) /\ Cardinality(UsedUp(c)) \in Nat
    BY <2>1, HoldersFinite, FS_Subset, FS_CardinalityType
  <2>3. Claims(c) <= 1 + takeovers[c] /\ Claims(c) \in Nat
    BY ClaimsType DEF Claims, PaidTypeOK
  <2> QED BY <2>2, <2>3, HoldersFinite DEF ClaimsCover, PaidTypeOK
<1> QED BY <1>1, <1>2, <1>3, PaidTyped, PaidInvHolds, PTL DEF PaidSpec

---------------------------------------------------------------------------
---------------------------------------------------------------------------
(* x402.                                                                 *)

CallPlaces == {"idle", "verified", "ran", "recording", "answered", "done"}
Headers == {"none", "success", "refused", "timeout"}
Records ==
  [key : {<<"tx", a, s>> : a \in Authorizations, s \in Spellings} \cup
         {<<"req", k>> : k \in Calls \cup Passes},
   of : Authorizations, hashed : BOOLEAN, status : {"succeeded", "failed"}]

X402TypeOK ==
  /\ onChain \subseteq Authorizations
  /\ paid \in [Calls -> [at : CallPlaces, of : Authorizations, header : Headers]]
  /\ durable \subseteq Calls /\ unwaited \subseteq Calls
  /\ rows \subseteq Records
  /\ pass \in [Passes -> [at : {"idle", "missing", "verified", "done"}, of : Authorizations,
                          spelling : Spellings,
                          told : {"nothing", "duplicate", "rejected", "reconciled"}]]

\* The key of a row tells whether it has a hash, and of which transaction;
\* it is the row's own; a succeeded row has a hash and is of a transaction
\* on the chain.
KeyFits(x) ==
  /\ x.hashed => \E s \in Spellings : x.key = <<"tx", x.of, s>>
  /\ ~x.hashed => \E k \in Calls : x.key = <<"req", k>>

RowsInv ==
  /\ \A x \in rows : KeyFits(x)
  /\ \A x, y \in rows : x.key = y.key => x = y
  /\ \A x \in rows : x.status = "succeeded" => x.hashed /\ x.of \in onChain

\* Only what was settled is recorded before the answer, and what a caller
\* or a reconciliation saw settled is on the chain.
CallsInv ==
  /\ \A k \in Calls : paid[k].header = "success" => paid[k].of \in onChain
  /\ \A k \in Calls : paid[k].at = "recording" => paid[k].header = "success"
  /\ \A q \in Passes : pass[q].at = "verified" => pass[q].of \in onChain

---------------------------------------------------------------------------
(* Lemmas about the ledger.                                                *)

\* The fields of a row.
LEMMA RowFields ==
  ASSUME NEW key, NEW a, NEW hashed, NEW status
  PROVE  /\ RevenueRow(key, a, hashed, status).key = key
         /\ RevenueRow(key, a, hashed, status).of = a
         /\ RevenueRow(key, a, hashed, status).hashed = hashed
         /\ RevenueRow(key, a, hashed, status).status = status
BY DEF RevenueRow

\* The row that a reconciliation imports.
Imported(a, s, q) == RevenueRow(DedupeKey(TRUE, a, s, q), a, TRUE, "succeeded")

\* It is a well-formed row with the key of its hash.
LEMMA ImportedRow ==
  ASSUME NEW a \in Authorizations, NEW s \in Spellings, NEW q \in Passes
  PROVE  /\ Imported(a, s, q) \in Records
         /\ Imported(a, s, q).of = a
         /\ Imported(a, s, q).hashed
         /\ Imported(a, s, q).key = <<"tx", a, s>>
<1>1. Imported(a, s, q) =
        [key |-> <<"tx", a, s>>, of |-> a, hashed |-> TRUE, status |-> "succeeded"]
  BY DEF Imported, RevenueRow, DedupeKey
<1>2. <<"tx", a, s>> \in {<<"tx", b, t>> : b \in Authorizations, t \in Spellings} \cup
                         {<<"req", k>> : k \in Calls \cup Passes}
  OBVIOUS
<1>3. Imported(a, s, q) \in Records
  BY <1>1, <1>2 DEF Records
<1>4. Imported(a, s, q).of = a /\ Imported(a, s, q).key = <<"tx", a, s>>
  BY <1>1
<1>5. Imported(a, s, q).hashed
  BY <1>1
<1> QED BY <1>3, <1>4, <1>5

\* A settlement that a call records is a well-formed row with its key.
LEMMA SettlementIsRecord ==
  ASSUME X402TypeOK, NEW k \in Calls
  PROVE  /\ Settlement(k) \in Records
         /\ Settlement(k).of = paid[k].of
         /\ Settlement(k).hashed <=> paid[k].header # "refused"
         /\ Settlement(k).status = "succeeded" <=> paid[k].header = "success"
         /\ Settlement(k).hashed => Settlement(k).key = <<"tx", paid[k].of, "lower">>
         /\ ~Settlement(k).hashed => Settlement(k).key = <<"req", k>>
<1> DEFINE hashed == paid[k].header # "refused"
           status == IF paid[k].header = "success" THEN "succeeded" ELSE "failed"
           key == DedupeKey(hashed, paid[k].of, "lower", k)
<1>1. Settlement(k) = RevenueRow(key, paid[k].of, hashed, status)
  BY DEF Settlement
<1>2. key = IF hashed THEN <<"tx", paid[k].of, "lower">> ELSE <<"req", k>>
  BY DEF DedupeKey
<1>3. paid[k].of \in Authorizations
  BY DEF X402TypeOK
<1>4. key \in {<<"tx", a, s>> : a \in Authorizations, s \in Spellings} \cup
             {<<"req", j>> : j \in Calls \cup Passes}
  BY <1>2, <1>3, X402Assumption
<1>5. hashed \in BOOLEAN /\ status \in {"succeeded", "failed"}
  OBVIOUS
<1>6. RevenueRow(key, paid[k].of, hashed, status) \in Records
  <2> HIDE DEF key, hashed, status
  <2> QED BY <1>3, <1>4, <1>5 DEF Records, RevenueRow
<1>7. /\ Settlement(k).key = key /\ Settlement(k).of = paid[k].of
      /\ Settlement(k).hashed = hashed /\ Settlement(k).status = status
  <2> HIDE DEF key, hashed, status
  <2> QED BY <1>1, RowFields
<1>8. /\ Settlement(k).hashed <=> paid[k].header # "refused"
      /\ Settlement(k).status = "succeeded" <=> paid[k].header = "success"
  BY <1>7
<1>9. /\ Settlement(k).hashed => Settlement(k).key = <<"tx", paid[k].of, "lower">>
      /\ ~Settlement(k).hashed => Settlement(k).key = <<"req", k>>
  BY <1>2, <1>7
<1> QED BY <1>1, <1>6, <1>7, <1>8, <1>9

\* Types are kept.
LEMMA X402TypeStep ==
  ASSUME X402TypeOK, [X402Next]_x402Vars
  PROVE  X402TypeOK'
<1>1. ASSUME NEW row \in Records, Insert(row) PROVE rows' \subseteq Records
  BY <1>1 DEF Insert, X402TypeOK
<1>2. CASE UNCHANGED x402Vars
  BY <1>2 DEF X402TypeOK, x402Vars
<1>3. ASSUME NEW k \in Calls, VerifyPayment(k) PROVE X402TypeOK'
  BY <1>3 DEF X402TypeOK, VerifyPayment, Moves, CallPlaces
<1>4. ASSUME NEW k \in Calls, SettlePayment(k) PROVE X402TypeOK'
  <2>1. PICK header \in {"success", "refused", "timeout"} :
          /\ onChain' \in {onChain, onChain \cup {paid[k].of}}
          /\ paid' = [paid EXCEPT ![k].header = header,
                                  ![k].at = IF @ = "ran" \/ header # "success" THEN "answered" ELSE @]
    BY <1>4 DEF SettlePayment
  <2> DEFINE at == IF paid[k].at = "ran" \/ header # "success" THEN "answered" ELSE paid[k].at
  <2>2. /\ paid[k] \in [at : CallPlaces, of : Authorizations, header : Headers]
        /\ at \in CallPlaces /\ header \in Headers
    BY DEF X402TypeOK, CallPlaces, Headers
  <2>3. paid' = [paid EXCEPT ![k] = [[paid[k] EXCEPT !.header = header] EXCEPT !.at = at]]
    BY <2>1
  <2> HIDE DEF at
  <2>4. paid' \in [Calls -> [at : CallPlaces, of : Authorizations, header : Headers]]
    BY <2>2, <2>3 DEF X402TypeOK
  <2> QED BY <1>4, <2>1, <2>4 DEF X402TypeOK, SettlePayment
<1>5. ASSUME NEW k \in Calls, Run(k) PROVE X402TypeOK'
  BY <1>5 DEF X402TypeOK, Run, Moves, CallPlaces
<1>6. ASSUME NEW k \in Calls, RecordDurably(k) PROVE X402TypeOK'
  <2>1. rows' \subseteq Records
    BY <1>1, <1>6, SettlementIsRecord DEF RecordDurably, X402TypeOK
  <2> QED BY <1>6, <2>1 DEF X402TypeOK, RecordDurably, Moves, CallPlaces
<1>7. ASSUME NEW k \in Calls, Observe(k) PROVE X402TypeOK'
  BY <1>7 DEF X402TypeOK, Observe, Moves, CallPlaces
<1>8. ASSUME NEW k \in Calls, WriteUnwaited(k) PROVE X402TypeOK'
  <2>1. rows' \subseteq Records
    BY <1>1, <1>8, SettlementIsRecord DEF WriteUnwaited, X402TypeOK
  <2> QED BY <1>8, <2>1 DEF X402TypeOK, WriteUnwaited
<1>9. ASSUME NEW q \in Passes, FindRow(q) PROVE X402TypeOK'
  BY <1>9 DEF X402TypeOK, FindRow, Tells
<1>10. ASSUME NEW q \in Passes, VerifyOnChain(q) PROVE X402TypeOK'
  BY <1>10 DEF X402TypeOK, VerifyOnChain, Tells
<1>11. ASSUME NEW q \in Passes, Import(q) PROVE X402TypeOK'
  <2>1. RevenueRow(DedupeKey(TRUE, pass[q].of, pass[q].spelling, q), pass[q].of, TRUE, "succeeded") \in Records
    BY DEF X402TypeOK, RevenueRow, DedupeKey, Records
  <2>2. rows' \subseteq Records
    BY <1>1, <1>11, <2>1 DEF Import
  <2> DEFINE There == [pass[q] EXCEPT !.at = "done", !.told = "reconciled"]
             Types == [at : {"idle", "missing", "verified", "done"}, of : Authorizations,
                       spelling : Spellings,
                       told : {"nothing", "duplicate", "rejected", "reconciled"}]
  <2>3. pass \in [Passes -> Types] /\ There \in Types
    BY DEF X402TypeOK
  <2>4. pass' = [pass EXCEPT ![q] = There]
    BY <1>11 DEF Import, Tells
  <2> HIDE DEF There, Types
  <2>5. pass' \in [Passes -> Types]
    BY <2>3, <2>4
  <2> QED BY <1>11, <2>2, <2>5 DEF X402TypeOK, Import, Types
<1> QED
  BY <1>2, <1>3, <1>4, <1>5, <1>6, <1>7, <1>8, <1>9, <1>10, <1>11 DEF X402Next

\* The types of the recording (app.ts, settlementCapture.ts, reconcileX402.ts).
THEOREM X402Typed == X402Spec => []X402TypeOK
<1>1. X402Init => X402TypeOK
  BY DEF X402Init, X402TypeOK, CallPlaces, Headers
<1> QED BY <1>1, X402TypeStep, PTL DEF X402Spec

\* What inserting a row with its own key does: nothing is lost, its key is
\* on record, and the rows stay as RowsInv wants them.
LEMMA InsertKeeps ==
  ASSUME NEW row \in Records, X402TypeOK, RowsInv, Insert(row), onChain \subseteq onChain',
         KeyFits(row),
         row.status = "succeeded" => row.hashed /\ row.of \in onChain'
  PROVE  /\ RowsInv' /\ rows \subseteq rows'
         /\ \E x \in rows' : x.key = row.key
<1>1. CASE rows' = rows /\ \E x \in rows : x.key = row.key
  BY <1>1 DEF RowsInv
<1>2. CASE rows' = rows \cup {row} /\ ~\E x \in rows : x.key = row.key
  BY <1>2 DEF RowsInv
<1> QED BY <1>1, <1>2 DEF Insert

---------------------------------------------------------------------------
(* The invariant.                                                          *)

\* A step keeps the invariant of the rows and of the calls, and only adds
\* rows.
LEMMA RowsStep ==
  ASSUME X402TypeOK, RowsInv, CallsInv, [X402Next]_x402Vars
  PROVE  RowsInv' /\ CallsInv' /\ rows \subseteq rows'
<1>1. ASSUME NEW k \in Calls, Insert(Settlement(k)), UNCHANGED onChain
      PROVE  RowsInv' /\ rows \subseteq rows'
  <2>1. KeyFits(Settlement(k))
    BY SettlementIsRecord, X402Assumption DEF KeyFits
  <2>2. Settlement(k).status = "succeeded" => Settlement(k).hashed /\ Settlement(k).of \in onChain'
    BY <1>1, SettlementIsRecord DEF CallsInv
  <2> QED BY <1>1, <2>1, <2>2, SettlementIsRecord, InsertKeeps
<1>2. CASE UNCHANGED x402Vars
  BY <1>2 DEF RowsInv, CallsInv, KeyFits, x402Vars
<1>3. ASSUME NEW k \in Calls, VerifyPayment(k) PROVE RowsInv' /\ CallsInv' /\ rows \subseteq rows'
  BY <1>3 DEF VerifyPayment, Moves, RowsInv, CallsInv, KeyFits, X402TypeOK
<1>4. ASSUME NEW k \in Calls, SettlePayment(k) PROVE RowsInv' /\ CallsInv' /\ rows \subseteq rows'
  <2>1. PICK header \in {"success", "refused", "timeout"} :
          /\ onChain \subseteq onChain' /\ header = "success" => paid[k].of \in onChain'
          /\ paid' = [paid EXCEPT ![k].header = header,
                                  ![k].at = IF @ = "ran" \/ header # "success" THEN "answered" ELSE @]
    BY <1>4 DEF SettlePayment
  <2>2. RowsInv' /\ rows \subseteq rows'
    BY <1>4, <2>1 DEF SettlePayment, RowsInv, KeyFits
  <2>3. CallsInv'
    BY <1>4, <2>1 DEF SettlePayment, CallsInv, X402TypeOK
  <2> QED BY <2>2, <2>3
<1>5. ASSUME NEW k \in Calls, Run(k) PROVE RowsInv' /\ CallsInv' /\ rows \subseteq rows'
  BY <1>5 DEF Run, Moves, RowsInv, CallsInv, KeyFits, X402TypeOK
<1>6. ASSUME NEW k \in Calls, RecordDurably(k) PROVE RowsInv' /\ CallsInv' /\ rows \subseteq rows'
  <2>1. RowsInv' /\ rows \subseteq rows'
    BY <1>1, <1>6 DEF RecordDurably, RowsInv, KeyFits
  <2>2. CallsInv'
    BY <1>6 DEF RecordDurably, Moves, CallsInv, X402TypeOK
  <2> QED BY <2>1, <2>2
<1>7. ASSUME NEW k \in Calls, Observe(k) PROVE RowsInv' /\ CallsInv' /\ rows \subseteq rows'
  BY <1>7 DEF Observe, Moves, RowsInv, CallsInv, KeyFits, X402TypeOK
<1>8. ASSUME NEW k \in Calls, WriteUnwaited(k) PROVE RowsInv' /\ CallsInv' /\ rows \subseteq rows'
  <2>1. RowsInv' /\ rows \subseteq rows'
    BY <1>1, <1>8 DEF WriteUnwaited, RowsInv, KeyFits
  <2> QED BY <1>8, <2>1 DEF WriteUnwaited, CallsInv
<1>9. ASSUME NEW q \in Passes, FindRow(q) PROVE RowsInv' /\ CallsInv' /\ rows \subseteq rows'
  BY <1>9 DEF FindRow, Tells, RowsInv, CallsInv, KeyFits, X402TypeOK
<1>10. ASSUME NEW q \in Passes, VerifyOnChain(q) PROVE RowsInv' /\ CallsInv' /\ rows \subseteq rows'
  BY <1>10 DEF VerifyOnChain, Tells, RowsInv, CallsInv, KeyFits, X402TypeOK
<1>11. ASSUME NEW q \in Passes, Import(q) PROVE RowsInv' /\ CallsInv' /\ rows \subseteq rows'
  <2> DEFINE row == Imported(pass[q].of, pass[q].spelling, q)
  <2>1. pass[q].of \in Authorizations /\ pass[q].spelling \in Spellings
    BY DEF X402TypeOK
  <2>2. Insert(row) /\ pass[q].of \in onChain /\ UNCHANGED <<onChain, paid>>
    BY <1>11 DEF Import, CallsInv, Imported
  <2>3. /\ row \in Records /\ row.of = pass[q].of /\ row.hashed
        /\ row.key = <<"tx", pass[q].of, pass[q].spelling>>
    BY <2>1, ImportedRow
  <2> HIDE DEF row
  <2>4. KeyFits(row) /\ row.of \in onChain'
    BY <2>1, <2>2, <2>3 DEF KeyFits
  <2>5. RowsInv' /\ rows \subseteq rows'
    BY <2>2, <2>3, <2>4, InsertKeeps
  <2>6. CallsInv'
    BY <1>11 DEF Import, Tells, CallsInv, X402TypeOK
  <2> QED BY <2>5, <2>6
<1> QED
  BY <1>2, <1>3, <1>4, <1>5, <1>6, <1>7, <1>8, <1>9, <1>10, <1>11 DEF X402Next

RevenueInv == X402TypeOK /\ RowsInv /\ CallsInv

LEMMA RevenueInvHolds == X402Spec => []RevenueInv
<1>1. X402Init => RevenueInv
  BY DEF X402Init, RevenueInv, X402TypeOK, RowsInv, CallsInv, CallPlaces, Headers
<1>2. RevenueInv /\ [X402Next]_x402Vars => RevenueInv'
  BY X402TypeStep, RowsStep DEF RevenueInv
<1> QED BY <1>1, <1>2, PTL DEF X402Spec

---------------------------------------------------------------------------
(* The theorems.                                                           *)

\* Where a hash is always spelled in one way, a transaction is revenue at
\* most once, and only if it is on the chain (idempotency.ts,
\* reconcileX402.ts).
THEOREM RevenueOnce ==
  ASSUME Spellings = {"lower"}
  PROVE  X402Spec => []RevenueIsSettledOnce
<1>1. RevenueInv => RevenueIsSettledOnce
  <2> SUFFICES ASSUME RevenueInv, NEW a \in Authorizations
               PROVE  /\ \A x, y \in Succeeded(a) : x = y
                      /\ Succeeded(a) # {} => a \in onChain
    BY DEF RevenueIsSettledOnce
  <2>1. ASSUME NEW x \in Succeeded(a) PROVE x \in rows /\ x.key = <<"tx", a, "lower">> /\ a \in onChain
    BY <2>1 DEF Succeeded, RevenueInv, RowsInv, KeyFits
  <2> QED BY <2>1 DEF RevenueInv, RowsInv
<1> QED BY <1>1, RevenueInvHolds, PTL

\* A row of transaction a.
HasRow(R, a) == \E x \in R : x.hashed /\ x.of = a

\* An inserted row with a hash is on record, whether it was there before.
LEMMA InsertedHasRow ==
  ASSUME NEW row \in Records, X402TypeOK, X402TypeOK', RowsInv, Insert(row),
         onChain \subseteq onChain', KeyFits(row), row.hashed,
         row.status = "succeeded" => row.of \in onChain'
  PROVE  HasRow(rows', row.of)
<1>1. PICK x \in rows' : x.key = row.key
  BY InsertKeeps
<1>2. RowsInv' /\ x \in Records
  BY InsertKeeps DEF X402TypeOK
<1>3. PICK s \in Spellings : x.key = <<"tx", row.of, s>>
  BY <1>1 DEF KeyFits
<1>4. row.of \in Authorizations
  BY DEF Records
<1>5. ASSUME NEW k \in Calls PROVE <<"req", k>> # <<"tx", row.of, s>>
  <2>1. <<"req", k>>[1] = "req" /\ <<"tx", row.of, s>>[1] = "tx"
    OBVIOUS
  <2> QED BY <2>1
<1>6. x.hashed
  BY <1>2, <1>3, <1>5 DEF RowsInv, KeyFits, Records
<1>7. PICK t \in Spellings : x.key = <<"tx", x.of, t>>
  BY <1>2, <1>6 DEF RowsInv, KeyFits
<1> QED BY <1>3, <1>6, <1>7 DEF HasRow

\* What was reported as recorded is on record: the flag of a call (app.ts),
\* and the answer of a reconciliation.
THEOREM ReportedRecorded == X402Spec => []ReportedIsOnRecord
<1> DEFINE CallsRecorded == \A k \in durable : HasRow(rows, paid[k].of)
           PassesRecorded == \A q \in Passes :
             pass[q].told \in {"duplicate", "reconciled"} => HasRow(rows, pass[q].of)
<1>0. ReportedIsOnRecord <=> CallsRecorded /\ PassesRecorded
  BY DEF ReportedIsOnRecord, HasRow
<1>1. X402Init => CallsRecorded /\ PassesRecorded
  BY DEF X402Init
<1>2. ASSUME RevenueInv, CallsRecorded, PassesRecorded, [X402Next]_x402Vars
      PROVE  CallsRecorded' /\ PassesRecorded'
  <2>1. X402TypeOK /\ RowsInv /\ CallsInv /\ X402TypeOK' /\ rows \subseteq rows'
    BY <1>2, X402TypeStep, RowsStep DEF RevenueInv
  <2>2. \A a : HasRow(rows, a) => HasRow(rows', a)
    BY <2>1 DEF HasRow
  <2>3. \A k \in Calls : paid'[k].of = paid[k].of
    <3>1. CASE paid' = paid
      BY <3>1
    <3>2. ASSUME NEW k \in Calls, SettlePayment(k) PROVE \A j \in Calls : paid'[j].of = paid[j].of
      BY <2>1, <3>2 DEF SettlePayment, X402TypeOK
    <3>3. ASSUME NEW k \in Calls, VerifyPayment(k) \/ Run(k) \/ RecordDurably(k) \/ Observe(k)
          PROVE  \A j \in Calls : paid'[j].of = paid[j].of
      BY <2>1, <3>3 DEF VerifyPayment, Run, RecordDurably, Observe, Moves, X402TypeOK
    <3> QED
      BY <1>2, <3>1, <3>2, <3>3 DEF X402Next, x402Vars, WriteUnwaited, FindRow, VerifyOnChain, Import
  <2>4. CallsRecorded'
    <3>1. CASE durable' = durable
      BY <1>2, <2>1, <2>2, <2>3, <3>1 DEF X402TypeOK
    <3>2. ASSUME NEW k \in Calls, RecordDurably(k), durable' = durable \cup {k}, Insert(Settlement(k))
          PROVE  CallsRecorded'
      <4>1. paid[k].header = "success" /\ paid[k].of \in onChain /\ onChain' = onChain
        BY <2>1, <3>2 DEF RecordDurably, CallsInv
      <4>2. Settlement(k).hashed /\ Settlement(k).of = paid[k].of /\ Settlement(k) \in Records
        BY <2>1, <4>1, SettlementIsRecord
      <4>3. KeyFits(Settlement(k))
        BY <2>1, <4>2, SettlementIsRecord, X402Assumption DEF KeyFits
      <4>4. HasRow(rows', paid[k].of)
        BY <2>1, <3>2, <4>1, <4>2, <4>3, InsertedHasRow
      <4> QED BY <1>2, <2>1, <2>2, <2>3, <3>2, <4>4 DEF X402TypeOK
    <3>3. durable' = durable \/ \E k \in Calls :
            RecordDurably(k) /\ durable' = durable \cup {k} /\ Insert(Settlement(k))
      BY <1>2 DEF X402Next, x402Vars, VerifyPayment, SettlePayment, Run, RecordDurably, Observe,
                  WriteUnwaited, FindRow, VerifyOnChain, Import
    <3> QED BY <3>1, <3>2, <3>3
  <2>5. PassesRecorded'
    <3>1. CASE pass' = pass
      BY <1>2, <2>2, <3>1
    <3>2. ASSUME NEW q \in Passes, FindRow(q) PROVE PassesRecorded'
      <4>1. \A r \in Passes : pass'[r].of = pass[r].of /\ (r # q => pass'[r] = pass[r])
        BY <2>1, <3>2 DEF FindRow, Tells, X402TypeOK
      <4>2. pass'[q].told = pass[q].told \/ HasRow(rows, pass[q].of)
        BY <2>1, <3>2 DEF FindRow, Tells, X402TypeOK, HasRow
      <4> QED BY <1>2, <2>2, <4>1, <4>2
    <3>3. ASSUME NEW q \in Passes, VerifyOnChain(q) PROVE PassesRecorded'
      <4>1. \A r \in Passes : pass'[r].of = pass[r].of /\ pass'[r].told \in {pass[r].told, "rejected"}
        BY <2>1, <3>3 DEF VerifyOnChain, Tells, X402TypeOK
      <4> QED BY <1>2, <2>2, <4>1
    <3>4. ASSUME NEW q \in Passes, Import(q) PROVE PassesRecorded'
      <4> DEFINE row == Imported(pass[q].of, pass[q].spelling, q)
      <4>1. /\ Insert(row) /\ pass[q].of \in onChain /\ onChain' = onChain
            /\ pass[q].of \in Authorizations /\ pass[q].spelling \in Spellings
        BY <2>1, <3>4 DEF Import, CallsInv, X402TypeOK, Imported
      <4>2. /\ row \in Records /\ row.of = pass[q].of /\ row.hashed
            /\ row.key = <<"tx", pass[q].of, pass[q].spelling>>
        BY <4>1, ImportedRow
      <4> HIDE DEF row
      <4>3. KeyFits(row)
        BY <4>1, <4>2 DEF KeyFits
      <4>4. HasRow(rows', pass[q].of)
        BY <2>1, <4>1, <4>2, <4>3, InsertedHasRow
      <4>5. \A r \in Passes : pass'[r].of = pass[r].of /\ (r # q => pass'[r] = pass[r])
        BY <2>1, <3>4 DEF Import, Tells, X402TypeOK
      <4> QED BY <1>2, <2>2, <4>4, <4>5
    <3> QED
      BY <1>2, <3>1, <3>2, <3>3, <3>4 DEF X402Next, x402Vars, VerifyPayment, SettlePayment, Run,
         RecordDurably, Observe, WriteUnwaited
  <2> QED BY <2>4, <2>5
<1> HIDE DEF CallsRecorded, PassesRecorded
<1> QED BY <1>0, <1>1, <1>2, RevenueInvHolds, PTL DEF X402Spec
=============================================================================

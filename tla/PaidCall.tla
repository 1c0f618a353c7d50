------------------------------ MODULE PaidCall ------------------------------
(***************************************************************************)
(* Single-use payments: an L402 token (src/src/billing/l402) or an MPP     *)
(* charge credential (src/src/billing/mpp/service.ts, charge) is claimed   *)
(* in a table, buys one run of a capability, and is redeemed or released.  *)
(*                                                                         *)
(* A Lightning token is paid before it is presented: its call answers and  *)
(* then, on the "finish" event, writes the table and the revenue ledger    *)
(* without waiting.  A charge credential is only signed: its call runs,    *)
(* settles with the provider, writes, and answers.                         *)
(*                                                                         *)
(* A claim older than five minutes may be taken over, whether its call is  *)
(* dead or slow.  A call may die at any await, or lose its client; a write *)
(* may be lost or come late; the answer of the provider may be lost after  *)
(* the money moved.                                                        *)
(***************************************************************************)
EXTENDS Integers, FiniteSets

CONSTANTS
  Credentials,  \* verified tokens and charge credentials
  Lightning,    \* those that are L402 tokens
  Requests      \* calls that present one; a retry is another request

ASSUME PaidCallAssumption == Lightning \subseteq Credentials /\ IsFiniteSet(Requests)

VARIABLES
  claim,      \* rafid_l402_redemptions, mpp_charge_redemptions: status
  aged,       \* credentials whose claim is older than five minutes
  moved,      \* credentials whose money has reached the merchant
  call,       \* where each request is, and its credential
  answer,     \* what its client was told
  writes,     \* writes that nobody waits for
  booked,     \* credentials with a row in the revenue ledger
  takeovers   \* history: claims taken over, of each credential

redemption == <<claim, aged, takeovers>>
paidVars == <<redemption, moved, call, answer, writes, booked>>

Places == {"idle", "running", "settling", "settled", "marked", "refused", "unknown", "done", "dead"}

PaidInit ==
  /\ claim = [c \in Credentials |-> "none"] /\ aged = {}
  /\ takeovers = [c \in Credentials |-> 0]
  /\ moved = Lightning
  /\ call \in [Requests -> [at : {"idle"}, of : Credentials]]
  /\ answer = [r \in Requests |-> "none"]
  /\ writes = {} /\ booked = {}

Of(r) == call[r].of
At(r, places) == call[r].at \in places
Goes(r, place) == call' = [call EXCEPT ![r].at = place]
Told(r, what) == Goes(r, "done") /\ answer' = [answer EXCEPT ![r] = what]

---------------------------------------------------------------------------
(* The redemption table.  Only the status decides; a write does not know   *)
(* whose claim it changes.                                                 *)

Claimable(c) == claim[c] = "none" \/ (claim[c] = "in_flight" /\ c \in aged)

Claim(r) ==
  LET c == Of(r) IN
  /\ At(r, {"idle"}) /\ Claimable(c)
  /\ claim' = [claim EXCEPT ![c] = "in_flight"] /\ aged' = aged \ {c}
  /\ takeovers' = [takeovers EXCEPT ![c] = IF claim[c] = "none" THEN @ ELSE @ + 1]
  /\ Goes(r, "running")
  /\ UNCHANGED <<moved, answer, writes, booked>>

ClaimAges(c) ==
  /\ claim[c] = "in_flight" /\ aged' = aged \cup {c}
  /\ UNCHANGED <<claim, takeovers, moved, call, answer, writes, booked>>

\* markRedeemed: whatever the row says, if there is one.
Redeemed(c) ==
  /\ claim' = [claim EXCEPT ![c] = IF @ = "none" THEN @ ELSE "redeemed"]
  /\ aged' = aged \ {c} /\ UNCHANGED takeovers

\* Mutant: deletes whatever row there is.
ReleasedAnything(c) ==
  /\ claim' = [claim EXCEPT ![c] = "none"] /\ aged' = aged \ {c} /\ UNCHANGED takeovers

\* release: deletes a row in flight.
Released(c) ==
  /\ claim' = [claim EXCEPT ![c] = IF @ = "in_flight" THEN "none" ELSE @]
  /\ aged' = aged \ {c} /\ UNCHANGED takeovers

\* markSettlementUnknown
Doubted(c) ==
  /\ claim' = [claim EXCEPT ![c] = IF @ = "in_flight" THEN "settlement_unknown" ELSE @]
  /\ aged' = aged \ {c} /\ UNCHANGED takeovers

---------------------------------------------------------------------------
(* An L402 call.                                                           *)

\* Mutant: a result gives its claim back.
FinishReleases(r) ==
  /\ At(r, {"running"}) /\ Of(r) \in Lightning
  /\ Told(r, "result")
  /\ writes' = writes \cup {<<"release", r>>, <<"book", r>>}
  /\ UNCHANGED <<redemption, moved, booked>>

\* A successful response finishes: redeem and book, not waited for.
FinishResult(r) ==
  /\ At(r, {"running"}) /\ Of(r) \in Lightning
  /\ Told(r, "result")
  /\ writes' = writes \cup {<<"redeem", r>>, <<"book", r>>}
  /\ UNCHANGED <<redemption, moved, booked>>

\* Mutant: redeems whatever the status is.
FinishRedeems(r) ==
  /\ At(r, {"running"}) /\ Of(r) \in Lightning
  /\ Told(r, "failed")
  /\ writes' = writes \cup {<<"redeem", r>>}
  /\ UNCHANGED <<redemption, moved, booked>>

\* A response of 400 or above finishes: release, not waited for.
FinishFailure(r) ==
  /\ At(r, {"running"}) /\ Of(r) \in Lightning
  /\ Told(r, "failed")
  /\ writes' = writes \cup {<<"release", r>>}
  /\ UNCHANGED <<redemption, moved, booked>>

\* A write that nobody waits for takes effect, some time, or is lost.
Perform(w) ==
  LET c == Of(w[2]) IN
  /\ w \in writes /\ writes' = writes \ {w}
  /\ \/ w[1] = "redeem" /\ Redeemed(c) /\ UNCHANGED booked
     \/ w[1] = "release" /\ Released(c) /\ UNCHANGED booked
     \/ w[1] = "book" /\ booked' = booked \cup {c} /\ UNCHANGED redemption
  /\ UNCHANGED <<moved, call, answer>>

Lose(w) ==
  /\ w \in writes /\ writes' = writes \ {w}
  /\ UNCHANGED <<redemption, moved, call, answer, booked>>

---------------------------------------------------------------------------
(* An MPP charge.  Its writes are waited for, and a failing one is         *)
(* swallowed: Awaited(W) is W or nothing.                                  *)

Awaited(W) == W \/ UNCHANGED redemption

RunFails(r) ==
  /\ At(r, {"running"}) /\ Of(r) \notin Lightning
  /\ Awaited(Released(Of(r))) /\ Told(r, "failed")
  /\ UNCHANGED <<moved, writes, booked>>

RunSucceeds(r) ==
  /\ At(r, {"running"}) /\ Of(r) \notin Lightning /\ Goes(r, "settling")
  /\ UNCHANGED <<redemption, moved, answer, writes, booked>>

\* Mutant: a replayed credential counts as settled.
SettleReplayed(r) ==
  /\ At(r, {"settling"})
  /\ moved' = moved \cup {Of(r)} /\ Goes(r, "settled")
  /\ UNCHANGED <<redemption, answer, writes, booked>>

\* settleCharge: the provider moves the money of a credential once.
SettleCharge(r) ==
  LET c == Of(r) IN
  /\ At(r, {"settling"})
  /\ \/ c \notin moved /\ moved' = moved \cup {c} /\ Goes(r, "settled")
     \/ moved' = moved /\ Goes(r, "refused")            \* refused or replayed
     \/ moved' \in {moved, moved \cup {c}} /\ Goes(r, "unknown")  \* unavailable
  /\ UNCHANGED <<redemption, answer, writes, booked>>

MarkSettled(r) ==
  /\ At(r, {"settled"})
  /\ Awaited(Redeemed(Of(r))) /\ Goes(r, "marked")
  /\ writes' = writes \cup {<<"book", r>>}
  /\ UNCHANGED <<moved, answer, booked>>

Respond(r) ==
  /\ At(r, {"marked"}) /\ Told(r, "result")
  /\ UNCHANGED <<redemption, moved, writes, booked>>

\* The result is withheld: "nothing was charged".
Withhold(r) ==
  /\ At(r, {"refused"}) /\ Awaited(Released(Of(r))) /\ Told(r, "uncharged")
  /\ UNCHANGED <<moved, writes, booked>>

\* The result is withheld: "check your wallet".
Doubt(r) ==
  /\ At(r, {"unknown"}) /\ Awaited(Doubted(Of(r))) /\ Told(r, "unconfirmed")
  /\ UNCHANGED <<moved, writes, booked>>

\* The process dies, or the client of a token goes before the response has
\* finished: no event, no write.
Die(r) ==
  /\ At(r, {"running", "settling", "settled", "marked", "refused", "unknown"})
  /\ Goes(r, "dead")
  /\ UNCHANGED <<redemption, moved, answer, writes, booked>>

PaidNext ==
  \/ \E c \in Credentials : ClaimAges(c)
  \/ \E w \in writes : Perform(w) \/ Lose(w)
  \/ \E r \in Requests :
       \/ Claim(r) \/ Die(r) \/ FinishResult(r) \/ FinishFailure(r)
       \/ RunFails(r) \/ RunSucceeds(r) \/ SettleCharge(r)
       \/ MarkSettled(r) \/ Respond(r) \/ Withhold(r) \/ Doubt(r)

PaidSpec == PaidInit /\ [][PaidNext]_paidVars

---------------------------------------------------------------------------
(* Properties.                                                             *)

\* Types; booked, moved and aged are about credentials.
PaidTypeOK ==
  /\ claim \in [Credentials -> {"none", "in_flight", "redeemed", "settlement_unknown"}]
  /\ {aged, moved, booked} \subseteq SUBSET Credentials
  /\ takeovers \in [Credentials -> Nat]
  /\ call \in [Requests -> [at : Places, of : Credentials]]
  /\ answer \in [Requests -> {"none", "result", "failed", "uncharged", "unconfirmed"}]
  /\ writes \subseteq {"redeem", "release", "book"} \X Requests

\* Calls that used their claim up: served, in doubt, or dead with it.
UsedUp(c) ==
  {r \in Requests : Of(r) = c /\ (answer[r] \in {"result", "unconfirmed"} \/ At(r, {"dead"}))}

\* "One paid token buys one successful call" (gate.ts): a second call of a
\* credential that is served, left in doubt or dies is paid for by a claim
\* that was taken over after five minutes, whatever slow calls release, and
\* whatever writes are lost or find no row.
OneCallPerClaim ==
  \A c \in Credentials : Cardinality(UsedUp(c)) <= 1 + takeovers[c]

\* A charge credential is settled for at most one call, and every result
\* it buys is settled: a replayed, refused or unknown settlement never
\* hands over a result (service.ts, charge).
ResultsAreSettled ==
  \A r, s \in Requests :
    LET Paid(q) == Of(q) \notin Lightning /\ (At(q, {"settled", "marked"}) \/ answer[q] = "result") IN
    /\ Paid(r) => Of(r) \in moved
    /\ Paid(r) /\ Paid(s) /\ Of(r) = Of(s) => r = s

\* "Failed calls do not consume the token": a credential is redeemed only
\* after its result was handed over (L402) or its money moved (MPP), and in
\* doubt only if its client was told so.
FailuresKeepThePayment ==
  \A c \in Credentials :
    /\ claim[c] = "redeemed" =>
         IF c \in Lightning THEN \E r \in Requests : Of(r) = c /\ answer[r] = "result"
         ELSE c \in moved
    /\ claim[c] = "settlement_unknown" =>
         \E r \in Requests : Of(r) = c /\ answer[r] = "unconfirmed"

\* "redeemed and settlement_unknown claims never do [become claimable]"
\* (sessions.ts): not even by the late release of a slow call.
SpentStaysSpent ==
  [][\A c \in Credentials :
       claim[c] \in {"redeemed", "settlement_unknown"} => claim'[c] \in {claim[c], "redeemed"}]_paidVars

=============================================================================

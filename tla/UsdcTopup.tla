----------------------------- MODULE UsdcTopup -----------------------------
(***************************************************************************)
(* USDC top-ups (src/src/billing/external/service.ts, usdcTopup.ts): an    *)
(* intent reserves an exact amount for a while; its customer transfers     *)
(* that amount on chain and presents the transaction's hash, as often as   *)
(* he likes; a transfer that the chain confirms is recorded under that     *)
(* hash, marks the intent and is credited, in three steps.                 *)
(*                                                                         *)
(* A hash is the string the customer submits, and rows are looked up and   *)
(* unique by it (service.ts:235, schema.ts:62).  The chain is asked with   *)
(* the same string but answers about a transaction, in either case of its  *)
(* hexadecimal digits (usdcTopup.ts:112): TxOf says which one.             *)
(*                                                                         *)
(* A confirmation reads the intent once and then decides on that reading   *)
(* and on what the store and the chain answer later, while intents expire, *)
(* amounts are given out again and other confirmations do the same.        *)
(***************************************************************************)
EXTENDS Integers, FiniteSets, Functions

CONSTANTS
  Intents,       \* top-ups asked for
  Transactions,  \* on the chain
  Transfer,      \* what each moves to the receiving address, 0 if nothing
  Hashes,        \* the strings customers submit
  TxOf,          \* the transaction each of them names
  Amounts,       \* tagged amounts to choose from
  Confirms,      \* confirm requests at once
  NoHash

ASSUME TransferAssumption ==
  /\ Transfer \in [Transactions -> Nat] /\ TxOf \in [Hashes -> Transactions]
  /\ Amounts \subseteq Nat \ {0} /\ NoHash \notin Hashes

VARIABLES
  chain,     \* per transaction: "none", "mined", "confirmed" or "reverted"
  picked,    \* the amount picked for an intent that is being created
  intent,    \* rafid_topup_intents: status, amount and hash
  payment,   \* rafid_external_payments, at most one per string: status, intent
  funded,    \* billing_ledger: what was credited for each payment
  cpc,       \* where each confirmation is
  claim,     \* the intent and hash it is about, the intent's hash as read
  answer     \* what it was told last, if that promises anything

usdcVars == <<chain, picked, intent, payment, funded, cpc, claim, answer>>

NoClaim == [of |-> "none", hash |-> NoHash, stored |-> NoHash]
NoPayment == [status |-> "none", of |-> "none"]

UsdcInit ==
  /\ chain = [t \in Transactions |-> "none"]
  /\ picked = [i \in Intents |-> 0]
  /\ intent = [i \in Intents |-> [status |-> "none", amount |-> 0, hash |-> NoHash]]
  /\ payment = [h \in Hashes |-> NoPayment]
  /\ funded = [h \in Hashes |-> 0]
  /\ cpc = [r \in Confirms |-> "idle"]
  /\ claim = [r \in Confirms |-> NoClaim]
  /\ answer = [r \in Confirms |-> "none"]

---------------------------------------------------------------------------
(* The chain and the intents.                                              *)

Broadcast(t) ==
  /\ chain[t] = "none"
  /\ \E s \in {"mined", "reverted"} : chain' = [chain EXCEPT ![t] = s]
  /\ UNCHANGED <<picked, intent, payment, funded, cpc, claim, answer>>

Settle(t) ==
  /\ chain[t] = "mined"
  /\ chain' = [chain EXCEPT ![t] = "confirmed"]
  /\ UNCHANGED <<picked, intent, payment, funded, cpc, claim, answer>>

Open(a) == \E i \in Intents : intent[i].status = "pending" /\ intent[i].amount = a

\* pickUniqueUsdcAmount: no open intent has the amount when it is looked up.
PickAmount(i, a) ==
  /\ picked[i] = 0 /\ intent[i].status = "none" /\ ~Open(a)
  /\ picked' = [picked EXCEPT ![i] = a]
  /\ UNCHANGED <<chain, intent, payment, funded, cpc, claim, answer>>

\* Mutant: the insert relies on the earlier lookup.
CreateUnchecked(i) ==
  /\ picked[i] # 0
  /\ intent' = [intent EXCEPT ![i] = [status |-> "pending", amount |-> picked[i], hash |-> NoHash]]
  /\ picked' = [picked EXCEPT ![i] = 0]
  /\ UNCHANGED <<chain, payment, funded, cpc, claim, answer>>

\* createTopupIntent: the unique index on open amounts has the last word.
CreateIntent(i) ==
  /\ picked[i] # 0
  /\ IF Open(picked[i]) THEN UNCHANGED intent
     ELSE intent' = [intent EXCEPT ![i] = [status |-> "pending", amount |-> picked[i],
                                           hash |-> NoHash]]
  /\ picked' = [picked EXCEPT ![i] = 0]
  /\ UNCHANGED <<chain, payment, funded, cpc, claim, answer>>

ExpireIntent(i) ==
  /\ intent[i].status = "pending"
  /\ intent' = [intent EXCEPT ![i].status = "expired"]
  /\ UNCHANGED <<chain, picked, payment, funded, cpc, claim, answer>>

---------------------------------------------------------------------------
(* A confirmation.                                                         *)

GoTo(r, s) == cpc' = [cpc EXCEPT ![r] = s] /\ UNCHANGED <<claim, answer>>

\* An answer that promises something is remembered with what it is about.
Say(r, a) ==
  /\ cpc' = [cpc EXCEPT ![r] = "idle"]
  /\ IF a \in {"confirmed", "flagged"}
     THEN /\ answer' = [answer EXCEPT ![r] = a]
          /\ claim' = [claim EXCEPT ![r].stored = NoHash]
     ELSE /\ answer' = [answer EXCEPT ![r] = "none"]
          /\ claim' = [claim EXCEPT ![r] = NoClaim]

\* The customer of an intent asks, with a hash or with the stored one; the
\* intent's status at this moment decides the way.
Ask(r, i, given) ==
  LET stored == intent[i].hash
      h == IF given = NoHash THEN stored ELSE given
      status == intent[i].status
  IN
  /\ cpc[r] = "idle"
  /\ status \in {"pending", "expired"} /\ h # NoHash
  /\ claim' = [claim EXCEPT ![r] = [of |-> i, hash |-> h, stored |-> stored]]
  /\ cpc' = [cpc EXCEPT ![r] = IF status = "expired" THEN "late" ELSE "asked"]
  /\ answer' = [answer EXCEPT ![r] = "none"]
  /\ UNCHANGED <<chain, picked, intent, payment, funded>>

\* ... and may be the answer: of a final status, or of no hash so far.
AskFinal(r, i) ==
  /\ cpc[r] = "idle" /\ intent[i].status = "confirmed"
  /\ claim' = [claim EXCEPT ![r] = [NoClaim EXCEPT !.of = i]]
  /\ answer' = [answer EXCEPT ![r] = "confirmed"]
  /\ UNCHANGED <<chain, picked, intent, payment, funded, cpc>>

\* The hash was recorded before in this spelling, for this intent or for
\* another: the lookup compares the strings (postgresStore.ts:123).
LookUp(r) ==
  LET p == payment[claim[r].hash] IN
  /\ cpc[r] = "asked"
  /\ IF p.status = "none" THEN GoTo(r, IF claim[r].hash # claim[r].stored THEN "new" ELSE "known")
     ELSE Say(r, IF p.of = claim[r].of THEN "confirmed" ELSE "rejected")
  /\ UNCHANGED <<chain, picked, intent, payment, funded>>

StoreHash(r) ==
  /\ cpc[r] = "new"
  /\ intent' = [intent EXCEPT ![claim[r].of].hash = claim[r].hash]
  /\ GoTo(r, "known")
  /\ UNCHANGED <<chain, picked, payment, funded>>

Matches(r) == Transfer[TxOf[claim[r].hash]] = intent[claim[r].of].amount

\* Mutant: a transfer of at least the amount will do, as for a settlement.
VerifiesAtLeast(r) ==
  LET t == TxOf[claim[r].hash] IN
  CASE chain[t] = "none" -> {"rejected"}
    [] chain[t] = "reverted" -> {"rejected", "failed"}
    [] Transfer[t] < intent[claim[r].of].amount -> {"rejected"}
    [] chain[t] = "mined" -> {"pending", "rejected"}
    [] OTHER -> {"verified", "rejected"}

\* verifyUsdcTransfer: what the chain may answer.  A reverted transaction is
\* recognised only by a transfer in its receipt; an RPC error or another
\* chain's node rejects anything.
Verifies(r) ==
  LET t == TxOf[claim[r].hash] IN
  CASE chain[t] = "none" -> {"rejected"}
    [] chain[t] = "reverted" -> {"rejected", "failed"}
    [] ~Matches(r) -> {"rejected"}
    [] chain[t] = "mined" -> {"pending", "rejected"}
    [] OTHER -> {"verified", "rejected"}

Verify(r) ==
  /\ cpc[r] = "known"
  /\ \E outcome \in Verifies(r) :
       IF outcome \in {"verified", "failed"} THEN GoTo(r, outcome) ELSE Say(r, outcome)
  /\ UNCHANGED <<chain, picked, intent, payment, funded>>

\* Mutant: the outcome is written as the status.
MarkReverted(r) ==
  /\ cpc[r] = "failed"
  /\ intent' = [intent EXCEPT ![claim[r].of].status = "reverted"]
  /\ Say(r, "failed")
  /\ UNCHANGED <<chain, picked, payment, funded>>

\* The intent's status is written whatever it is by now.
MarkFailed(r) ==
  /\ cpc[r] = "failed"
  /\ intent' = [intent EXCEPT ![claim[r].of].status = "failed"]
  /\ Say(r, "failed")
  /\ UNCHANGED <<chain, picked, payment, funded>>

\* Mutant: no unique index on the hash.
RecordAgain(r) ==
  /\ cpc[r] = "verified"
  /\ payment' = [payment EXCEPT ![claim[r].hash] = [status |-> "confirmed", of |-> claim[r].of]]
  /\ GoTo(r, "recorded")
  /\ UNCHANGED <<chain, picked, intent, funded>>

\* Mutant: the intent is confirmed before the payment is recorded.
RecordMarkFirst(r) ==
  /\ cpc[r] = "verified"
  /\ intent' = [intent EXCEPT ![claim[r].of].status = "confirmed"]
  /\ GoTo(r, "recorded")
  /\ UNCHANGED <<chain, picked, payment, funded>>

\* createExternalPayment: at most one row per submitted string, whoever
\* recorded it; the unique index is case-sensitive (schema.ts:62).
Record(r) ==
  /\ cpc[r] = "verified"
  /\ IF payment[claim[r].hash].status # "none"
     THEN Say(r, "confirmed") /\ UNCHANGED payment
     ELSE /\ payment' = [payment EXCEPT ![claim[r].hash] =
                           [status |-> "confirmed", of |-> claim[r].of]]
          /\ GoTo(r, "recorded")
  /\ UNCHANGED <<chain, picked, intent, funded>>

MarkConfirmed(r) ==
  /\ cpc[r] = "recorded"
  /\ intent' = [intent EXCEPT ![claim[r].of].status = "confirmed",
                              ![claim[r].of].hash = claim[r].hash]
  /\ GoTo(r, "marked")
  /\ UNCHANGED <<chain, picked, payment, funded>>

\* fundExternalCredit, by the new payment's own id.
Credit(r) ==
  /\ cpc[r] = "marked"
  /\ funded' = [funded EXCEPT ![claim[r].hash] = @ + Transfer[TxOf[claim[r].hash]]]
  /\ Say(r, "confirmed")
  /\ UNCHANGED <<chain, picked, intent, payment>>

VerifyLate(r) ==
  /\ cpc[r] = "late"
  /\ \E outcome \in Verifies(r) :
       IF outcome = "verified" THEN GoTo(r, "found") ELSE Say(r, "expired")
  /\ UNCHANGED <<chain, picked, intent, payment, funded>>

\* handleLateUsdcConfirm: for review, unless the hash is recorded already.
RecordLate(r) ==
  /\ cpc[r] = "found"
  /\ IF payment[claim[r].hash].status # "none" THEN UNCHANGED payment
     ELSE payment' = [payment EXCEPT ![claim[r].hash] =
                        [status |-> "requires_review", of |-> claim[r].of]]
  /\ Say(r, "flagged")
  /\ UNCHANGED <<chain, picked, intent, funded>>

\* A call fails or the process dies; the customer asks again.
CrashConfirm(r) ==
  /\ cpc[r] # "idle"
  /\ Say(r, "none")
  /\ UNCHANGED <<chain, picked, intent, payment, funded>>

---------------------------------------------------------------------------
ConfirmStep(r) ==
  \/ \E i \in Intents : AskFinal(r, i) \/ \E h \in Hashes \cup {NoHash} : Ask(r, i, h)
  \/ LookUp(r) \/ StoreHash(r) \/ Verify(r) \/ MarkFailed(r)
  \/ Record(r) \/ MarkConfirmed(r) \/ Credit(r)
  \/ VerifyLate(r) \/ RecordLate(r) \/ CrashConfirm(r)

UsdcNext ==
  \/ \E t \in Transactions : Broadcast(t) \/ Settle(t)
  \/ \E i \in Intents : (\E a \in Amounts : PickAmount(i, a)) \/ CreateIntent(i) \/ ExpireIntent(i)
  \/ \E r \in Confirms : ConfirmStep(r)

UsdcSpec == UsdcInit /\ [][UsdcNext]_usdcVars

---------------------------------------------------------------------------
(* Properties.                                                             *)

Steps == {"idle", "asked", "new", "known", "verified", "failed", "recorded", "marked",
          "late", "found"}

UsdcTypeOK ==
  /\ chain \in [Transactions -> {"none", "mined", "confirmed", "reverted"}]
  /\ picked \in [Intents -> Amounts \cup {0}]
  /\ intent \in [Intents -> [status : {"none", "pending", "confirmed", "failed", "expired"},
                             amount : Amounts \cup {0}, hash : Hashes \cup {NoHash}]]
  /\ payment \in [Hashes -> [status : {"none", "confirmed", "requires_review"},
                             of : Intents \cup {"none"}]]
  /\ funded \in [Hashes -> Nat]
  /\ cpc \in [Confirms -> Steps]
  /\ claim \in [Confirms -> [of : Intents \cup {"none"}, hash : Hashes \cup {NoHash},
                             stored : Hashes \cup {NoHash}]]
  /\ answer \in [Confirms -> {"none", "confirmed", "flagged"}]

\* What the ledger has credited for a transaction, under all its spellings.
CreditedFor(t) == SumFunctionOnSet(funded, {h \in Hashes : TxOf[h] = t})

UsdcCredited == [t \in Transactions |-> CreditedFor(t)]

Deposit == INSTANCE PaymentCredit WITH
  Deposits <- Transactions,
  AmountOf <- Transfer,
  received <- {t \in Transactions : chain[t] = "confirmed"},
  credited <- UsdcCredited

\* No transaction is submitted in two spellings.
OneSpelling == \A g, h \in Hashes : TxOf[g] = TxOf[h] => g = h

(* docs/external-payments.md: one transfer funds at most one top-up, ever,
   with what the chain says it moved, and only once the chain confirms it.
   True under OneSpelling; TransferFundsOnce is what fails without it. *)
TransfersAreCreditedOnce == Deposit!Spec

(* schema.ts:8-9: an on-chain transaction hash credits at most once,
   globally.  The index holds the submitted strings, so this is a statement
   about all rows whose strings name one transaction. *)
TransferFundsOnce ==
  \A g, h \in Hashes :
    TxOf[g] = TxOf[h] /\ funded[g] # 0 /\ funded[h] # 0 => g = h

(* A credited transfer is one that its intent's customer was told to make,
   to the unit, and its row is confirmed: a late one is never credited. *)
CreditFitsIntent ==
  \A h \in Hashes : funded[h] # 0 =>
    /\ payment[h].status = "confirmed"
    /\ intent[payment[h].of].amount = Transfer[TxOf[h]]

(* At most one open intent claims an amount, although the amount is looked
   up before the intent is inserted and is given out again afterwards. *)
OpenAmountsDiffer ==
  \A i, j \in Intents :
    i # j /\ intent[i].status = "pending" /\ intent[j].status = "pending"
      => intent[i].amount # intent[j].amount

(* A customer who is told that a top-up is confirmed, or that a late transfer
   was flagged, has a row that reconciliation and an operator can find,
   whatever was recorded by others or lost in a crash. *)
ToldIsRecorded ==
  \A r \in Confirms : answer[r] # "none" =>
    \E h \in Hashes :
      /\ payment[h].status # "none"
      /\ \/ h = claim[r].hash
         \/ answer[r] = "confirmed" /\ payment[h].of = claim[r].of
=============================================================================

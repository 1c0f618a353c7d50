---------------------------- MODULE X402Revenue ----------------------------
(***************************************************************************)
(* The revenue ledger of x402 calls: the route that records a settlement   *)
(* it can see before it answers (src/src/api/app.ts), the observer of      *)
(* "finish" that records it afterwards, the dedupe key                     *)
(* (src/src/revenue/idempotency.ts), and the reconciliation that imports   *)
(* a settled transaction by its hash (src/src/revenue/reconcileX402.ts).   *)
(*                                                                         *)
(* A signed authorization is one transaction on the chain.  The payment    *)
(* middleware settles it before or after the capability runs, and puts a   *)
(* header on the response.  A process that dies is one that takes no       *)
(* further step.  Analytics events, which these steps also write, are left *)
(* out.                                                                    *)
(***************************************************************************)
EXTENDS Integers, FiniteSets

CONSTANTS
  Authorizations,  \* signed payments
  Calls,           \* HTTP calls that carry one, resent ones included
  Passes,          \* runs of the reconciliation
  Spellings        \* of one hash: hexadecimal digits have two cases

ASSUME X402Assumption == "lower" \in Spellings

VARIABLES
  onChain,   \* authorizations whose transfer is on the chain
  paid,      \* where each call is, its authorization, its settlement header
  durable,   \* calls with x402DurableSettlementRecorded
  unwaited,  \* calls whose observer is writing the ledger
  rows,      \* rafid_x402_settlements
  pass       \* where each reconciliation is, its hash, what it reported

x402Vars == <<onChain, paid, durable, unwaited, rows, pass>>

X402Init ==
  /\ onChain = {} /\ durable = {} /\ unwaited = {} /\ rows = {}
  /\ paid \in [Calls -> [at : {"idle"}, of : Authorizations, header : {"none"}]]
  /\ pass \in [Passes -> [at : {"idle"}, of : Authorizations, spelling : Spellings, told : {"nothing"}]]

Moves(k, place) == paid' = [paid EXCEPT ![k].at = place]

---------------------------------------------------------------------------
(* The ledger.                                                             *)

\* Mutant: a key per request, so that two observations of one transaction
\* have two.
RequestKey(hashed, a, spelling, k) == <<"req", k>>

\* buildSettlementDedupeKey compares the hash letter by letter.
DedupeKey(hashed, a, spelling, k) == IF hashed THEN <<"tx", a, spelling>> ELSE <<"req", k>>

RevenueRow(key, a, hashed, status) == [key |-> key, of |-> a, hashed |-> hashed, status |-> status]

\* ON CONFLICT (dedupe_key) DO NOTHING
Insert(row) == rows' = IF \E x \in rows : x.key = row.key THEN rows ELSE rows \cup {row}

\* buildSettlementRecord: a failed settlement may have broadcast nothing,
\* and then has no hash.
Settlement(k) ==
  LET p == paid[k]  hashed == p.header # "refused" IN
  RevenueRow(DedupeKey(hashed, p.of, "lower", k), p.of, hashed,
      IF p.header = "success" THEN "succeeded" ELSE "failed")

---------------------------------------------------------------------------
(* A call.                                                                 *)

\* The facilitator verifies that the authorization is good and unused.
VerifyPayment(k) ==
  /\ paid[k].at = "idle" /\ paid[k].of \notin onChain
  /\ Moves(k, "verified")
  /\ UNCHANGED <<onChain, durable, unwaited, rows, pass>>

\* The facilitator settles, once for each authorization; it refuses, or
\* gives up waiting for a transaction that may be mined all the same.
SettlePayment(k) ==
  LET a == paid[k].of IN
  /\ paid[k].at \in {"verified", "ran"} /\ paid[k].header = "none"
  /\ \E header \in {"success", "refused", "timeout"} :
       /\ header = "success" => a \notin onChain
       /\ onChain' \in IF header = "success" THEN {onChain \cup {a}}
                       ELSE IF header = "timeout" THEN {onChain, onChain \cup {a}}
                       ELSE {onChain}
       /\ paid' = [paid EXCEPT ![k].header = header,
                               ![k].at = IF @ = "ran" \/ header # "success" THEN "answered" ELSE @]
  /\ UNCHANGED <<durable, unwaited, rows, pass>>

\* The capability runs; a settlement that is already there is recorded
\* before the answer.  A failing run that was not settled costs nothing.
Run(k) ==
  /\ paid[k].at = "verified"
  /\ \/ Moves(k, IF paid[k].header = "success" THEN "recording" ELSE "ran")
     \/ Moves(k, IF paid[k].header = "success" THEN "answered" ELSE "done")
  /\ UNCHANGED <<onChain, durable, unwaited, rows, pass>>

\* Mutant: the flag is set before the writes.
RecordFlagFirst(k) ==
  /\ paid[k].at = "recording" /\ Moves(k, "answered")
  /\ durable' = durable \cup {k}
  /\ Insert(Settlement(k)) \/ UNCHANGED rows
  /\ UNCHANGED <<onChain, unwaited, pass>>

\* The row and the events are awaited; any of the writes may fail, and
\* only when none did is the flag set.
RecordDurably(k) ==
  /\ paid[k].at = "recording" /\ Moves(k, "answered")
  /\ \/ Insert(Settlement(k)) /\ durable' \in {durable, durable \cup {k}}
     \/ UNCHANGED <<rows, durable>>
  /\ UNCHANGED <<onChain, unwaited, pass>>

\* "finish": unless the settlement is recorded, record it without waiting.
Observe(k) ==
  /\ paid[k].at = "answered" /\ Moves(k, "done")
  /\ unwaited' = IF k \in durable THEN unwaited ELSE unwaited \cup {k}
  /\ UNCHANGED <<onChain, durable, rows, pass>>

\* ... which happens some time, or fails.
WriteUnwaited(k) ==
  /\ k \in unwaited /\ unwaited' = unwaited \ {k}
  /\ Insert(Settlement(k)) \/ UNCHANGED rows
  /\ UNCHANGED <<onChain, paid, durable, pass>>

---------------------------------------------------------------------------
(* A reconciliation.                                                       *)

Tells(q, what) == pass' = [pass EXCEPT ![q].at = "done", ![q].told = what]

\* Any row with the hash, in whatever letters, is a duplicate.
FindRow(q) ==
  /\ pass[q].at = "idle"
  /\ IF \E x \in rows : x.hashed /\ x.of = pass[q].of THEN Tells(q, "duplicate")
     ELSE pass' = [pass EXCEPT ![q].at = "missing"]
  /\ UNCHANGED <<onChain, paid, durable, unwaited, rows>>

VerifyOnChain(q) ==
  /\ pass[q].at = "missing"
  /\ IF pass[q].of \in onChain THEN pass' = [pass EXCEPT ![q].at = "verified"]
     ELSE Tells(q, "rejected")
  /\ UNCHANGED <<onChain, paid, durable, unwaited, rows>>

Import(q) ==
  LET a == pass[q].of IN
  /\ pass[q].at = "verified"
  /\ Insert(RevenueRow(DedupeKey(TRUE, a, pass[q].spelling, q), a, TRUE, "succeeded"))
  /\ Tells(q, "reconciled")
  /\ UNCHANGED <<onChain, paid, durable, unwaited>>

X402Next ==
  \/ \E k \in Calls :
       \/ VerifyPayment(k) \/ SettlePayment(k) \/ Run(k)
       \/ RecordDurably(k) \/ Observe(k) \/ WriteUnwaited(k)
  \/ \E q \in Passes : FindRow(q) \/ VerifyOnChain(q) \/ Import(q)

X402Spec == X402Init /\ [][X402Next]_x402Vars

---------------------------------------------------------------------------
(* Properties.                                                             *)

Succeeded(a) == {x \in rows : x.of = a /\ x.status = "succeeded"}

\* A transaction is revenue at most once, and only if it is on the chain:
\* however often the call is resent, whichever of the route, the observer
\* and concurrent reconciliations record it, in any order ("this must never
\* double-count", idempotency.ts; "a second reconciliation never creates
\* another revenue row", reconcileX402.ts).
RevenueIsSettledOnce ==
  \A a \in Authorizations :
    /\ \A x, y \in Succeeded(a) : x = y
    /\ Succeeded(a) # {} => a \in onChain

\* What is reported as recorded is on record: the flag that silences the
\* observer, and the answers "reconciled" and "duplicate".
ReportedIsOnRecord ==
  /\ \A k \in durable : \E x \in rows : x.hashed /\ x.of = paid[k].of
  /\ \A q \in Passes :
       pass[q].told \in {"duplicate", "reconciled"} => \E x \in rows : x.hashed /\ x.of = pass[q].of
=============================================================================

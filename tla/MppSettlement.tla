--------------------------- MODULE MppSettlement ---------------------------
(***************************************************************************)
(* Settlement of an MPP session (src/src/billing/mpp/service.ts,           *)
(* closeSession and reconcileSettlements): capturing the metered spend of  *)
(* a session that is over from its payment channel.                        *)
(*                                                                         *)
(* Three kinds of actors do it: the payer, whose close credential closes   *)
(* the channel; a close request without one, which lets the server settle  *)
(* the highest accepted voucher; and the maintenance pass, which retries   *)
(* what is not final.  Each claims the row with a lease, talks to the      *)
(* chain and writes the outcome back, with an await between any two of     *)
(* these; the chain's answer or the write may be lost and the process may  *)
(* die.  The module composes these actors with the session itself.         *)
(***************************************************************************)
EXTENDS MppSession

CONSTANTS
  Payers,   \* close requests with the payer's close credential
  Servers,  \* close requests without one
  Sweeps,   \* maintenance runs, each repeated for ever
  Slow,     \* attempts that may outlast the lease
  LostRows  \* may the fire-and-forget write of a revenue row be lost?

Closers == Payers \cup Servers
Attempts == Closers \cup Sweeps

ASSUME AttemptsAssumption == Slow \subseteq Attempts /\ LostRows \in BOOLEAN

VARIABLES
  settlement, \* settlement_status
  settled,    \* settled_micros
  leased,     \* was the row claimed less than a lease ago?
  apc,        \* where each attempt is
  seen,       \* the row's settlement and settled amount each has read
  base,       \* the channel's settled amount before the attempt ...
  result,     \* ... and after it
  captured,   \* chain: cumulative amount paid out of the channel
  final,      \* chain: is the channel closed?
  known,      \* the SDK's record of both
  booked      \* sum of the revenue rows written

attempt == <<apc, seen, base, result>>
chain == <<captured, final, known>>
settleVars == <<settlement, settled, leased, apc, seen, base, result,
                captured, final, known, booked>>
allVars == <<sessionVars, settleVars>>

Over == bound # NoOpen /\ status \in {"closed", "expired"}
Unsettled == {"not_started", "failed", "pending_payer_close"}

\* An attempt that holds the row's claim.
Claiming == {"claimed", "checked", "settling", "onchain", "captured", "none",
             "rejected", "failed"}

SettleInit ==
  /\ Init
  /\ settlement = "not_started" /\ settled = 0 /\ leased = FALSE
  /\ apc = [a \in Attempts |-> "idle"]
  /\ seen = [a \in Attempts |-> [settlement |-> "not_started", settled |-> 0]]
  /\ base = [a \in Attempts |-> 0] /\ result = [a \in Attempts |-> 0]
  /\ captured = 0 /\ final = FALSE /\ booked = 0
  /\ known = [settled |-> 0, final |-> FALSE]

AttemptTo(a, s) == apc' = [apc EXCEPT ![a] = s]

\* A maintenance run starts over, a request ends.
Rest(a) == IF a \in Sweeps THEN "idle" ELSE "ended"

SeeRow(a) == seen' = [seen EXCEPT ![a] = [settlement |-> settlement, settled |-> settled]]

---------------------------------------------------------------------------
(* Before the claim.                                                       *)

\* closeSession: the row is closed, or was closed before.
CloseRequest(a) ==
  /\ a \in Closers /\ apc[a] = "idle"
  /\ \/ Close
     \/ status = "closed" /\ UNCHANGED sessionVars
  /\ SeeRow(a) /\ AttemptTo(a, "seen")
  /\ UNCHANGED <<settlement, settled, leased, base, result, chain, booked>>

\* Mutant: an attempt whose outcome is unknown is never taken up again.
SelectUntried(a) ==
  /\ a \in Sweeps /\ apc[a] = "idle" /\ Over
  /\ settlement \in Unsettled
  /\ SeeRow(a) /\ AttemptTo(a, "seen")
  /\ UNCHANGED <<sessionVars, settlement, settled, leased, base, result, chain, booked>>

\* settlementCandidates: not final, and not claimed within the lease.
Select(a) ==
  /\ a \in Sweeps /\ apc[a] = "idle" /\ Over
  /\ \/ settlement \in Unsettled
     \/ settlement = "pending" /\ ~leased
  /\ SeeRow(a) /\ AttemptTo(a, "seen")
  /\ UNCHANGED <<sessionVars, settlement, settled, leased, base, result, chain, booked>>

\* What the row read says is final already: a closed channel to the payer,
\* a settled session to anyone else.
NothingToDo(a) ==
  IF a \in Payers THEN known.final /\ seen[a].settlement = "settled"
  ELSE a \in Servers /\ seen[a].settlement \in {"settled", "nothing_to_settle"}

\* What can be concluded from the row alone.
FromRow(a) ==
  \/ a \in Sweeps /\ spent = 0
  \/ a \in Servers /\ spent <= seen[a].settled

Respond(a) ==
  /\ apc[a] = "seen" /\ NothingToDo(a)
  /\ AttemptTo(a, Rest(a))
  /\ UNCHANGED <<sessionVars, settlement, settled, leased, seen, base, result, chain, booked>>

\* finishSettlement writes the outcome whatever the row says by now.
Finish(s, amount) ==
  /\ settlement' = s
  /\ settled' = IF amount > settled THEN amount ELSE settled

ConcludeFromRow(a) ==
  /\ apc[a] = "seen" /\ ~NothingToDo(a) /\ FromRow(a)
  /\ \/ Finish(IF spent = 0 THEN "nothing_to_settle" ELSE "settled", 0)
     \/ UNCHANGED <<settlement, settled>>
  /\ AttemptTo(a, Rest(a))
  /\ UNCHANGED <<sessionVars, leased, seen, base, result, chain, booked>>

\* claimSettlement: a conditional update; only the payer may claim a session
\* that is settled, to have the channel closed.
Claim(a) ==
  /\ apc[a] = "seen" /\ ~NothingToDo(a) /\ ~FromRow(a)
  /\ IF Over /\ ~(settlement = "pending" /\ leased) /\ (a \in Payers \/ settlement # "settled")
     THEN settlement' = "pending" /\ leased' = TRUE /\ AttemptTo(a, "claimed")
     ELSE UNCHANGED <<settlement, leased>> /\ AttemptTo(a, Rest(a))
  /\ UNCHANGED <<sessionVars, settled, seen, base, result, chain, booked>>

LeaseExpires ==
  /\ settlement = "pending" /\ leased
  /\ \A a \in Attempts : apc[a] \in Claiming => a \in Slow
  /\ leased' = FALSE
  /\ UNCHANGED <<sessionVars, settlement, settled, attempt, chain, booked>>

---------------------------------------------------------------------------
(* Under the claim.                                                        *)

\* readOnChainChannel: maintenance looks at the chain before it submits.
ReadChain(a) ==
  /\ a \in Sweeps /\ apc[a] = "claimed"
  /\ AttemptTo(a, IF captured >= spent THEN "onchain" ELSE "checked")
  /\ result' = [result EXCEPT ![a] = captured]
  /\ UNCHANGED <<sessionVars, settlement, settled, leased, seen, base, chain, booked>>

\* Mutant: the accepted voucher is settled though it exceeds the spend.
SettlesExcess == ~known.final /\ drawn > known.settled

\* settleSession settles only if the accepted voucher is the metered spend.
Settleable == ~known.final /\ accepted = drawn /\ drawn > known.settled

\* getChannel: the provider reads the channel before it settles or closes it.
ReadChannel(a) ==
  /\ apc[a] = IF a \in Sweeps THEN "checked" ELSE "claimed"
  /\ base' = [base EXCEPT ![a] = known.settled]
  /\ AttemptTo(a, IF a \in Payers \/ Settleable THEN "settling" ELSE "none")
  /\ UNCHANGED <<sessionVars, settlement, settled, leased, seen, result, chain, booked>>

\* The chain captures: the payer's close credential the metered spend, a
\* settle the highest accepted voucher.
Capture(a) ==
  /\ apc[a] = "settling" /\ ~final
  /\ IF a \in Payers
     THEN /\ captured' = IF drawn > captured THEN drawn ELSE captured
          /\ final' = TRUE
     ELSE captured < accepted /\ captured' = accepted /\ final' = final

\* The answer arrives; the SDK's hook records it on the row, or fails to.
Captured(a) ==
  /\ Capture(a)
  /\ known' = [settled |-> captured', final |-> final']
  /\ result' = [result EXCEPT ![a] = captured']
  /\ \/ settled' = settled
     \/ captured' > settled /\ settled' = captured'
  /\ AttemptTo(a, "captured")
  /\ UNCHANGED <<sessionVars, settlement, leased, seen, base, booked>>

\* The transaction is broadcast and its answer lost.
CapturedUnseen(a) ==
  /\ Capture(a)
  /\ AttemptTo(a, Rest(a))
  /\ UNCHANGED <<sessionVars, settlement, settled, leased, seen, base, result, known, booked>>

\* The chain refuses it; a payer's credential may be refused before that.
Refused(a) ==
  /\ apc[a] = "settling"
  /\ \/ AttemptTo(a, "failed")
     \/ a \in Payers /\ AttemptTo(a, "rejected")
  /\ UNCHANGED <<sessionVars, settlement, settled, leased, seen, base, result, chain, booked>>

\* The network or the process fails, or the outcome cannot be written: the
\* row stays pending until its lease is over.
GiveUp(a) ==
  /\ apc[a] \in Claiming
  /\ AttemptTo(a, Rest(a))
  /\ UNCHANGED <<sessionVars, settlement, settled, leased, seen, base, result, chain, booked>>

\* Mutant: the whole settled amount is booked, not what this attempt added.
BookTotal(a) == booked' = booked + result[a]

\* The revenue row holds the difference the attempt has seen, if any; its
\* write is not waited for.
Book(a) ==
  \/ booked' = booked + IF result[a] > base[a] THEN result[a] - base[a] ELSE 0
  \/ LostRows /\ booked' = booked

\* Mutant: a refused settlement is written as settled.
OutcomeOptimistic(a) ==
  CASE apc[a] \in {"onchain", "captured", "failed"} -> "settled"
    [] apc[a] = "none" -> "pending_payer_close"
    [] OTHER -> IF seen[a].settlement = "pending" THEN "not_started" ELSE seen[a].settlement

\* A rejected credential restores the settlement state read before the claim.
Outcome(a) ==
  CASE apc[a] \in {"onchain", "captured"} -> "settled"
    [] apc[a] = "none" -> "pending_payer_close"
    [] apc[a] = "failed" -> "failed"
    [] OTHER -> IF seen[a].settlement = "pending" THEN "not_started" ELSE seen[a].settlement

Conclude(a) ==
  /\ apc[a] \in {"onchain", "captured", "none", "failed", "rejected"}
  /\ Finish(Outcome(a), IF apc[a] \in {"onchain", "captured"} THEN result[a] ELSE 0)
  /\ IF apc[a] = "captured" THEN Book(a) ELSE UNCHANGED booked
  /\ AttemptTo(a, Rest(a))
  /\ UNCHANGED <<sessionVars, leased, seen, base, result, chain>>

\* A close request books its capture even if the row cannot be written; a
\* maintenance run does not get that far.
BookOnly(a) ==
  /\ a \in Closers /\ apc[a] = "captured"
  /\ Book(a)
  /\ AttemptTo(a, Rest(a))
  /\ UNCHANGED <<sessionVars, settlement, settled, leased, seen, base, result, chain>>

---------------------------------------------------------------------------
SessionStep ==
  /\ \/ \E o \in Opens : OpenStep(o)
     \/ \E c \in Calls : CallStep(c)
     \/ TimePasses \/ Expire \/ Purge
  /\ UNCHANGED settleVars

AttemptStep(a) ==
  \/ CloseRequest(a) \/ Select(a) \/ Respond(a) \/ ConcludeFromRow(a) \/ Claim(a)
  \/ ReadChain(a) \/ ReadChannel(a) \/ Captured(a) \/ CapturedUnseen(a) \/ Refused(a)
  \/ GiveUp(a) \/ Conclude(a) \/ BookOnly(a)

SettleNext == SessionStep \/ LeaseExpires \/ \E a \in Attempts : AttemptStep(a)

SettleSpec == SettleInit /\ [][SettleNext]_allVars

\* Maintenance is scheduled and a lease runs out; the chain and the database
\* answer again and again if asked often enough.
FairSettleSpec ==
  /\ SettleSpec
  /\ WF_allVars(LeaseExpires)
  /\ \A a \in Closers : WF_allVars(apc[a] # "idle" /\ AttemptStep(a))
  /\ \A a \in Sweeps :
       /\ WF_allVars(Select(a)) /\ SF_allVars(ConcludeFromRow(a) /\ settlement' # settlement)
       /\ SF_allVars(Claim(a)) /\ SF_allVars(ReadChain(a)) /\ SF_allVars(ReadChannel(a))
       /\ SF_allVars(Captured(a)) /\ SF_allVars(Conclude(a))

---------------------------------------------------------------------------
(* Properties.                                                             *)

(* docs/mpp.md: capturing exactly the metered spend.  The chain never pays
   out more than was metered, although a server settle captures the highest
   voucher the payer has signed and decides from an earlier reading. *)
NeverOverCaptured == captured <= drawn

(* README.md: settled means that a receipt was confirmed or that the chain
   shows at least the session's spend, whichever attempts failed, were
   repeated, or wrote their outcome late. *)
SettledIsCaptured == settlement = "settled" => captured >= spent

(* The row never claims more than the chain has paid, and the revenue
   ledger never counts a capture twice. *)
BooksWithinCaptured == settled <= captured /\ known.settled <= captured /\ booked <= captured

(* A session that is over comes to an end of its settlement: settled,
   nothing to settle, or waiting for the payer's own close. *)
SettlementConcludes ==
  Over ~> settlement \in {"settled", "nothing_to_settle", "pending_payer_close"}

=============================================================================

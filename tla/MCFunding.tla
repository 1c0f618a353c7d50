----------------------------- MODULE MCFunding -----------------------------
(***************************************************************************)
(* Small instances of the two funding rails.  They share no state but the  *)
(* account's balance, which only Stripe refunds read, so a behaviour of    *)
(* the instance exercises one of them, chosen at the start.                *)
(***************************************************************************)
EXTENDS StripeTopup, UsdcTopup

VARIABLE rail

fundingVars == <<rail, stripeVars, usdcVars>>

\* A transfer of one of the amounts intents choose from.
SmallTransfer == [t \in Transactions |-> 2]

\* All hashes spell one transaction; a single hash is its only spelling.
OneTransaction == [h \in Hashes |-> CHOOSE t \in Transactions : TRUE]

FundingInit == StripeInit /\ UsdcInit /\ rail \in {"stripe", "usdc"}

FundingNext ==
  \/ rail = "stripe" /\ StripeNext /\ UNCHANGED <<rail, usdcVars>>
  \/ rail = "usdc" /\ UsdcNext /\ UNCHANGED <<rail, stripeVars>>

FundingSpec == FundingInit /\ [][FundingNext]_fundingVars
=============================================================================

----------------------------- MODULE MCProgress -----------------------------
(***************************************************************************)
(* Small instances of what has to get on without a caller waiting: the     *)
(* funding rails and the partner feeds.  They share no state: a behaviour  *)
(* exercises one of them, chosen at the start.                             *)
(***************************************************************************)
EXTENDS MCFunding, PartnerFeeds

VARIABLE part

progressVars == <<part, fundingVars, feedVars>>

\* The rail matters to funding only.
ProgressInit ==
  /\ FundingInit /\ FeedInit /\ part \in {"funding", "feeds"}
  /\ part = "feeds" => rail = "stripe"

FeedPart == part = "feeds" /\ UNCHANGED <<part, fundingVars>>

ProgressNext ==
  \/ part = "funding" /\ FundingNext /\ UNCHANGED <<part, feedVars>>
  \/ FeedPart /\ FeedNext

\* The fairness of StripeTopup, which asks nothing while no event is raised,
\* and that of FeedSpec.
ProgressSpec ==
  /\ ProgressInit /\ [][ProgressNext]_progressVars
  /\ StripeFairness
  /\ \A c \in Passes \ Mortal : WF_progressVars(FeedPart /\ PassStep(c))

\* DueFeedsAreRun of the behaviours in which feeds are what runs.
FeedsAreRun == part = "feeds" => DueFeedsAreRun
=============================================================================

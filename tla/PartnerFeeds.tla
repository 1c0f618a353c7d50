---------------------------- MODULE PartnerFeeds ----------------------------
(***************************************************************************)
(* Scheduled partner feeds (src/src/domain/oman/partnerFeedRunner.ts): a   *)
(* command that an external scheduler starts now and then runs the feed of *)
(* every partner that is due, one after the other.                         *)
(*                                                                         *)
(* Two passes may overlap, because nothing is claimed, and operators       *)
(* enable, disable and rotate meanwhile.  A pass reads a partner again     *)
(* before it runs its feed; fetching is tried again a few times; records   *)
(* are imported in one transaction; the attempt is written afterwards and  *)
(* a failing write is swallowed.  Market records, statistics, audit rows,  *)
(* credentials and formats are left out.                                   *)
(***************************************************************************)
EXTENDS Integers

CONSTANTS
  Partners,     \* partners with a feed and a schedule
  Passes,       \* feed passes that may be under way at once
  Interval,     \* schedule_interval_minutes, in units of the clock
  MaxAttempts,  \* of one fetch
  Mortal,       \* passes that may be killed; the others are started again
                \* and again
  LastHour      \* bound of the clock

ASSUME FeedAssumption ==
  {Interval, MaxAttempts} \subseteq Nat \ {0} /\ LastHour \in Nat /\ Mortal \subseteq Passes

VARIABLES
  hour,
  enabled,      \* data_partners.enabled
  lastAttempt,  \* last_attempt_at; -1 is null
  feed          \* where each pass is: the partners left, the one that runs,
                \* its start, the tries of its fetch

feedVars == <<hour, enabled, lastAttempt, feed>>
partner == <<enabled, lastAttempt>>

Resting == [at |-> "idle", due |-> {}, of |-> "none", start |-> 0, tries |-> 0]

FeedInit ==
  /\ hour = 0
  /\ enabled = [p \in Partners |-> TRUE]
  /\ lastAttempt = [p \in Partners |-> -1]
  /\ feed = [c \in Passes |-> Resting]

NextHour ==
  /\ hour < LastHour /\ hour' = hour + 1
  /\ UNCHANGED <<partner, feed>>

Running(c, p) == feed[c].of = p
Reaches(c, place) == feed' = [feed EXCEPT ![c].at = place]
GoesOn(c, due) == feed' = [feed EXCEPT ![c] = [Resting EXCEPT !.at = "listed", !.due = due]]

\* setEnabled
SetEnabled(p, value) ==
  /\ enabled[p] # value /\ enabled' = [enabled EXCEPT ![p] = value]
  /\ UNCHANGED <<hour, lastAttempt, feed>>

\* isFeedDue: a partner that was never attempted is due at once.
FeedDue(p) == lastAttempt[p] = -1 \/ lastAttempt[p] + Interval <= hour

\* runDueFeeds: every enabled partner that is due.
ListFeeds(c) ==
  LET due == {p \in Partners : enabled[p] /\ FeedDue(p)} IN
  /\ feed[c].at = "idle" /\ due # {}
  /\ GoesOn(c, due)
  /\ UNCHANGED <<hour, partner>>

EndPass(c) ==
  /\ feed[c].at = "listed" /\ feed[c].due = {}
  /\ feed' = [feed EXCEPT ![c] = Resting]
  /\ UNCHANGED <<hour, partner>>

Fetching(c, p) ==
  feed' = [feed EXCEPT ![c] = [Resting EXCEPT !.at = "fetching", !.due = feed[c].due \ {p},
                                              !.of = p, !.start = hour, !.tries = 1]]

\* runPartnerFeed reads the partner again; one that is disabled by now is a
\* failed outcome, and the pass goes on.
StartFeed(c, p) ==
  /\ feed[c].at = "listed" /\ p \in feed[c].due
  /\ IF enabled[p] THEN Fetching(c, p) ELSE GoesOn(c, feed[c].due \ {p})
  /\ UNCHANGED <<hour, partner>>

\* fetchFeedWithRetry: an error that may pass is tried again; anything else,
\* credentials included, is a failure.
FetchFeed(c) ==
  /\ feed[c].at = "fetching"
  /\ \/ Reaches(c, "importing")
     \/ feed[c].tries < MaxAttempts /\ feed' = [feed EXCEPT ![c].tries = @ + 1]
     \/ Reaches(c, "failed")
  /\ UNCHANGED <<hour, partner>>

\* Mutant: an import that throws ends the pass.
ImportAborts(c) ==
  /\ feed[c].at = "importing"
  /\ Reaches(c, "succeeded") \/ feed' = [feed EXCEPT ![c] = Resting]
  /\ UNCHANGED <<hour, partner>>

\* importMarketRecords: one transaction; if it throws, nothing is recorded
\* of the attempt, and runDueFeeds goes on with the next partner.
ImportFeed(c) ==
  /\ feed[c].at = "importing"
  /\ Reaches(c, "succeeded") \/ GoesOn(c, feed[c].due)
  /\ UNCHANGED <<hour, partner>>

\* recordFeedAttempt: the time the run started; it may fail.
RecordAttempt(c) ==
  /\ feed[c].at \in {"succeeded", "failed"} /\ GoesOn(c, feed[c].due)
  /\ lastAttempt' \in {lastAttempt, [lastAttempt EXCEPT ![feed[c].of] = feed[c].start]}
  /\ UNCHANGED <<hour, enabled>>

KillPass(c) ==
  /\ c \in Mortal /\ feed[c].at \notin {"idle", "killed"}
  /\ feed' = [feed EXCEPT ![c] = [Resting EXCEPT !.at = "killed"]]
  /\ UNCHANGED <<hour, partner>>

PassStep(c) ==
  \/ ListFeeds(c) \/ EndPass(c) \/ FetchFeed(c) \/ ImportFeed(c) \/ RecordAttempt(c)
  \/ \E p \in Partners : StartFeed(c, p)

FeedNext ==
  \/ NextHour
  \/ \E p \in Partners, value \in BOOLEAN : SetEnabled(p, value)
  \/ \E c \in Passes : PassStep(c) \/ KillPass(c)

\* The scheduler starts passes again and again, and a step of a pass ends.
\* Of a mortal pass nothing is asked.
FeedSpec ==
  FeedInit /\ [][FeedNext]_feedVars /\ \A c \in Passes \ Mortal : WF_feedVars(PassStep(c))

---------------------------------------------------------------------------
(* Properties.                                                             *)

\* "One partner failure must not stop another partner feed" (runDueFeeds):
\* whatever fails for the others, a partner that is due is run some time,
\* unless it is disabled or no longer due.
DueFeedsAreRun ==
  \A p \in Partners :
    enabled[p] /\ FeedDue(p) ~> ~enabled[p] \/ ~FeedDue(p) \/ \E c \in Passes : Running(c, p)
=============================================================================

----------------------------- MODULE Monitoring -----------------------------
(***************************************************************************)
(* Scheduled monitoring jobs (src/src/monitoring/service.ts): an hourly    *)
(* request runs every job that is due, each as a billed call.              *)
(*                                                                         *)
(* Two requests may overlap.  A pass lists the due jobs, then moves each   *)
(* to its next date before it runs it, and waits between any two steps;    *)
(* the process may die at each.  The billing ledger is seen through what   *)
(* BillingLedger promises: a charge is pending until it is settled or      *)
(* refunded, by the call that made it or by the sweep.                     *)
(***************************************************************************)
EXTENDS Integers

CONSTANTS
  Jobs,     \* monitoring_jobs of one account
  Crons,    \* run-due requests that may be under way at once
  Cadence,  \* time between two runs of a job
  LastTime  \* bound of the clock

ASSUME MonitoringAssumption == Cadence \in Nat \ {0} /\ LastTime \in Nat

VARIABLES
  time,
  nextRunAt, lastRunAt,  \* columns of monitoring_jobs; -1 is null
  runs,     \* how often each job was started, which names its run
  cron,     \* where each pass is, the jobs it has listed, its job and run
  fee,      \* billing_ledger: the charge of each run
  stored,   \* monitoring_runs: status of each run
  history   \* runs whose charge the sweep refunded; runs whose settlement
            \* took effect and was reported as failed

monitoringVars == <<time, nextRunAt, lastRunAt, runs, cron, fee, stored, history>>
schedule == <<nextRunAt, lastRunAt, runs>>

Runs == Jobs \X (1..LastTime + 1)
NoRun == <<"none", 0>>

MonitoringInit ==
  /\ time = 0
  /\ nextRunAt = [j \in Jobs |-> 0] /\ lastRunAt = [j \in Jobs |-> -1]
  /\ runs = [j \in Jobs |-> 0]
  /\ cron = [c \in Crons |-> [at |-> "idle", due |-> {}, run |-> NoRun]]
  /\ fee = [r \in Runs |-> "none"] /\ stored = [r \in Runs |-> "none"]
  /\ history = [swept |-> {}, misreported |-> {}]

Tick == time < LastTime /\ time' = time + 1
        /\ UNCHANGED <<schedule, cron, fee, stored, history>>

Stands(c, place) == cron' = [cron EXCEPT ![c].at = place]

Due(j) == nextRunAt[j] <= time

\* runDue: the due jobs, as they are now.
ListDue(c) ==
  /\ cron[c].at = "idle" /\ \E j \in Jobs : Due(j)
  /\ cron' = [cron EXCEPT ![c] = [at |-> "listed", due |-> {j \in Jobs : Due(j)}, run |-> NoRun]]
  /\ UNCHANGED <<time, schedule, fee, stored, history>>

Finish(c) ==
  /\ cron[c].at = "listed" /\ cron[c].due = {} /\ Stands(c, "idle")
  /\ UNCHANGED <<time, schedule, fee, stored, history>>

Start(c, j) ==
  /\ nextRunAt' = [nextRunAt EXCEPT ![j] = time + Cadence]
  /\ lastRunAt' = [lastRunAt EXCEPT ![j] = time]
  /\ runs' = [runs EXCEPT ![j] = @ + 1]
  /\ cron' = [cron EXCEPT ![c] = [at |-> "started", due |-> @.due \ {j}, run |-> <<j, runs[j] + 1>>]]

\* Mutant: the date that was listed is trusted.
ClaimListed(c, j) ==
  /\ cron[c].at = "listed" /\ j \in cron[c].due /\ runs[j] <= LastTime
  /\ Start(c, j)
  /\ UNCHANGED <<time, fee, stored, history>>

\* The conditional update moves a job that is still due to its next date;
\* one that another pass has moved is left to it.
ClaimJob(c, j) ==
  /\ cron[c].at = "listed" /\ j \in cron[c].due
  /\ IF Due(j) THEN Start(c, j)
     ELSE cron' = [cron EXCEPT ![c].due = @ \ {j}] /\ UNCHANGED schedule
  /\ UNCHANGED <<time, fee, stored, history>>

\* The key or the account is gone: on to the next job.
OwnerGone(c) ==
  /\ cron[c].at = "started" /\ Stands(c, "listed")
  /\ UNCHANGED <<time, schedule, fee, stored, history>>

\* authorize: reserved; refused; or reserved by a call that fails, and then
\* there is nothing to release.
Authorize(c) ==
  LET r == cron[c].run IN
  /\ cron[c].at = "started"
  /\ \/ fee' = [fee EXCEPT ![r] = "pending"] /\ Stands(c, "authorized")
     \/ fee' \in {fee, [fee EXCEPT ![r] = "pending"]} /\ Stands(c, "failed")
  /\ UNCHANGED <<time, schedule, stored, history>>

Execute(c) ==
  /\ cron[c].at = "authorized"
  /\ Stands(c, "executed") \/ Stands(c, "releasing")
  /\ UNCHANGED <<time, schedule, fee, stored, history>>

\* Mutant: a failing settlement is swallowed.
SettleQuietly(c) ==
  /\ cron[c].at = "executed" /\ Stands(c, "succeeded")
  /\ LET r == cron[c].run IN fee' \in {fee, [fee EXCEPT ![r] = IF @ = "pending" THEN "settled" ELSE @]}
  /\ UNCHANGED <<time, schedule, stored, history>>

\* settle: takes effect on a pending charge, and is silent on another; an
\* error, whatever was written, makes the run one to release.
SettleRun(c) ==
  LET r == cron[c].run
      settled == [fee EXCEPT ![r] = IF @ = "pending" THEN "settled" ELSE @]
  IN
  /\ cron[c].at = "executed"
  /\ \/ fee' = settled /\ Stands(c, "succeeded") /\ UNCHANGED history
     \/ /\ fee' \in {fee, settled} /\ Stands(c, "releasing")
        /\ history' = IF fee' = fee THEN history
                      ELSE [history EXCEPT !.misreported = @ \cup {r}]
  /\ UNCHANGED <<time, schedule, stored>>

Refunded(r) == [fee EXCEPT ![r] = IF @ = "pending" THEN "refunded" ELSE @]

\* release, whose error is swallowed.
ReleaseRun(c) ==
  /\ cron[c].at = "releasing" /\ Stands(c, "failed")
  /\ fee' \in {fee, Refunded(cron[c].run)}
  /\ UNCHANGED <<time, schedule, stored, history>>

\* The run is stored; if it cannot be, the pass ends with an error and its
\* other jobs stay due.
StoreRun(c) ==
  /\ cron[c].at \in {"succeeded", "failed"}
  /\ \/ stored' = [stored EXCEPT ![cron[c].run] = cron[c].at] /\ Stands(c, "listed")
     \/ stored' = stored /\ cron' = [cron EXCEPT ![c] = [at |-> "idle", due |-> {}, run |-> NoRun]]
  /\ UNCHANGED <<time, schedule, fee, history>>

CronDies(c) ==
  /\ cron[c].at # "idle"
  /\ cron' = [cron EXCEPT ![c] = [at |-> "idle", due |-> {}, run |-> NoRun]]
  /\ UNCHANGED <<time, schedule, fee, stored, history>>

\* The sweep of the billing ledger, after its time to live.
SweepFee(r) ==
  /\ fee[r] = "pending" /\ fee' = Refunded(r)
  /\ history' = [history EXCEPT !.swept = @ \cup {r}]
  /\ UNCHANGED <<time, schedule, cron, stored>>

MonitoringNext ==
  \/ Tick
  \/ \E c \in Crons :
       \/ ListDue(c) \/ Finish(c) \/ OwnerGone(c) \/ Authorize(c) \/ Execute(c)
       \/ SettleRun(c) \/ ReleaseRun(c) \/ StoreRun(c) \/ CronDies(c)
       \/ \E j \in Jobs : ClaimJob(c, j)
  \/ \E r \in Runs : SweepFee(r)

MonitoringSpec == MonitoringInit /\ [][MonitoringNext]_monitoringVars

---------------------------------------------------------------------------
(* Properties.                                                             *)

\* A job starts at most once in a cadence, however many passes have listed
\* it while it was due (runDue).
RunsArePaced ==
  [][\A j \in Jobs : runs'[j] # runs[j] =>
       /\ runs'[j] = runs[j] + 1
       /\ lastRunAt[j] = -1 \/ time >= lastRunAt[j] + Cadence]_monitoringVars

\* A run that is stored as succeeded was paid for, unless it was so slow
\* that the sweep refunded it; one that is stored as failed was not, unless
\* the ledger settled it and reported a failure (runDue settles, releases
\* and stores in separate steps).
RunsAgreeWithCharges ==
  \A r \in Runs :
    /\ stored[r] = "succeeded" => fee[r] = "settled" \/ r \in history.swept
    /\ stored[r] = "failed" => fee[r] # "settled" \/ r \in history.misreported
=============================================================================

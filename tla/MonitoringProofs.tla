-------------------------- MODULE MonitoringProofs --------------------------
(***************************************************************************)
(* What holds of scheduled monitoring for any number of jobs and of passes *)
(* that overlap.                                                           *)
(***************************************************************************)
EXTENDS Monitoring, TLAPS

CronPlaces == {"idle", "listed", "started", "authorized", "executed", "releasing", "succeeded", "failed"}
AnyRun == (Jobs \X Nat) \cup {NoRun}

MonitoringTypeOK ==
  /\ time \in Nat
  /\ nextRunAt \in [Jobs -> Nat] /\ lastRunAt \in [Jobs -> Nat \cup {-1}] /\ runs \in [Jobs -> Nat]
  /\ cron \in [Crons -> [at : CronPlaces, due : SUBSET Jobs, run : AnyRun]]
  /\ fee \in [Runs -> {"none", "pending", "settled", "refunded"}]
  /\ stored \in [Runs -> {"none", "succeeded", "failed"}]
  /\ history \in [swept : SUBSET AnyRun, misreported : SUBSET AnyRun]

LEMMA TypeInit == MonitoringInit => MonitoringTypeOK
<1> SUFFICES ASSUME MonitoringInit PROVE MonitoringTypeOK
  OBVIOUS
<1>1. cron \in [Crons -> [at : CronPlaces, due : SUBSET Jobs, run : AnyRun]]
  BY DEF MonitoringInit, CronPlaces, AnyRun
<1> QED BY <1>1 DEF MonitoringInit, MonitoringTypeOK

\* A pass that only moves, or is over, keeps the types.
LEMMA Standing ==
  ASSUME MonitoringTypeOK, NEW c \in Crons, NEW place \in CronPlaces, Stands(c, place)
  PROVE  /\ cron' \in [Crons -> [at : CronPlaces, due : SUBSET Jobs, run : AnyRun]]
         /\ \A d \in Crons : cron'[d].run = cron[d].run /\ (d # c => cron'[d] = cron[d])
         /\ cron'[c].at = place
BY DEF MonitoringTypeOK, Stands

LEMMA Idling ==
  ASSUME MonitoringTypeOK, NEW c \in Crons,
         cron' = [cron EXCEPT ![c] = [at |-> "idle", due |-> {}, run |-> NoRun]]
  PROVE  /\ cron' \in [Crons -> [at : CronPlaces, due : SUBSET Jobs, run : AnyRun]]
         /\ \A d \in Crons : d # c => cron'[d] = cron[d]
         /\ cron'[c].at = "idle"
<1>1. [at |-> "idle", due |-> {}, run |-> NoRun] \in [at : CronPlaces, due : SUBSET Jobs, run : AnyRun]
  BY DEF CronPlaces, AnyRun
<1> QED BY <1>1 DEF MonitoringTypeOK

\* A job that starts.
LEMMA Starting ==
  ASSUME MonitoringTypeOK, NEW c \in Crons, NEW j \in Jobs, Start(c, j)
  PROVE  /\ nextRunAt' \in [Jobs -> Nat] /\ lastRunAt' \in [Jobs -> Nat \cup {-1}]
         /\ runs' \in [Jobs -> Nat] /\ runs'[j] = runs[j] + 1
         /\ nextRunAt'[j] = time + Cadence /\ lastRunAt'[j] = time
         /\ \A i \in Jobs : i # j => /\ runs'[i] = runs[i] /\ nextRunAt'[i] = nextRunAt[i]
                                     /\ lastRunAt'[i] = lastRunAt[i]
         /\ cron' \in [Crons -> [at : CronPlaces, due : SUBSET Jobs, run : AnyRun]]
         /\ \A d \in Crons : d # c => cron'[d] = cron[d]
         /\ cron'[c].at = "started" /\ cron'[c].run = <<j, runs[j] + 1>>
<1>1. time + Cadence \in Nat /\ runs[j] + 1 \in Nat
  BY MonitoringAssumption DEF MonitoringTypeOK
<1>2. /\ nextRunAt' = [nextRunAt EXCEPT ![j] = time + Cadence]
      /\ lastRunAt' = [lastRunAt EXCEPT ![j] = time]
      /\ runs' = [runs EXCEPT ![j] = runs[j] + 1]
  BY DEF Start, MonitoringTypeOK
<1>3. /\ nextRunAt' \in [Jobs -> Nat] /\ lastRunAt' \in [Jobs -> Nat \cup {-1}]
      /\ runs' \in [Jobs -> Nat] /\ runs'[j] = runs[j] + 1
      /\ nextRunAt'[j] = time + Cadence /\ lastRunAt'[j] = time
      /\ \A i \in Jobs : i # j => /\ runs'[i] = runs[i] /\ nextRunAt'[i] = nextRunAt[i]
                                  /\ lastRunAt'[i] = lastRunAt[i]
  BY <1>1, <1>2 DEF MonitoringTypeOK
<1>4. <<j, runs[j] + 1>> \in AnyRun /\ "started" \in CronPlaces
  BY <1>1 DEF AnyRun, CronPlaces
<1> DEFINE pass == [at |-> "started", due |-> cron[c].due \ {j}, run |-> <<j, runs[j] + 1>>]
<1>5. cron' = [cron EXCEPT ![c] = pass]
  BY DEF Start
<1>6. pass \in [at : CronPlaces, due : SUBSET Jobs, run : AnyRun]
  BY <1>4 DEF MonitoringTypeOK
<1>7. pass.at = "started" /\ pass.run = <<j, runs[j] + 1>>
  OBVIOUS
<1> HIDE DEF pass
<1>8. /\ cron' \in [Crons -> [at : CronPlaces, due : SUBSET Jobs, run : AnyRun]]
      /\ \A d \in Crons : d # c => cron'[d] = cron[d]
      /\ cron'[c] = pass
  BY <1>5, <1>6 DEF MonitoringTypeOK
<1> QED BY <1>3, <1>7, <1>8

LEMMA TypeStep == MonitoringTypeOK /\ [MonitoringNext]_monitoringVars => MonitoringTypeOK'
<1> SUFFICES ASSUME MonitoringTypeOK, [MonitoringNext]_monitoringVars PROVE MonitoringTypeOK'
  OBVIOUS
<1> USE DEF schedule
<1>1. CASE UNCHANGED monitoringVars
  BY <1>1 DEF monitoringVars, MonitoringTypeOK
<1>2. CASE Tick
  BY <1>2 DEF Tick, MonitoringTypeOK
<1>3. ASSUME NEW c \in Crons, ListDue(c) PROVE MonitoringTypeOK'
  <2> DEFINE pass == [at |-> "listed", due |-> {j \in Jobs : Due(j)}, run |-> NoRun]
  <2>1. cron' = [cron EXCEPT ![c] = pass]
    BY <1>3 DEF ListDue
  <2>2. pass \in [at : CronPlaces, due : SUBSET Jobs, run : AnyRun]
    BY DEF CronPlaces, AnyRun
  <2> HIDE DEF pass
  <2>3. cron' \in [Crons -> [at : CronPlaces, due : SUBSET Jobs, run : AnyRun]]
    BY <2>1, <2>2 DEF MonitoringTypeOK
  <2> QED BY <1>3, <2>3 DEF ListDue, MonitoringTypeOK
<1>4. ASSUME NEW c \in Crons,
             Finish(c) \/ OwnerGone(c) \/ Authorize(c) \/ Execute(c) \/ ReleaseRun(c)
      PROVE  MonitoringTypeOK'
  <2>1. PICK place \in CronPlaces : Stands(c, place)
    BY <1>4 DEF Finish, OwnerGone, Authorize, Execute, ReleaseRun, CronPlaces
  <2>2. fee' \in [Runs -> {"none", "pending", "settled", "refunded"}]
    BY <1>4 DEF Finish, OwnerGone, Authorize, Execute, ReleaseRun, Refunded, MonitoringTypeOK
  <2> QED BY <1>4, <2>1, <2>2, Standing
          DEF Finish, OwnerGone, Authorize, Execute, ReleaseRun, MonitoringTypeOK
<1>5. ASSUME NEW c \in Crons, SettleRun(c) PROVE MonitoringTypeOK'
  <2>1. PICK place \in CronPlaces : Stands(c, place)
    BY <1>5 DEF SettleRun, CronPlaces
  <2>2. fee' \in [Runs -> {"none", "pending", "settled", "refunded"}]
    BY <1>5 DEF SettleRun, MonitoringTypeOK
  <2>3. cron[c].run \in AnyRun
    BY DEF MonitoringTypeOK
  <2>4. history' \in [swept : SUBSET AnyRun, misreported : SUBSET AnyRun]
    BY <1>5, <2>3 DEF SettleRun, MonitoringTypeOK
  <2> QED BY <1>5, <2>1, <2>2, <2>4, Standing DEF SettleRun, MonitoringTypeOK
<1>6. ASSUME NEW c \in Crons, StoreRun(c) PROVE MonitoringTypeOK'
  <2>1. stored' \in [Runs -> {"none", "succeeded", "failed"}]
    BY <1>6 DEF StoreRun, MonitoringTypeOK
  <2>2. cron' \in [Crons -> [at : CronPlaces, due : SUBSET Jobs, run : AnyRun]]
    BY <1>6, Standing, Idling DEF StoreRun, CronPlaces
  <2> QED BY <1>6, <2>1, <2>2 DEF StoreRun, MonitoringTypeOK
<1>7. ASSUME NEW c \in Crons, CronDies(c) PROVE MonitoringTypeOK'
  BY <1>7, Idling DEF CronDies, MonitoringTypeOK
<1>8. ASSUME NEW c \in Crons, NEW j \in Jobs, ClaimJob(c, j) PROVE MonitoringTypeOK'
  <2>1. CASE Start(c, j)
    BY <1>8, <2>1, Starting DEF ClaimJob, MonitoringTypeOK
  <2>2. CASE cron' = [cron EXCEPT ![c].due = @ \ {j}] /\ UNCHANGED schedule
    <3>1. cron' \in [Crons -> [at : CronPlaces, due : SUBSET Jobs, run : AnyRun]]
      BY <2>2 DEF MonitoringTypeOK
    <3> QED BY <1>8, <2>2, <3>1 DEF ClaimJob, MonitoringTypeOK
  <2> QED BY <1>8, <2>1, <2>2 DEF ClaimJob
<1>9. ASSUME NEW r \in Runs, SweepFee(r) PROVE MonitoringTypeOK'
  <2>1. r \in AnyRun
    BY MonitoringAssumption DEF Runs, AnyRun
  <2> QED BY <1>9, <2>1 DEF SweepFee, Refunded, MonitoringTypeOK
<1> QED
  BY <1>1, <1>2, <1>3, <1>4, <1>5, <1>6, <1>7, <1>8, <1>9 DEF MonitoringNext

\* Every variable keeps its type, for any number of jobs and passes.
THEOREM MonitoringTyped == MonitoringSpec => []MonitoringTypeOK
<1> QED BY TypeInit, TypeStep, PTL DEF MonitoringSpec

---------------------------------------------------------------------------
(* The pace of the runs.                                                   *)

\* The next date of a job is a cadence after its last start.
NextFollowsLast == \A j \in Jobs : lastRunAt[j] = -1 \/ nextRunAt[j] = lastRunAt[j] + Cadence

LEMMA PaceStep ==
  ASSUME MonitoringTypeOK, NextFollowsLast, [MonitoringNext]_monitoringVars
  PROVE  /\ NextFollowsLast'
         /\ \A j \in Jobs : runs'[j] # runs[j] =>
              /\ runs'[j] = runs[j] + 1
              /\ lastRunAt[j] = -1 \/ time >= lastRunAt[j] + Cadence
<1>1. CASE UNCHANGED schedule
  BY <1>1 DEF schedule, NextFollowsLast
<1>2. ASSUME NEW c \in Crons, NEW j \in Jobs, Due(j), Start(c, j)
      PROVE  /\ NextFollowsLast'
             /\ \A i \in Jobs : runs'[i] # runs[i] =>
                  /\ runs'[i] = runs[i] + 1
                  /\ lastRunAt[i] = -1 \/ time >= lastRunAt[i] + Cadence
  BY <1>2, Starting DEF NextFollowsLast, Due
<1> QED
  BY <1>1, <1>2 DEF MonitoringNext, Tick, ListDue, Finish, OwnerGone, Authorize, Execute, SettleRun,
     ReleaseRun, StoreRun, CronDies, ClaimJob, SweepFee, monitoringVars, schedule

\* However many passes list a job while it is due, it starts at most once in
\* a cadence.
THEOREM RunsPaced == MonitoringSpec => RunsArePaced
<1>1. MonitoringInit => NextFollowsLast
  BY DEF MonitoringInit, NextFollowsLast
<1>2. MonitoringTypeOK /\ NextFollowsLast /\ [MonitoringNext]_monitoringVars => NextFollowsLast'
  BY PaceStep
<1>3. MonitoringTypeOK /\ NextFollowsLast /\ [MonitoringNext]_monitoringVars =>
        [\A j \in Jobs : runs'[j] # runs[j] =>
              /\ runs'[j] = runs[j] + 1
              /\ lastRunAt[j] = -1 \/ time >= lastRunAt[j] + Cadence]_monitoringVars
  BY PaceStep
<1> QED BY <1>1, <1>2, <1>3, MonitoringTyped, PTL DEF MonitoringSpec, RunsArePaced

---------------------------------------------------------------------------
(* The charges of the runs.                                                *)

Active == {"started", "authorized", "executed", "releasing", "succeeded", "failed"}

\* What the charge of a run may be when its pass is at a place.
Suits(r, place) ==
  /\ place = "started" => fee[r] = "none"
  /\ place \in {"authorized", "executed"} =>
        fee[r] = "pending" \/ (fee[r] = "refunded" /\ r \in history.swept)
  /\ place = "succeeded" => fee[r] = "settled" \/ r \in history.swept
  /\ place \in {"releasing", "failed"} => fee[r] # "settled" \/ r \in history.misreported

\* The run of a pass was started, and is not over.
Working(c) ==
  /\ cron[c].run \in Jobs \X Nat /\ cron[c].run[2] <= runs[cron[c].run[1]]
  /\ \A r \in Runs : r = cron[c].run => Suits(r, cron[c].at) /\ stored[r] = "none"

\* A pass works alone at its run; what was charged or stored was started.
ChargesInv ==
  /\ \A c \in Crons : cron[c].at \in Active => Working(c)
  /\ \A c, d \in Crons :
        cron[c].at \in Active /\ cron[d].at \in Active /\ cron[c].run = cron[d].run => c = d
  /\ \A r \in Runs : fee[r] # "none" \/ stored[r] # "none" => r[2] <= runs[r[1]]
  /\ RunsAgreeWithCharges

\* A step that starts no run and touches no charge.
LEMMA NothingCharged ==
  ASSUME MonitoringTypeOK, ChargesInv, UNCHANGED <<runs, fee, stored, history>>,
         \A d \in Crons : cron'[d].at \in Active =>
            cron'[d].at = cron[d].at /\ cron'[d].run = cron[d].run
  PROVE  ChargesInv'
<1>1. RunsAgreeWithCharges'
  BY DEF ChargesInv, RunsAgreeWithCharges
<1> QED BY <1>1 DEF ChargesInv, Working, Suits

\* A pass that moves on with its run, whose charge alone it may change.
LEMMA ChargeMoves ==
  ASSUME MonitoringTypeOK, ChargesInv, NEW c \in Crons, NEW place \in CronPlaces,
         cron[c].at \in Active, Stands(c, place), UNCHANGED <<runs, stored>>,
         \A r \in Runs : r # cron[c].run => fee'[r] = fee[r],
         history.swept \subseteq history'.swept,
         history.misreported \subseteq history'.misreported,
         \A r \in Runs : r = cron[c].run => Suits(r, place)'
  PROVE  ChargesInv'
<1> DEFINE mine == cron[c].run
<1>1. /\ \A d \in Crons : cron'[d].run = cron[d].run /\ (d # c => cron'[d] = cron[d])
      /\ cron'[c].at = place
  BY Standing
<1>2. mine \in Jobs \X Nat /\ mine[2] <= runs[mine[1]] /\ (mine \in Runs => stored[mine] = "none")
  BY DEF ChargesInv, Working
<1>3. ASSUME NEW d \in Crons, cron'[d].at \in Active PROVE Working(d)'
  <2>1. CASE d = c
    BY <1>1, <1>2, <2>1 DEF Working
  <2>2. CASE d # c
    <3>1. cron'[d] = cron[d] /\ cron[d].run # mine
      BY <1>1, <1>3, <2>2 DEF ChargesInv
    <3>2. \A r \in Runs : r # mine /\ Suits(r, cron[d].at) => Suits(r, cron[d].at)'
      BY <3>1 DEF Suits
    <3>3. Working(d)
      BY <1>3, <3>1 DEF ChargesInv
    <3> QED BY <3>1, <3>2, <3>3 DEF Working
  <2> QED BY <2>1, <2>2
<1>4. \A d, e \in Crons :
         cron'[d].at \in Active /\ cron'[e].at \in Active /\ cron'[d].run = cron'[e].run => d = e
  BY <1>1 DEF ChargesInv
<1>5. \A r \in Runs : fee'[r] # "none" \/ stored'[r] # "none" => r[2] <= runs'[r[1]]
  BY <1>2 DEF ChargesInv
<1>6. RunsAgreeWithCharges'
  BY <1>2 DEF ChargesInv, RunsAgreeWithCharges
<1> QED BY <1>3, <1>4, <1>5, <1>6 DEF ChargesInv

LEMMA ChargesStep == MonitoringTypeOK /\ ChargesInv /\ [MonitoringNext]_monitoringVars => ChargesInv'
<1> SUFFICES ASSUME MonitoringTypeOK, ChargesInv, [MonitoringNext]_monitoringVars PROVE ChargesInv'
  OBVIOUS
<1>1. CASE UNCHANGED <<schedule, cron, fee, stored, history>>
  BY <1>1, NothingCharged DEF schedule
<1>2. ASSUME NEW c \in Crons, ListDue(c) \/ Finish(c) \/ CronDies(c) PROVE ChargesInv'
  <2>1. PICK pass : cron' = [cron EXCEPT ![c] = pass] /\ pass.at \notin Active
    BY <1>2 DEF ListDue, Finish, CronDies, Stands, Active, MonitoringTypeOK
  <2> QED BY <1>2, <2>1, NothingCharged DEF ListDue, Finish, CronDies, schedule, MonitoringTypeOK
<1>3. ASSUME NEW c \in Crons, OwnerGone(c) PROVE ChargesInv'
  BY <1>3, Standing, NothingCharged DEF OwnerGone, schedule, CronPlaces, Active
<1>4. ASSUME NEW c \in Crons, Authorize(c) PROVE ChargesInv'
  <2>1. PICK r : r = cron[c].run
    OBVIOUS
  <2>2. cron[c].at \in Active /\ (r \in Runs => fee[r] = "none")
    BY <1>4, <2>1 DEF Authorize, Active, ChargesInv, Working, Suits
  <2>3. PICK place \in {"authorized", "failed"} :
          /\ Stands(c, place)
          /\ fee' = [fee EXCEPT ![r] = "pending"] \/ (place = "failed" /\ fee' = fee)
    BY <1>4, <2>1 DEF Authorize
  <2>4. \A q \in Runs : q # r => fee'[q] = fee[q]
    BY <2>3 DEF MonitoringTypeOK
  <2>5. r \in Runs => fee'[r] = "pending" \/ (place = "failed" /\ fee'[r] = "none")
    BY <2>2, <2>3 DEF MonitoringTypeOK
  <2>6. r \in Runs => Suits(r, place)'
    BY <2>5 DEF Suits
  <2> QED BY <1>4, <2>1, <2>2, <2>3, <2>4, <2>6, ChargeMoves DEF Authorize, schedule, CronPlaces
<1>5. ASSUME NEW c \in Crons, Execute(c) PROVE ChargesInv'
  <2>1. PICK place \in {"executed", "releasing"} : Stands(c, place)
    BY <1>5 DEF Execute
  <2>2. cron[c].at = "authorized" /\ cron[c].at \in Active /\ UNCHANGED <<fee, history>>
    BY <1>5 DEF Execute, Active
  <2>3. \A r \in Runs : r = cron[c].run => Suits(r, place)'
    BY <2>2 DEF Suits, ChargesInv, Working
  <2> QED BY <1>5, <2>1, <2>2, <2>3, ChargeMoves DEF Execute, schedule, CronPlaces
<1>6. ASSUME NEW c \in Crons, SettleRun(c) PROVE ChargesInv'
  <2>1. PICK r : r = cron[c].run
    OBVIOUS
  <2> DEFINE settled == [fee EXCEPT ![r] = IF @ = "pending" THEN "settled" ELSE @]
  <2>2. /\ cron[c].at \in Active
        /\ r \in Runs => fee[r] = "pending" \/ (fee[r] = "refunded" /\ r \in history.swept)
    BY <1>6, <2>1 DEF SettleRun, Active, ChargesInv, Working, Suits
  <2>3. PICK place \in {"succeeded", "releasing"} :
          /\ Stands(c, place) /\ fee' \in {fee, settled}
          /\ place = "succeeded" => fee' = settled /\ history' = history
          /\ place = "releasing" => history' = IF fee' = fee THEN history
                                               ELSE [history EXCEPT !.misreported = @ \cup {r}]
    BY <1>6, <2>1 DEF SettleRun
  <2>4. \A q \in Runs : q # r => fee'[q] = fee[q]
    BY <2>3 DEF MonitoringTypeOK
  <2>5. /\ history.swept = history'.swept
        /\ history.misreported \subseteq history'.misreported
        /\ place = "releasing" /\ fee' # fee => r \in history'.misreported
    BY <2>3 DEF MonitoringTypeOK
  <2>6. r \in Runs /\ place = "succeeded" => fee'[r] = "settled" \/ r \in history'.swept
    BY <2>2, <2>3, <2>5 DEF MonitoringTypeOK
  <2>7. r \in Runs /\ place = "releasing" => fee'[r] # "settled" \/ r \in history'.misreported
    BY <2>2, <2>3, <2>5
  <2>8. r \in Runs => Suits(r, place)'
    BY <2>6, <2>7 DEF Suits
  <2> QED BY <1>6, <2>1, <2>2, <2>3, <2>4, <2>5, <2>8, ChargeMoves DEF SettleRun, schedule, CronPlaces
<1>7. ASSUME NEW c \in Crons, ReleaseRun(c) PROVE ChargesInv'
  <2>1. PICK r : r = cron[c].run
    OBVIOUS
  <2>2. /\ cron[c].at \in Active
        /\ r \in Runs => fee[r] # "settled" \/ r \in history.misreported
    BY <1>7, <2>1 DEF ReleaseRun, Active, ChargesInv, Working, Suits
  <2>3. /\ \A q \in Runs : q # r => fee'[q] = fee[q]
        /\ r \in Runs => fee'[r] \in {fee[r], "refunded"}
    BY <1>7, <2>1 DEF ReleaseRun, Refunded, MonitoringTypeOK
  <2>4. r \in Runs => Suits(r, "failed")'
    BY <1>7, <2>2, <2>3 DEF ReleaseRun, Suits
  <2> QED BY <1>7, <2>1, <2>2, <2>3, <2>4, ChargeMoves DEF ReleaseRun, schedule, CronPlaces
<1>8. ASSUME NEW c \in Crons, StoreRun(c) PROVE ChargesInv'
  <2> DEFINE r == cron[c].run
  <2>1. /\ \A d \in Crons : d # c => cron'[d] = cron[d]
        /\ cron'[c].at \notin Active
    BY <1>8, Standing, Idling DEF StoreRun, CronPlaces, Active
  <2>2. cron[c].at \in Active
    BY <1>8 DEF StoreRun, Active
  <2>3. UNCHANGED <<runs, fee, history>>
    BY <1>8 DEF StoreRun, schedule
  <2>4. CASE stored' = stored
    BY <2>1, <2>3, <2>4, NothingCharged
  <2>5. CASE stored' = [stored EXCEPT ![r] = cron[c].at]
    <3>1. \A q \in Runs : q # r => stored'[q] = stored[q]
      BY <2>5 DEF MonitoringTypeOK
    <3>2. r \in Runs => stored'[r] = cron[c].at
      BY <2>5 DEF MonitoringTypeOK
    <3>6. \A q \in Runs : q = r => Suits(q, cron[c].at)
      BY <2>2 DEF ChargesInv, Working
    <3>3. RunsAgreeWithCharges'
      BY <2>3, <3>1, <3>2, <3>6 DEF ChargesInv, RunsAgreeWithCharges, Suits
    <3>4. \A q \in Runs : fee'[q] # "none" \/ stored'[q] # "none" => q[2] <= runs'[q[1]]
      BY <2>2, <2>3, <3>1 DEF ChargesInv, Working
    <3>5. \A d \in Crons : cron'[d].at \in Active => d # c /\ cron'[d] = cron[d] /\ cron[d].run # r
      BY <2>1, <2>2 DEF ChargesInv
    <3> QED BY <2>3, <3>1, <3>3, <3>4, <3>5 DEF ChargesInv, Working, Suits
  <2> QED BY <1>8, <2>4, <2>5 DEF StoreRun
<1>9. ASSUME NEW c \in Crons, NEW j \in Jobs, ClaimJob(c, j) PROVE ChargesInv'
  <2>1. UNCHANGED <<fee, stored, history>>
    BY <1>9 DEF ClaimJob
  <2>2. CASE Start(c, j)
    <3> DEFINE r == <<j, runs[j] + 1>>
    <3>1. /\ runs'[j] = runs[j] + 1 /\ \A i \in Jobs : i # j => runs'[i] = runs[i]
          /\ \A d \in Crons : d # c => cron'[d] = cron[d]
          /\ cron'[c].at = "started" /\ cron'[c].run = r
      BY <2>2, Starting
    <3>2. \A i \in Jobs : runs[i] \in Nat /\ runs[i] <= runs'[i]
      BY <3>1 DEF MonitoringTypeOK
    <3>3. \A q \in Jobs \X Nat : q[2] <= runs[q[1]] => q[2] <= runs'[q[1]] /\ q # r
      BY <3>1, <3>2
    <3>4. r \in Runs => fee[r] = "none" /\ stored[r] = "none"
      BY <3>2 DEF ChargesInv, MonitoringTypeOK
    <3>5. r \in Jobs \X Nat /\ r[2] <= runs'[r[1]]
      BY <3>1, <3>2
    <3>6. \A q \in Runs : q \in Jobs \X Nat
      BY MonitoringAssumption DEF Runs
    <3>7. ASSUME NEW d \in Crons, cron'[d].at \in Active PROVE Working(d)'
      <4>1. CASE d = c
        <5>1. \A q \in Runs : q = r => Suits(q, "started")'
          BY <2>1, <3>4 DEF Suits
        <5> QED BY <2>1, <3>1, <3>4, <3>5, <4>1, <5>1 DEF Working
      <4>2. CASE d # c
        <5>1. cron'[d] = cron[d] /\ Working(d)
          BY <3>1, <3>7, <4>2 DEF ChargesInv
        <5> QED BY <2>1, <3>3, <5>1 DEF Working, Suits
      <4> QED BY <4>1, <4>2
    <3>8. \A d, e \in Crons :
             cron'[d].at \in Active /\ cron'[e].at \in Active /\ cron'[d].run = cron'[e].run => d = e
      <4>1. \A d \in Crons : d # c /\ cron'[d].at \in Active => cron'[d].run # r
        BY <3>1, <3>3 DEF ChargesInv, Working
      <4> QED BY <3>1, <4>1 DEF ChargesInv
    <3>9. \A q \in Runs : fee'[q] # "none" \/ stored'[q] # "none" => q[2] <= runs'[q[1]]
      BY <2>1, <3>3, <3>6 DEF ChargesInv
    <3>10. RunsAgreeWithCharges'
      BY <2>1 DEF ChargesInv, RunsAgreeWithCharges
    <3> QED BY <3>7, <3>8, <3>9, <3>10 DEF ChargesInv
  <2>3. CASE cron' = [cron EXCEPT ![c].due = @ \ {j}] /\ UNCHANGED schedule
    BY <2>1, <2>3, NothingCharged DEF schedule, MonitoringTypeOK
  <2> QED BY <1>9, <2>2, <2>3 DEF ClaimJob
<1>10. ASSUME NEW r \in Runs, SweepFee(r) PROVE ChargesInv'
  <2>1. /\ fee[r] = "pending" /\ fee'[r] = "refunded" /\ \A q \in Runs : q # r => fee'[q] = fee[q]
        /\ UNCHANGED <<runs, cron, stored>>
    BY <1>10 DEF SweepFee, Refunded, schedule, MonitoringTypeOK
  <2>2. /\ history'.swept = history.swept \cup {r} /\ history'.misreported = history.misreported
    BY <1>10 DEF SweepFee, MonitoringTypeOK
  <2>3. RunsAgreeWithCharges'
    BY <2>1, <2>2 DEF ChargesInv, RunsAgreeWithCharges
  <2>4. \A q \in Runs, place \in Active : Suits(q, place) => Suits(q, place)'
    BY <2>1, <2>2 DEF Suits, Active
  <2>5. \A c \in Crons : cron[c].at \in Active => Working(c)'
    BY <2>1, <2>4 DEF ChargesInv, Working
  <2> QED BY <2>1, <2>3, <2>5 DEF ChargesInv
<1> QED
  BY <1>1, <1>2, <1>3, <1>4, <1>5, <1>6, <1>7, <1>8, <1>9, <1>10
  DEF MonitoringNext, Tick, monitoringVars, schedule

\* Whatever passes overlap or die, a stored run agrees with its charge,
\* unless the sweep or an unreported settlement came between.
THEOREM RunsAgree == MonitoringSpec => []RunsAgreeWithCharges
<1>1. MonitoringInit => ChargesInv
  BY DEF MonitoringInit, ChargesInv, RunsAgreeWithCharges, Active
<1>2. ChargesInv => RunsAgreeWithCharges
  BY DEF ChargesInv
<1> QED BY <1>1, <1>2, MonitoringTyped, ChargesStep, PTL DEF MonitoringSpec

=============================================================================

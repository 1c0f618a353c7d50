---------------------------- MODULE MCOperations ----------------------------
(***************************************************************************)
(* Small instances of the components that have safety properties only:     *)
(* single-use credentials, x402, monitoring jobs, and company records.     *)
(* They share no state: a behaviour exercises one of them, chosen at the   *)
(* start, while the others rest in one of their initial states.            *)
(***************************************************************************)
EXTENDS PaidCall, X402Revenue, Monitoring, CompanyRecords, TLC

VARIABLE part

operationsVars == <<part, paidVars, x402Vars, monitoringVars, companyVars>>

\* A record with a registration number; one without, of the same name; and
\* the second again, with that number and another name.
SmallInputs ==
  {[key |-> "s1", reg |-> "R", name |-> "N"],
   [key |-> "s2", reg |-> "", name |-> "N"],
   [key |-> "s2", reg |-> "R", name |-> "M"]}
SmallImports == "i1" :> 2 @@ "i2" :> 1

OperationsInit ==
  /\ PaidInit /\ X402Init /\ MonitoringInit /\ CompanyInit
  /\ part \in {"single-use", "x402", "monitoring", "companies"}
  /\ part # "single-use" => \A r, s \in Requests : Of(r) = Of(s)
  /\ part # "x402" =>
       /\ \A k, j \in Calls : paid[k] = paid[j]
       /\ \A p, q \in Passes : pass[p] = pass[q]

OperationsNext ==
  \/ part = "single-use" /\ PaidNext /\ UNCHANGED <<part, x402Vars, monitoringVars, companyVars>>
  \/ part = "x402" /\ X402Next /\ UNCHANGED <<part, paidVars, monitoringVars, companyVars>>
  \/ part = "monitoring" /\ MonitoringNext /\ UNCHANGED <<part, paidVars, x402Vars, companyVars>>
  \/ part = "companies" /\ CompanyNext /\ UNCHANGED <<part, paidVars, x402Vars, monitoringVars>>

OperationsSpec == OperationsInit /\ [][OperationsNext]_operationsVars
=============================================================================

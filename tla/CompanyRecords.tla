--------------------------- MODULE CompanyRecords ---------------------------
(***************************************************************************)
(* The rows of oman_companies (src/src/db/businessStore.ts): imports that  *)
(* insert and update source records and resolve each new one to a company, *)
(* and operators who attach, split and flag rows (src/src/api/             *)
(* adminRoutes.ts).                                                        *)
(*                                                                         *)
(* An import is one transaction at READ COMMITTED: each statement sees     *)
(* what is committed and what the transaction wrote; a written row is      *)
(* locked until the transaction ends, and the unique index on the source   *)
(* record makes a second insert wait, then fail.  Operators' statements    *)
(* commit at once.  A row is named by its source record, and a company by  *)
(* the row that founded it, or by the split that created it.  A record     *)
(* without an id of its own is a key that no import uses again.            *)
(***************************************************************************)
EXTENDS Integers, FiniteSets

CONSTANTS
  Keys,       \* (source_name, source_record_id)
  Inputs,     \* records an import may hold: key, registration number, and
              \* normalized name with governorate ("" if either is missing)
  Imports,    \* imports, each one transaction
  Operators,  \* operators' requests
  MaxRecords  \* bound on the records of one import

ASSUME CompanyAssumption ==
  /\ Keys \cap Operators = {} /\ MaxRecords \in [Imports -> Nat]
  /\ \A r \in Inputs : r.key \in Keys /\ DOMAIN r = {"key", "reg", "name"}

VARIABLES
  table,     \* committed rows: company, registration ("" is null), name,
             \* admin_flag
  tx,        \* where each import is: its record, what it read, its writes
  ops,       \* where each operator's request is, its row and its company
  decided,   \* history: company and flag each row was given when it was
             \* inserted or by an operator
  excused    \* history: whether two imports overlapped, or an update or an
             \* operator moved a registration to another company

companyVars == <<table, tx, ops, decided, excused>>

NoRow == [company |-> "none", reg |-> "", name |-> "", flag |-> ""]
NoInput == [key |-> "none", reg |-> "", name |-> ""]
NoTx == [at |-> "idle", input |-> NoInput, read |-> NoRow, own |-> << >>, left |-> 0]
NoOp == [at |-> "idle", row |-> "none", company |-> "none"]
Ended == [NoTx EXCEPT !.at = "ended"]
Answered == [NoOp EXCEPT !.at = "ended"]

CompanyInit ==
  /\ table = [k \in Keys |-> NoRow]
  /\ tx = [i \in Imports |-> NoTx] /\ ops = [o \in Operators |-> NoOp]
  /\ decided = [k \in Keys |-> <<"none", "">>]
  /\ excused = FALSE

---------------------------------------------------------------------------
(* Imports.                                                                *)

Own(i) == DOMAIN tx[i].own
Sees(i, k) == IF k \in Own(i) THEN tx[i].own[k] ELSE table[k]
Locked(k, others) == \E i \in others : k \in Own(i)

Row(input, company, flag) ==
  [company |-> company, reg |-> input.reg, name |-> input.name, flag |-> flag]

BeginImport(i) ==
  /\ tx[i].at = "idle"
  /\ tx' = [tx EXCEPT ![i] = [NoTx EXCEPT !.at = "next", !.left = MaxRecords[i]]]
  /\ excused' = (excused \/ \E j \in Imports : tx[j].at \notin {"idle", "ended"})
  /\ UNCHANGED <<table, ops, decided>>

\* The first SELECT of a record.
ReadRecord(i, input) ==
  /\ tx[i].at = "next" /\ tx[i].left > 0
  /\ LET row == Sees(i, input.key) IN
     tx' = [tx EXCEPT ![i] = [at |-> IF row = NoRow THEN "resolving" ELSE "updating",
                              input |-> input, read |-> row, own |-> @.own, left |-> @.left - 1]]
  /\ UNCHANGED <<table, ops, decided, excused>>

NextRecord(i, own) ==
  tx' = [tx EXCEPT ![i] = [NoTx EXCEPT !.at = "next", !.own = own, !.left = tx[i].left]]

Put(i, k, row) ==
  NextRecord(i, [j \in Own(i) \cup {k} |-> IF j = k THEN row ELSE tx[i].own[j]])

\* Mutant: the row is written back as it was read.
UpdateAsRead(i) ==
  LET k == tx[i].input.key  read == tx[i].read IN
  /\ tx[i].at = "updating" /\ ~Locked(k, Imports \ {i})
  /\ Put(i, k, Row(tx[i].input, read.company, read.flag))
  /\ UNCHANGED <<table, ops, decided, excused>>

\* UPDATE ... WHERE id AND company_id = the company it read: if an operator
\* has moved the row since, nothing is written.
UpdateRow(i) ==
  LET k == tx[i].input.key  row == Sees(i, k) IN
  /\ tx[i].at = "updating" /\ ~Locked(k, Imports \ {i})
  /\ IF row.company = tx[i].read.company
     THEN Put(i, k, Row(tx[i].input, row.company, row.flag))
     ELSE NextRecord(i, tx[i].own)
  /\ excused' = (excused \/ row.reg # tx[i].input.reg)
  /\ UNCHANGED <<table, ops, decided>>

Known(i) == {k \in Keys : Sees(i, k) # NoRow}

\* Mutant: only the name counts.
ResolutionByName(i, input) == {k \in Known(i) : input.name # "" /\ Sees(i, k).name = input.name}

\* Rows a new record may be resolved to: with its registration number, else
\* with its name and governorate.
Resolution(i, input) ==
  LET byReg == {k \in Known(i) : input.reg # "" /\ Sees(i, k).reg = input.reg}
      byName == {k \in Known(i) : input.name # "" /\ Sees(i, k).name = input.name}
  IN  IF byReg # {} THEN byReg ELSE byName

\* The other SELECTs; LIMIT 1 picks any.
ResolveCompany(i) ==
  LET input == tx[i].input  rows == Resolution(i, input) IN
  /\ tx[i].at = "resolving"
  /\ \E company \in IF rows = {} THEN {input.key} ELSE {Sees(i, k).company : k \in rows} :
       tx' = [tx EXCEPT ![i] = [@ EXCEPT !.at = "inserting", !.read = [NoRow EXCEPT !.company = company]]]
  /\ UNCHANGED <<table, ops, decided, excused>>

\* INSERT: waits for another transaction that inserts the key; fails if one
\* has.
InsertRow(i) ==
  LET k == tx[i].input.key IN
  /\ tx[i].at = "inserting" /\ ~Locked(k, Imports \ {i})
  /\ IF table[k] = NoRow
     THEN Put(i, k, Row(tx[i].input, tx[i].read.company, ""))
     ELSE tx' = [tx EXCEPT ![i] = Ended]
  /\ UNCHANGED <<table, ops, decided, excused>>

CommitImport(i) ==
  /\ tx[i].at = "next"
  /\ table' = [k \in Keys |-> Sees(i, k)]
  /\ decided' = [k \in Keys |-> IF k \in Own(i) /\ table[k] = NoRow
                                THEN <<tx[i].own[k].company, "">> ELSE decided[k]]
  /\ tx' = [tx EXCEPT ![i] = Ended]
  /\ UNCHANGED <<ops, excused>>

\* An error, a deadlock or a crash rolls back.
RollBack(i) ==
  /\ tx[i].at \notin {"idle", "ended"} /\ tx' = [tx EXCEPT ![i] = Ended]
  /\ UNCHANGED <<table, ops, decided, excused>>

---------------------------------------------------------------------------
(* Operators.                                                              *)

Decide(k, company, flag) ==
  /\ ~Locked(k, Imports)
  /\ table' = [table EXCEPT ![k] = [@ EXCEPT !.company = company, !.flag = flag]]
  /\ decided' = [decided EXCEPT ![k] = <<company, flag>>]
  /\ excused' = (excused \/ company # table[k].company)

\* conflicts/resolve: the row belongs to the company of the page.
OpenConflict(o, k) ==
  /\ ops[o].at = "idle" /\ table[k] # NoRow
  /\ \E place \in {"splitting", "rejecting"} :
       ops' = [ops EXCEPT ![o] = [at |-> place, row |-> k, company |-> table[k].company]]
  /\ UNCHANGED <<table, tx, decided, excused>>

\* kept_separate: a company of its own, then the flag.
Split(o) ==
  LET k == ops[o].row IN
  /\ ops[o].at = "splitting" /\ Decide(k, o, table[k].flag)
  /\ ops' = [ops EXCEPT ![o].at = "separating"]
  /\ UNCHANGED tx

SetFlag(o) ==
  LET k == ops[o].row IN
  /\ ops[o].at \in {"separating", "rejecting"}
  /\ Decide(k, table[k].company, IF ops[o].at = "rejecting" THEN "rejected" ELSE "kept_separate")
  /\ ops' = [ops EXCEPT ![o] = Answered]
  /\ UNCHANGED tx

\* attachSourceRecord: evidence for a company the operator names, whatever
\* the row was.
Attach(o, input, company) ==
  LET k == input.key IN
  /\ ops[o].at = "idle" /\ \E j \in Keys : table[j].company = company /\ table[j] # NoRow
  /\ ~Locked(k, Imports)
  /\ table' = [table EXCEPT ![k] = Row(input, company, @.flag)]
  /\ decided' = [decided EXCEPT ![k] = <<company, table[k].flag>>]
  /\ excused' = TRUE
  /\ ops' = [ops EXCEPT ![o] = Answered]
  /\ UNCHANGED tx

\* The request fails between its statements.
GiveUp(o) ==
  /\ ops[o].at \notin {"idle", "ended"} /\ ops' = [ops EXCEPT ![o] = Answered]
  /\ UNCHANGED <<table, tx, decided, excused>>

CompanyNext ==
  \/ \E i \in Imports :
       \/ BeginImport(i) \/ UpdateRow(i) \/ ResolveCompany(i)
       \/ InsertRow(i) \/ CommitImport(i) \/ RollBack(i)
       \/ \E input \in Inputs : ReadRecord(i, input)
  \/ \E o \in Operators :
       \/ Split(o) \/ SetFlag(o) \/ GiveUp(o)
       \/ \E k \in Keys : OpenConflict(o, k)
       \/ \E input \in Inputs, k \in Keys : Attach(o, input, table[k].company)

CompanySpec == CompanyInit /\ [][CompanyNext]_companyVars

---------------------------------------------------------------------------
(* Properties.                                                             *)

\* A row belongs to the company and carries the flag that its insertion or
\* an operator gave it last: "the only way a companyId ever changes after
\* insertion" is an operator's (relinkRow), and a flag is set "never as a
\* side effect of a normal source import" (companyRepository.ts), though an
\* import reads the row, waits, and writes it back.
OperatorsDecide ==
  \A k \in Keys : table[k] # NoRow => <<table[k].company, table[k].flag>> = decided[k]

\* "An exact registration-number match wins" (businessStore.ts): two rows
\* with one registration are of one company, unless an update or an
\* operator moved a row, or two imports overlapped.
RegistrationsAgree ==
  \A j, k \in Keys :
    table[j].reg = table[k].reg /\ table[j].reg # "" =>
      excused \/ table[j].company = table[k].company
=============================================================================

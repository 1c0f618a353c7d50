------------------------ MODULE CompanyRecordsProofs ------------------------
(***************************************************************************)
(* What holds of the rows of companies for any number of records, imports  *)
(* and operators.                                                          *)
(***************************************************************************)
EXTENDS CompanyRecords, TLAPS

Companies == Keys \cup Operators \cup {"none"}
Rows == [company : Companies, reg : {r.reg : r \in Inputs} \cup {""},
         name : {r.name : r \in Inputs} \cup {""},
         flag : {"", "kept_separate", "rejected"}]
Writes == UNION {[S -> Rows] : S \in SUBSET Keys}
ImportPlaces == {"idle", "next", "updating", "resolving", "inserting", "ended"}
Transactions == [at : ImportPlaces, input : Inputs \cup {NoInput}, read : Rows, own : Writes, left : Int]

CompanyTypeOK ==
  /\ table \in [Keys -> Rows]
  /\ tx \in [Imports -> Transactions]
  /\ \A i \in Imports : tx[i].at \in {"updating", "resolving", "inserting"} => tx[i].input \in Inputs
  /\ ops \in [Operators -> [at : {"idle", "splitting", "separating", "rejecting", "ended"},
                            row : Keys \cup {"none"}, company : Companies]]
  /\ \A o \in Operators : ops[o].at \notin {"idle", "ended"} => ops[o].row \in Keys
  /\ decided \in [Keys -> Companies \X {"", "kept_separate", "rejected"}]

---------------------------------------------------------------------------
(* Lemmas about rows and transactions.                                     *)

LEMMA NoRowIsARow == NoRow \in Rows
BY DEF NoRow, Rows, Companies

LEMMA RowIsARow ==
  ASSUME NEW input \in Inputs, NEW company \in Companies, NEW flag \in {"", "kept_separate", "rejected"}
  PROVE  /\ Row(input, company, flag) \in Rows
         /\ Row(input, company, flag).company = company /\ Row(input, company, flag).flag = flag
BY DEF Row, Rows

LEMMA NoWrites == DOMAIN NoTx.own = {} /\ NoTx.own \in Writes
<1>1. NoTx.own = << >>
  BY DEF NoTx
<1>2. DOMAIN << >> = {}
  OBVIOUS
<1>3. << >> \in [{} -> Rows]
  BY <1>2
<1> QED BY <1>1, <1>2, <1>3 DEF Writes

LEMMA NoTxIsATransaction == NoTx \in Transactions
<1>1. NoTx = [at |-> "idle", input |-> NoInput, read |-> NoRow, own |-> NoTx.own, left |-> 0]
  BY DEF NoTx
<1> QED BY <1>1, NoWrites, NoRowIsARow DEF Transactions, ImportPlaces

LEMMA EndedIsATransaction == Ended \in Transactions /\ Ended.own = NoTx.own /\ Ended.at = "ended"
BY NoTxIsATransaction DEF Ended, Transactions, ImportPlaces

\* What a transaction wrote is rows of keys.
LEMMA OwnRows ==
  ASSUME CompanyTypeOK, NEW i \in Imports
  PROVE  /\ Own(i) \subseteq Keys /\ \A k \in Own(i) : tx[i].own[k] \in Rows
         /\ \A k \in Keys : Sees(i, k) \in Rows
<1>1. tx[i].own \in Writes
  BY DEF CompanyTypeOK, Transactions
<1>2. PICK S \in SUBSET Keys : tx[i].own \in [S -> Rows]
  BY <1>1 DEF Writes
<1> QED BY <1>2 DEF CompanyTypeOK, Own, Sees

\* A transaction goes on with its next record.
LEMMA NextRecords ==
  ASSUME CompanyTypeOK, NEW i \in Imports, NEW own \in Writes, NextRecord(i, own)
  PROVE  /\ tx' \in [Imports -> Transactions]
         /\ \A j \in Imports : j # i => tx'[j] = tx[j]
         /\ tx'[i].at = "next" /\ tx'[i].own = own
<1> DEFINE now == [NoTx EXCEPT !.at = "next", !.own = own, !.left = tx[i].left]
<1>1. now \in Transactions /\ now.at = "next" /\ now.own = own
  <2>1. "next" \in ImportPlaces /\ tx[i].left \in Int
    BY DEF ImportPlaces, CompanyTypeOK, Transactions
  <2> QED BY <2>1, NoTxIsATransaction DEF Transactions
<1>2. tx' = [tx EXCEPT ![i] = now]
  BY DEF NextRecord
<1> HIDE DEF now
<1> QED BY <1>1, <1>2 DEF CompanyTypeOK

\* A transaction writes a row.
LEMMA PutWrites ==
  ASSUME CompanyTypeOK, NEW i \in Imports, NEW k \in Keys, NEW row \in Rows, Put(i, k, row)
  PROVE  /\ tx' \in [Imports -> Transactions]
         /\ \A j \in Imports : j # i => tx'[j] = tx[j]
         /\ tx'[i].at = "next"
         /\ DOMAIN tx'[i].own = Own(i) \cup {k}
         /\ tx'[i].own[k] = row
         /\ \A j \in Own(i) : j # k => tx'[i].own[j] = tx[i].own[j]
<1> DEFINE own == [j \in Own(i) \cup {k} |-> IF j = k THEN row ELSE tx[i].own[j]]
<1>1. own \in [Own(i) \cup {k} -> Rows] /\ Own(i) \cup {k} \in SUBSET Keys
  BY OwnRows
<1>2. own \in Writes
  BY <1>1 DEF Writes
<1>3. /\ DOMAIN own = Own(i) \cup {k} /\ own[k] = row
      /\ \A j \in Own(i) : j # k => own[j] = tx[i].own[j]
  OBVIOUS
<1>4. NextRecord(i, own)
  BY DEF Put
<1> HIDE DEF own
<1> QED BY <1>2, <1>3, <1>4, NextRecords

\* A transaction that ends, or another that begins, writes nothing.
LEMMA TransactionSet ==
  ASSUME CompanyTypeOK, NEW i \in Imports, NEW now \in Transactions, tx' = [tx EXCEPT ![i] = now]
  PROVE  /\ tx' \in [Imports -> Transactions]
         /\ \A j \in Imports : j # i => tx'[j] = tx[j]
         /\ tx'[i] = now
BY DEF CompanyTypeOK

---------------------------------------------------------------------------
(* What a step of an import, or of an operator, changes.                   *)

LEMMA ImportTypes ==
  ASSUME CompanyTypeOK, UNCHANGED <<table, ops, decided>>,
         tx' \in [Imports -> Transactions], NEW i \in Imports,
         \A j \in Imports : j # i => tx'[j] = tx[j],
         tx'[i].at \in {"updating", "resolving", "inserting"} => tx'[i].input \in Inputs
  PROVE  CompanyTypeOK'
BY DEF CompanyTypeOK

\* UpdateRow writes a row, if at all, with the company and flag it has now.
LEMMA UpdateWrites ==
  ASSUME CompanyTypeOK, NEW i \in Imports, UpdateRow(i)
  PROVE  /\ tx[i].input.key \in Keys /\ ~Locked(tx[i].input.key, Imports \ {i})
         /\ \/ NextRecord(i, tx[i].own)
            \/ LET k == tx[i].input.key IN
               \E row \in Rows : /\ Put(i, k, row) /\ row.company = Sees(i, k).company
                                 /\ row.flag = Sees(i, k).flag
<1>1. tx[i].input \in Inputs /\ ~Locked(tx[i].input.key, Imports \ {i})
  BY DEF UpdateRow, CompanyTypeOK
<1>2. tx[i].input.key \in Keys
  BY <1>1, CompanyAssumption
<1> DEFINE k == tx[i].input.key
           seen == Sees(i, k)
           row == Row(tx[i].input, seen.company, seen.flag)
<1>3. seen \in Rows
  BY <1>2, OwnRows
<1>4. seen.company \in Companies /\ seen.flag \in {"", "kept_separate", "rejected"}
  BY <1>3 DEF Rows
<1>5. row \in Rows /\ row.company = seen.company /\ row.flag = seen.flag
  <2> HIDE DEF seen
  <2>1. PICK company, flag : company = seen.company /\ flag = seen.flag
    OBVIOUS
  <2>2. /\ Row(tx[i].input, company, flag) \in Rows
        /\ Row(tx[i].input, company, flag).company = company
        /\ Row(tx[i].input, company, flag).flag = flag
    BY <1>1, <1>4, <2>1 DEF Row, Rows
  <2> QED BY <2>1, <2>2
<1>6. NextRecord(i, tx[i].own) \/ Put(i, k, row)
  BY DEF UpdateRow
<1> HIDE DEF row, seen
<1>7. NextRecord(i, tx[i].own) \/ \E x \in Rows : Put(i, k, x) /\ x.company = seen.company /\ x.flag = seen.flag
  BY <1>5, <1>6
<1> QED BY <1>1, <1>2, <1>7 DEF seen

\* InsertRow writes a row without a flag, where there is none, or fails.
LEMMA InsertWrites ==
  ASSUME CompanyTypeOK, NEW i \in Imports, InsertRow(i)
  PROVE  /\ tx[i].input.key \in Keys /\ ~Locked(tx[i].input.key, Imports \ {i})
         /\ \/ tx' = [tx EXCEPT ![i] = Ended]
            \/ LET k == tx[i].input.key IN
               table[k] = NoRow /\ \E row \in Rows : Put(i, k, row) /\ row.flag = ""
<1>1. tx[i].input \in Inputs /\ ~Locked(tx[i].input.key, Imports \ {i})
  BY DEF InsertRow, CompanyTypeOK
<1>2. tx[i].input.key \in Keys /\ tx[i].read.company \in Companies
  BY <1>1, CompanyAssumption DEF CompanyTypeOK, Transactions, Rows
<1> DEFINE row == Row(tx[i].input, tx[i].read.company, "")
<1>3. row \in Rows /\ row.flag = ""
  BY <1>1, <1>2, RowIsARow
<1>4. tx' = [tx EXCEPT ![i] = Ended] \/ (table[tx[i].input.key] = NoRow /\ Put(i, tx[i].input.key, row))
  BY DEF InsertRow
<1> HIDE DEF row
<1> QED BY <1>1, <1>2, <1>3, <1>4

\* BeginImport and RollBack start and end a transaction without writes.
LEMMA Empties ==
  ASSUME CompanyTypeOK, NEW i \in Imports, BeginImport(i) \/ RollBack(i)
  PROVE  \E now \in Transactions :
            /\ tx' = [tx EXCEPT ![i] = now] /\ now.at \in {"next", "ended"} /\ DOMAIN now.own = {}
<1>1. CASE BeginImport(i)
  <2> DEFINE now == [NoTx EXCEPT !.at = "next", !.left = MaxRecords[i]]
  <2>1. now \in Transactions /\ now.at = "next" /\ now.own = NoTx.own
    <3>1. "next" \in ImportPlaces /\ MaxRecords[i] \in Int
      BY CompanyAssumption DEF ImportPlaces
    <3> QED BY <3>1, NoTxIsATransaction DEF Transactions
  <2>2. tx' = [tx EXCEPT ![i] = now]
    BY <1>1 DEF BeginImport
  <2> HIDE DEF now
  <2> QED BY <2>1, <2>2, NoWrites
<1>2. CASE RollBack(i)
  BY <1>2, EndedIsATransaction, NoWrites DEF RollBack
<1> QED BY <1>1, <1>2

\* ReadRecord and ResolveCompany keep what was written.
LEMMA Reads ==
  ASSUME CompanyTypeOK, NEW i \in Imports, ResolveCompany(i) \/ \E input \in Inputs : ReadRecord(i, input)
  PROVE  /\ tx' \in [Imports -> Transactions]
         /\ \A j \in Imports : (j # i => tx'[j] = tx[j]) /\ tx'[j].own = tx[j].own
         /\ tx'[i].input \in Inputs
<1>1. ASSUME NEW input \in Inputs, ReadRecord(i, input)
      PROVE  /\ tx' \in [Imports -> Transactions]
             /\ \A j \in Imports : (j # i => tx'[j] = tx[j]) /\ tx'[j].own = tx[j].own
             /\ tx'[i].input \in Inputs
  <2> DEFINE row == Sees(i, input.key)
             now == [at |-> IF row = NoRow THEN "resolving" ELSE "updating", input |-> input,
                     read |-> row, own |-> tx[i].own, left |-> tx[i].left - 1]
  <2>1. row \in Rows
    BY OwnRows, CompanyAssumption
  <2> HIDE DEF row
  <2>2. tx[i].own \in Writes /\ tx[i].left - 1 \in Int
    <3>1. tx[i] \in Transactions
      BY DEF CompanyTypeOK
    <3> QED BY <3>1 DEF Transactions
  <2>3. now \in Transactions /\ now.own = tx[i].own /\ now.input = input
    BY <2>1, <2>2 DEF Transactions, ImportPlaces
  <2>4. tx' = [tx EXCEPT ![i] = now]
    BY <1>1 DEF ReadRecord, row
  <2> HIDE DEF now
  <2> QED BY <2>3, <2>4, TransactionSet
<1>2. CASE ResolveCompany(i)
  <2>0. tx[i].input \in Inputs /\ tx[i] \in Transactions
    BY <1>2 DEF ResolveCompany, CompanyTypeOK
  <2>1. PICK company \in Companies :
          tx' = [tx EXCEPT ![i] = [tx[i] EXCEPT !.at = "inserting", !.read = [NoRow EXCEPT !.company = company]]]
    <3>2. tx[i].input.key \in Companies
      BY <2>0, CompanyAssumption DEF Companies
    <3>3. \A k \in Resolution(i, tx[i].input) : k \in Keys
      BY DEF Resolution, Known
    <3>4. \A k \in Resolution(i, tx[i].input) : Sees(i, k).company \in Companies
      BY <3>3, OwnRows DEF Rows
    <3> QED BY <1>2, <3>2, <3>4 DEF ResolveCompany
  <2> DEFINE now == [tx[i] EXCEPT !.at = "inserting", !.read = [NoRow EXCEPT !.company = company]]
  <2>2. [NoRow EXCEPT !.company = company] \in Rows /\ "inserting" \in ImportPlaces
    BY NoRowIsARow DEF Rows, ImportPlaces
  <2>3. now \in Transactions /\ now.own = tx[i].own /\ now.input = tx[i].input
    BY <2>0, <2>2 DEF Transactions
  <2>4. tx' = [tx EXCEPT ![i] = now]
    BY <2>1
  <2> HIDE DEF now
  <2> QED BY <2>0, <2>3, <2>4, TransactionSet
<1> QED BY <1>1, <1>2

\* An operator decides on a row that no import has locked.
LEMMA DecideSets ==
  ASSUME CompanyTypeOK, NEW k \in Keys, NEW company \in Companies,
         NEW flag \in {"", "kept_separate", "rejected"}, Decide(k, company, flag)
  PROVE  /\ table' \in [Keys -> Rows] /\ decided' \in [Keys -> Companies \X {"", "kept_separate", "rejected"}]
         /\ \A i \in Imports : k \notin Own(i)
         /\ \A j \in Keys : j # k => table'[j] = table[j] /\ decided'[j] = decided[j]
         /\ decided'[k] = <<table'[k].company, table'[k].flag>>
<1> DEFINE row == [table[k] EXCEPT !.company = company, !.flag = flag]
<1>1. /\ \A i \in Imports : k \notin Own(i)
      /\ table' = [table EXCEPT ![k] = row]
      /\ decided' = [decided EXCEPT ![k] = <<company, flag>>]
  BY DEF Decide, Locked
<1>2. row \in Rows /\ row.company = company /\ row.flag = flag
  <2>1. table[k] \in Rows
    BY DEF CompanyTypeOK
  <2> DEFINE R == {r.reg : r \in Inputs} \cup {""}
             N == {r.name : r \in Inputs} \cup {""}
             C == Companies
  <2>2. Rows = [company : C, reg : R, name : N, flag : {"", "kept_separate", "rejected"}] /\ company \in C
    BY DEF Rows
  <2> HIDE DEF R, N, C
  <2> QED BY <2>1, <2>2
<1> HIDE DEF row
<1>3. table \in [Keys -> Rows] /\ decided \in [Keys -> Companies \X {"", "kept_separate", "rejected"}]
  BY DEF CompanyTypeOK
<1>4. table' \in [Keys -> Rows] /\ table'[k] = row /\ \A j \in Keys : j # k => table'[j] = table[j]
  BY <1>1, <1>2, <1>3
<1>5. /\ decided' \in [Keys -> Companies \X {"", "kept_separate", "rejected"}]
      /\ decided'[k] = <<company, flag>> /\ \A j \in Keys : j # k => decided'[j] = decided[j]
  BY <1>1, <1>3
<1> QED BY <1>1, <1>2, <1>4, <1>5

---------------------------------------------------------------------------
(* Types.                                                                  *)

LEMMA TypeInit == CompanyInit => CompanyTypeOK
<1> SUFFICES ASSUME CompanyInit PROVE CompanyTypeOK
  OBVIOUS
<1>1. table \in [Keys -> Rows]
  BY NoRowIsARow DEF CompanyInit
<1>2. tx \in [Imports -> Transactions] /\ \A i \in Imports : tx[i].at = "idle"
  <2>1. NoTx.at = "idle"
    BY DEF NoTx
  <2> QED BY <2>1, NoTxIsATransaction DEF CompanyInit
<1>3. ops \in [Operators -> [at : {"idle", "splitting", "separating", "rejecting", "ended"},
                            row : Keys \cup {"none"}, company : Companies]]
  BY DEF CompanyInit, NoOp, Companies
<1>4. \A o \in Operators : ops[o].at = "idle"
  BY DEF CompanyInit, NoOp
<1>5. decided \in [Keys -> Companies \X {"", "kept_separate", "rejected"}]
  BY DEF CompanyInit, Companies
<1> QED BY <1>1, <1>2, <1>3, <1>4, <1>5 DEF CompanyTypeOK

LEMMA TypeStep == CompanyTypeOK /\ [CompanyNext]_companyVars => CompanyTypeOK'
<1> SUFFICES ASSUME CompanyTypeOK, [CompanyNext]_companyVars PROVE CompanyTypeOK'
  OBVIOUS
<1>1. CASE UNCHANGED companyVars
  BY <1>1 DEF companyVars, CompanyTypeOK
<1>2. ASSUME NEW i \in Imports, BeginImport(i) \/ RollBack(i) PROVE CompanyTypeOK'
  <2>1. PICK now \in Transactions : tx' = [tx EXCEPT ![i] = now] /\ now.at \in {"next", "ended"}
    BY <1>2, Empties
  <2>2. UNCHANGED <<table, ops, decided>>
    BY <1>2 DEF BeginImport, RollBack
  <2> QED BY <2>1, <2>2, TransactionSet, ImportTypes
<1>3. ASSUME NEW i \in Imports, ResolveCompany(i) \/ \E input \in Inputs : ReadRecord(i, input)
      PROVE  CompanyTypeOK'
  <2>1. UNCHANGED <<table, ops, decided>>
    BY <1>3 DEF ResolveCompany, ReadRecord
  <2> QED BY <1>3, <2>1, Reads, ImportTypes
<1>4. ASSUME NEW i \in Imports, UpdateRow(i) PROVE CompanyTypeOK'
  <2>1. UNCHANGED <<table, ops, decided>> /\ tx[i].own \in Writes
    BY <1>4 DEF UpdateRow, CompanyTypeOK, Transactions
  <2>2. CASE NextRecord(i, tx[i].own)
    BY <2>1, <2>2, NextRecords, ImportTypes
  <2>3. ASSUME NEW row \in Rows, Put(i, tx[i].input.key, row) PROVE CompanyTypeOK'
    BY <1>4, <2>1, <2>3, UpdateWrites, PutWrites, ImportTypes
  <2> QED BY <1>4, <2>2, <2>3, UpdateWrites
<1>5. ASSUME NEW i \in Imports, InsertRow(i) PROVE CompanyTypeOK'
  <2>1. UNCHANGED <<table, ops, decided>>
    BY <1>5 DEF InsertRow
  <2>2. CASE tx' = [tx EXCEPT ![i] = Ended]
    BY <2>1, <2>2, EndedIsATransaction, TransactionSet, ImportTypes
  <2>3. ASSUME NEW row \in Rows, Put(i, tx[i].input.key, row) PROVE CompanyTypeOK'
    BY <1>5, <2>1, <2>3, InsertWrites, PutWrites, ImportTypes
  <2> QED BY <1>5, <2>2, <2>3, InsertWrites
<1>6. ASSUME NEW i \in Imports, CommitImport(i) PROVE CompanyTypeOK'
  <2>1. table' \in [Keys -> Rows]
    BY <1>6, OwnRows DEF CommitImport
  <2>2. decided' \in [Keys -> Companies \X {"", "kept_separate", "rejected"}]
    <3>1. \A k \in Own(i) : tx[i].own[k].company \in Companies
      BY OwnRows DEF Rows
    <3> QED BY <1>6, <3>1 DEF CommitImport, CompanyTypeOK
  <2>3. /\ tx' \in [Imports -> Transactions] /\ \A j \in Imports : j # i => tx'[j] = tx[j]
        /\ tx'[i].at = "ended"
    BY <1>6, EndedIsATransaction, TransactionSet DEF CommitImport
  <2>4. ops' = ops
    BY <1>6 DEF CommitImport
  <2> QED BY <2>1, <2>2, <2>3, <2>4 DEF CompanyTypeOK
<1>7. ASSUME NEW o \in Operators, NEW k \in Keys, OpenConflict(o, k) PROVE CompanyTypeOK'
  <2>1. PICK place \in {"splitting", "rejecting"} :
          ops' = [ops EXCEPT ![o] = [at |-> place, row |-> k, company |-> table[k].company]]
    BY <1>7 DEF OpenConflict
  <2>2. table[k].company \in Companies
    BY DEF CompanyTypeOK, Rows
  <2> QED BY <1>7, <2>1, <2>2 DEF OpenConflict, CompanyTypeOK
<1>8. Answered \in [at : {"idle", "splitting", "separating", "rejecting", "ended"},
                    row : Keys \cup {"none"}, company : Companies] /\ Answered.at = "ended"
  BY DEF Answered, NoOp, Companies
<1>9. ASSUME NEW o \in Operators, GiveUp(o) PROVE CompanyTypeOK'
  BY <1>8, <1>9 DEF GiveUp, CompanyTypeOK
<1>10. ASSUME NEW o \in Operators, Split(o) PROVE CompanyTypeOK'
  <2>1. ops[o].row \in Keys /\ o \in Companies /\ tx' = tx /\ ops' = [ops EXCEPT ![o].at = "separating"]
    BY <1>10 DEF Split, CompanyTypeOK, Companies
  <2>2. table[ops[o].row].flag \in {"", "kept_separate", "rejected"}
    BY <2>1 DEF CompanyTypeOK, Rows
  <2>3. /\ table' \in [Keys -> Rows]
        /\ decided' \in [Keys -> Companies \X {"", "kept_separate", "rejected"}]
    BY <1>10, <2>1, <2>2, DecideSets DEF Split
  <2>4. /\ ops' \in [Operators -> [at : {"idle", "splitting", "separating", "rejecting", "ended"},
                                  row : Keys \cup {"none"}, company : Companies]]
        /\ \A q \in Operators : ops'[q].row = ops[q].row /\ (q # o => ops'[q] = ops[q])
    BY <2>1 DEF CompanyTypeOK
  <2>5. \A q \in Operators : ops'[q].at \notin {"idle", "ended"} => ops'[q].row \in Keys
    BY <2>1, <2>4 DEF CompanyTypeOK
  <2> QED BY <2>1, <2>3, <2>4, <2>5 DEF CompanyTypeOK
<1>11. ASSUME NEW o \in Operators, SetFlag(o) PROVE CompanyTypeOK'
  <2>1. ops[o].row \in Keys /\ tx' = tx /\ ops' = [ops EXCEPT ![o] = Answered]
    BY <1>11 DEF SetFlag, CompanyTypeOK
  <2>2. table[ops[o].row].company \in Companies
    BY <2>1 DEF CompanyTypeOK, Rows
  <2>3. PICK flag \in {"rejected", "kept_separate"} : Decide(ops[o].row, table[ops[o].row].company, flag)
    BY <1>11 DEF SetFlag
  <2>4. /\ table' \in [Keys -> Rows]
        /\ decided' \in [Keys -> Companies \X {"", "kept_separate", "rejected"}]
    BY <2>1, <2>2, <2>3, DecideSets
  <2> QED BY <1>8, <2>1, <2>4 DEF CompanyTypeOK
<1>12. ASSUME NEW o \in Operators, NEW input \in Inputs, NEW k \in Keys, Attach(o, input, table[k].company)
       PROVE  CompanyTypeOK'
  <2>1. input.key \in Keys
    BY CompanyAssumption
  <2>2. table[k].company \in Companies /\ table[input.key].flag \in {"", "kept_separate", "rejected"}
    BY <2>1 DEF CompanyTypeOK, Rows
  <2>3. table' = [table EXCEPT ![input.key] = Row(input, table[k].company, table[input.key].flag)]
        /\ decided' = [decided EXCEPT ![input.key] = <<table[k].company, table[input.key].flag>>]
    BY <1>12 DEF Attach
  <2>4. Row(input, table[k].company, table[input.key].flag) \in Rows
    BY <2>2 DEF Row, Rows
  <2>5. table' \in [Keys -> Rows] /\ decided' \in [Keys -> Companies \X {"", "kept_separate", "rejected"}]
    BY <2>2, <2>3, <2>4 DEF CompanyTypeOK
  <2>6. tx' = tx /\ ops' = [ops EXCEPT ![o] = Answered]
    BY <1>12 DEF Attach
  <2> QED BY <1>8, <2>5, <2>6 DEF CompanyTypeOK
<1> QED
  BY <1>1, <1>2, <1>3, <1>4, <1>5, <1>6, <1>7, <1>9, <1>10, <1>11, <1>12 DEF CompanyNext

\* Every variable keeps its type, for any number of imports and operators.
THEOREM CompanyTyped == CompanySpec => []CompanyTypeOK
<1> QED BY TypeInit, TypeStep, PTL DEF CompanySpec

---------------------------------------------------------------------------
(* Who decides.                                                            *)

\* What a transaction may have written of a row that is committed as x.
Respects(row, x) ==
  IF x = NoRow THEN row.flag = "" ELSE row.company = x.company /\ row.flag = x.flag

\* A written row is locked, and has the company and the flag it is
\* committed with, or no flag.
LocksInv ==
  /\ \A i, j \in Imports : \A k \in Keys : k \in Own(i) /\ k \in Own(j) => i = j
  /\ \A i \in Imports : \A k \in Own(i) : Respects(tx[i].own[k], table[k])
  /\ OperatorsDecide

\* A transaction that leaves its writes, or drops them.
LEMMA WritesKept ==
  ASSUME CompanyTypeOK, LocksInv, UNCHANGED <<table, decided>>,
         \A i \in Imports : tx'[i].own = tx[i].own \/ DOMAIN tx'[i].own = {}
  PROVE  LocksInv'
<1>1. \A i \in Imports : DOMAIN tx'[i].own \subseteq Own(i) /\
        \A k \in DOMAIN tx'[i].own : tx'[i].own[k] = tx[i].own[k]
  BY DEF Own
<1>2. OperatorsDecide'
  BY DEF LocksInv, OperatorsDecide
<1> QED BY <1>1, <1>2 DEF LocksInv, Own

LEMMA PutKeepsLocks ==
  ASSUME CompanyTypeOK, LocksInv, UNCHANGED <<table, decided>>,
         NEW i \in Imports, NEW k \in Keys, NEW row \in Rows, Put(i, k, row),
         ~Locked(k, Imports \ {i}), Respects(row, table[k])
  PROVE  LocksInv'
<1>1. /\ \A j \in Imports : j # i => tx'[j] = tx[j]
      /\ DOMAIN tx'[i].own = Own(i) \cup {k} /\ tx'[i].own[k] = row
      /\ \A q \in Own(i) : q # k => tx'[i].own[q] = tx[i].own[q]
  BY PutWrites
<1>2. \A j \in Imports : j # i => k \notin Own(j)
  BY DEF Locked
<1>3. \A j \in Imports : j # i => Own(j)' = Own(j)
  BY <1>1 DEF Own
<1>4. Own(i)' = Own(i) \cup {k}
  BY <1>1 DEF Own
<1>5. \A j, h \in Imports : \A q \in Keys : q \in Own(j)' /\ q \in Own(h)' => j = h
  BY <1>2, <1>3, <1>4 DEF LocksInv
<1>6. \A j \in Imports : \A q \in Own(j)' : Respects(tx'[j].own[q], table'[q])
  <2>1. ASSUME NEW j \in Imports, NEW q \in Own(j)' PROVE Respects(tx'[j].own[q], table[q])
    <3>1. CASE j # i
      BY <1>1, <1>3, <2>1, <3>1 DEF LocksInv
    <3>2. CASE j = i /\ q = k
      BY <1>1, <3>2
    <3>3. CASE j = i /\ q # k
      BY <1>1, <1>4, <2>1, <3>3 DEF LocksInv
    <3> QED BY <3>1, <3>2, <3>3
  <2> QED BY <2>1
<1>7. OperatorsDecide'
  BY DEF LocksInv, OperatorsDecide
<1> QED BY <1>5, <1>6, <1>7 DEF LocksInv, Own

\* An operator's statement on a row that no transaction has written.
LEMMA DecisionKeepsLocks ==
  ASSUME CompanyTypeOK, LocksInv, tx' = tx, NEW k \in Keys,
         \A i \in Imports : k \notin Own(i),
         \A j \in Keys : j # k => table'[j] = table[j] /\ decided'[j] = decided[j],
         decided'[k] = <<table'[k].company, table'[k].flag>>
  PROVE  LocksInv'
<1>1. OperatorsDecide'
  BY DEF LocksInv, OperatorsDecide
<1>2. \A i \in Imports : Own(i)' = Own(i) /\ k \notin Own(i) /\ Own(i) \subseteq Keys
  BY OwnRows DEF Own
<1>3. \A i \in Imports : \A q \in Own(i) : Respects(tx[i].own[q], table'[q])
  BY <1>2 DEF LocksInv
<1> QED BY <1>1, <1>2, <1>3 DEF LocksInv, Own

LEMMA LocksStep == CompanyTypeOK /\ LocksInv /\ [CompanyNext]_companyVars => LocksInv'
<1> SUFFICES ASSUME CompanyTypeOK, LocksInv, [CompanyNext]_companyVars PROVE LocksInv'
  OBVIOUS
<1>1. CASE UNCHANGED <<table, tx, decided>>
  BY <1>1, WritesKept
<1>2. ASSUME NEW i \in Imports, BeginImport(i) \/ RollBack(i) PROVE LocksInv'
  <2>1. PICK now \in Transactions : tx' = [tx EXCEPT ![i] = now] /\ DOMAIN now.own = {}
    BY <1>2, Empties
  <2>2. \A j \in Imports : tx'[j].own = tx[j].own \/ DOMAIN tx'[j].own = {}
    BY <2>1, TransactionSet
  <2> QED BY <1>2, <2>2, WritesKept DEF BeginImport, RollBack
<1>3. ASSUME NEW i \in Imports, ResolveCompany(i) \/ \E input \in Inputs : ReadRecord(i, input)
      PROVE  LocksInv'
  <2>1. UNCHANGED <<table, decided>>
    BY <1>3 DEF ResolveCompany, ReadRecord
  <2> QED BY <1>3, <2>1, Reads, WritesKept
<1>4. ASSUME NEW i \in Imports, UpdateRow(i) PROVE LocksInv'
  <2> DEFINE k == tx[i].input.key
  <2>1. UNCHANGED <<table, decided>> /\ k \in Keys /\ ~Locked(k, Imports \ {i})
    BY <1>4, UpdateWrites DEF UpdateRow
  <2>2. CASE NextRecord(i, tx[i].own)
    <3>1. tx[i].own \in Writes
      BY DEF CompanyTypeOK, Transactions
    <3> QED BY <2>1, <2>2, <3>1, NextRecords, WritesKept
  <2>3. ASSUME NEW row \in Rows, Put(i, k, row), row.company = Sees(i, k).company, row.flag = Sees(i, k).flag
        PROVE  LocksInv'
    <3>1. Respects(Sees(i, k), table[k])
      <4>1. CASE k \in Own(i)
        BY <4>1 DEF Sees, LocksInv
      <4>2. CASE k \notin Own(i)
        <5>1. NoRow.flag = ""
          BY DEF NoRow
        <5> QED BY <4>2, <5>1 DEF Sees, Respects
      <4> QED BY <4>1, <4>2
    <3>2. Respects(row, table[k])
      BY <2>3, <3>1 DEF Respects
    <3> QED BY <2>1, <2>3, <3>2, PutKeepsLocks
  <2> QED BY <1>4, <2>2, <2>3, UpdateWrites
<1>5. ASSUME NEW i \in Imports, InsertRow(i) PROVE LocksInv'
  <2> DEFINE k == tx[i].input.key
  <2>1. UNCHANGED <<table, decided>> /\ k \in Keys /\ ~Locked(k, Imports \ {i})
    BY <1>5, InsertWrites DEF InsertRow
  <2>2. CASE tx' = [tx EXCEPT ![i] = Ended]
    <3>1. \A j \in Imports : tx'[j].own = tx[j].own \/ DOMAIN tx'[j].own = {}
      BY <2>2, EndedIsATransaction, NoWrites, TransactionSet
    <3> QED BY <2>1, <3>1, WritesKept
  <2>3. ASSUME NEW row \in Rows, table[k] = NoRow, Put(i, k, row), row.flag = "" PROVE LocksInv'
    <3>1. Respects(row, table[k])
      BY <2>3 DEF Respects
    <3> QED BY <2>1, <2>3, <3>1, PutKeepsLocks
  <2> QED BY <1>5, <2>2, <2>3, InsertWrites
<1>6. ASSUME NEW i \in Imports, CommitImport(i) PROVE LocksInv'
  <2>1. /\ \A j \in Imports : j # i => tx'[j] = tx[j]
        /\ DOMAIN tx'[i].own = {}
    BY <1>6, EndedIsATransaction, NoWrites, TransactionSet DEF CommitImport
  <2>2. \A k \in Keys : table'[k] = IF k \in Own(i) THEN tx[i].own[k] ELSE table[k]
    BY <1>6 DEF CommitImport, Sees
  <2>3. \A k \in Keys : decided'[k] = IF k \in Own(i) /\ table[k] = NoRow
                                      THEN <<tx[i].own[k].company, "">> ELSE decided[k]
    BY <1>6 DEF CommitImport
  <2>4. Own(i)' = {} /\ \A j \in Imports : j # i => Own(j)' = Own(j)
    BY <2>1 DEF Own
  <2>5. \A j \in Imports : Own(j) \subseteq Keys
    BY OwnRows
  <2>6. \A j \in Imports : \A k \in Own(j)' : Respects(tx'[j].own[k], table'[k])
    BY <2>1, <2>2, <2>4, <2>5 DEF LocksInv
  <2>7. ASSUME NEW k \in Keys, table'[k] # NoRow
        PROVE  <<table'[k].company, table'[k].flag>> = decided'[k]
    <3>1. CASE k \in Own(i) /\ table[k] = NoRow
      BY <2>2, <2>3, <3>1 DEF LocksInv, Respects
    <3>2. CASE k \in Own(i) /\ table[k] # NoRow
      BY <2>2, <2>3, <3>2 DEF LocksInv, Respects, OperatorsDecide
    <3>3. CASE k \notin Own(i)
      BY <2>2, <2>3, <2>7, <3>3 DEF LocksInv, OperatorsDecide
    <3> QED BY <3>1, <3>2, <3>3
  <2>8. OperatorsDecide'
    BY <2>7 DEF OperatorsDecide
  <2> QED BY <2>4, <2>6, <2>8 DEF LocksInv
<1>7. ASSUME NEW o \in Operators, Split(o) PROVE LocksInv'
  <2>1. ops[o].row \in Keys /\ o \in Companies /\ tx' = tx
    BY <1>7 DEF Split, CompanyTypeOK, Companies
  <2>2. table[ops[o].row].flag \in {"", "kept_separate", "rejected"}
    BY <2>1 DEF CompanyTypeOK, Rows
  <2> QED BY <1>7, <2>1, <2>2, DecideSets, DecisionKeepsLocks DEF Split
<1>8. ASSUME NEW o \in Operators, SetFlag(o) PROVE LocksInv'
  <2>1. ops[o].row \in Keys /\ tx' = tx
    BY <1>8 DEF SetFlag, CompanyTypeOK
  <2>2. table[ops[o].row].company \in Companies
    BY <2>1 DEF CompanyTypeOK, Rows
  <2>3. PICK flag \in {"rejected", "kept_separate"} : Decide(ops[o].row, table[ops[o].row].company, flag)
    BY <1>8 DEF SetFlag
  <2> QED BY <2>1, <2>2, <2>3, DecideSets, DecisionKeepsLocks
<1>9. ASSUME NEW o \in Operators, NEW input \in Inputs, NEW k \in Keys, Attach(o, input, table[k].company)
      PROVE  LocksInv'
  <2> DEFINE key == input.key
  <2>1. key \in Keys
    BY CompanyAssumption
  <2>2. /\ table' = [table EXCEPT ![key] = Row(input, table[k].company, table[key].flag)]
        /\ decided' = [decided EXCEPT ![key] = <<table[k].company, table[key].flag>>]
        /\ tx' = tx /\ \A i \in Imports : key \notin Own(i)
    BY <1>9 DEF Attach, Locked
  <2>3. /\ Row(input, table[k].company, table[key].flag).company = table[k].company
        /\ Row(input, table[k].company, table[key].flag).flag = table[key].flag
    BY DEF Row
  <2>4. decided'[key] = <<table'[key].company, table'[key].flag>>
    BY <2>1, <2>2, <2>3 DEF CompanyTypeOK
  <2>5. \A j \in Keys : j # key => table'[j] = table[j] /\ decided'[j] = decided[j]
    BY <2>2 DEF CompanyTypeOK
  <2> HIDE DEF key
  <2> QED BY <2>1, <2>2, <2>4, <2>5, DecisionKeepsLocks
<1> QED
  BY <1>1, <1>2, <1>3, <1>4, <1>5, <1>6, <1>7, <1>8, <1>9
  DEF CompanyNext, OpenConflict, GiveUp, companyVars

\* However imports and operators interleave, a row keeps the company and the
\* flag that its insertion or an operator gave it last.
THEOREM OperatorsDecided == CompanySpec => []OperatorsDecide
<1>1. CompanyInit => LocksInv
  <2>1. CompanyInit => \A i \in Imports : Own(i) = {}
    BY NoWrites DEF CompanyInit, Own
  <2> QED BY <2>1 DEF CompanyInit, LocksInv, OperatorsDecide
<1>2. LocksInv => OperatorsDecide
  BY DEF LocksInv
<1> QED BY <1>1, <1>2, CompanyTyped, LocksStep, PTL DEF CompanySpec

---------------------------------------------------------------------------
(* Registration numbers.                                                   *)

Running(i) == tx[i].at \notin {"idle", "ended"}
RowsAgree(x, y) == x.reg = y.reg /\ x.reg # "" => x.company = y.company
SameRecord(x, y) == x.reg = y.reg /\ x.company = y.company

\* Unless excused, one import runs at a time, the rows it sees agree as the
\* committed ones do, and a row it is about to insert agrees with them.
RegInv ==
  ~excused =>
    /\ \A j, k \in Keys : RowsAgree(table[j], table[k])
    /\ \A i, j \in Imports : Running(i) /\ Running(j) => i = j
    /\ \A i \in Imports : Running(i) => \A j, k \in Keys : RowsAgree(Sees(i, j), Sees(i, k))
    /\ \A i \in Imports : tx[i].at = "inserting" =>
         \A k \in Keys : Sees(i, k).reg = tx[i].input.reg /\ Sees(i, k).reg # ""
                           => Sees(i, k).company = tx[i].read.company

\* A step that starts no import and inserts nothing leaves registrations and
\* companies as they are, or is excused.
LEMMA RegFrame ==
  ASSUME RegInv, excused => excused',
         ~excused' =>
           /\ \A k \in Keys : SameRecord(table'[k], table[k])
           /\ \A i \in Imports : Running(i)' => Running(i)
           /\ \A i \in Imports : Running(i)' => \A k \in Keys : SameRecord(Sees(i, k)', Sees(i, k))
           /\ \A i \in Imports : tx'[i].at = "inserting" =>
                /\ tx[i].at = "inserting" /\ tx'[i].input.reg = tx[i].input.reg
                /\ tx'[i].read.company = tx[i].read.company
  PROVE  RegInv'
<1> SUFFICES ASSUME ~excused' PROVE RegInv'
  BY DEF RegInv
<1>0. /\ \A k \in Keys : SameRecord(table'[k], table[k])
      /\ \A i \in Imports : Running(i)' => Running(i) /\ \A k \in Keys : SameRecord(Sees(i, k)', Sees(i, k))
      /\ ~excused
  OBVIOUS
<1>1. ASSUME NEW j \in Keys, NEW k \in Keys PROVE RowsAgree(table'[j], table'[k])
  <2>1. RowsAgree(table[j], table[k]) /\ SameRecord(table'[j], table[j]) /\ SameRecord(table'[k], table[k])
    BY <1>0 DEF RegInv
  <2> QED BY <2>1 DEF RowsAgree, SameRecord
<1>2. \A i, j \in Imports : Running(i)' /\ Running(j)' => i = j
  BY <1>0 DEF RegInv
<1>3. ASSUME NEW i \in Imports, Running(i)', NEW j \in Keys, NEW k \in Keys
      PROVE  RowsAgree(Sees(i, j)', Sees(i, k)')
  <2>1. RowsAgree(Sees(i, j), Sees(i, k)) /\ SameRecord(Sees(i, j)', Sees(i, j)) /\ SameRecord(Sees(i, k)', Sees(i, k))
    BY <1>0, <1>3 DEF RegInv
  <2> QED BY <2>1 DEF RowsAgree, SameRecord
<1>4. ASSUME NEW i \in Imports, tx'[i].at = "inserting", NEW k \in Keys,
             Sees(i, k)'.reg = tx'[i].input.reg, Sees(i, k)'.reg # ""
      PROVE  Sees(i, k)'.company = tx'[i].read.company
  <2>1. /\ tx[i].at = "inserting" /\ tx'[i].input.reg = tx[i].input.reg
        /\ tx'[i].read.company = tx[i].read.company
    BY <1>4
  <2>2. SameRecord(Sees(i, k)', Sees(i, k))
    BY <1>0, <1>4 DEF Running
  <2>3. Sees(i, k).reg = tx[i].input.reg /\ Sees(i, k).reg # "" => Sees(i, k).company = tx[i].read.company
    BY <1>0, <2>1 DEF RegInv
  <2> QED BY <1>4, <2>1, <2>2, <2>3 DEF SameRecord
<1> QED BY <1>1, <1>2, <1>3, <1>4 DEF RegInv

\* An import goes on, or ends, with what it wrote and read.
LEMMA RegKept ==
  ASSUME RegInv, excused => excused', table' = table, NEW i \in Imports,
         \A j \in Imports : j # i => tx'[j] = tx[j],
         Running(i)' => Running(i) /\ tx'[i].own = tx[i].own,
         tx'[i].at # "inserting"
  PROVE  RegInv'
<1>1. \A j \in Imports : Running(j)' => Running(j) /\ tx'[j].own = tx[j].own
  BY DEF Running
<1>2. \A j \in Imports : Running(j)' => \A k \in Keys : Sees(j, k)' = Sees(j, k)
  BY <1>1 DEF Sees, Own
<1> QED BY <1>1, <1>2, RegFrame DEF SameRecord

\* An operator's statement on a row that no transaction has written.
LEMMA RegDecided ==
  ASSUME RegInv, excused => excused', tx' = tx, NEW k \in Keys,
         \A i \in Imports : k \notin Own(i),
         \A j \in Keys : j # k => table'[j] = table[j],
         ~excused' => SameRecord(table'[k], table[k])
  PROVE  RegInv'
<1>1. ~excused' => \A j \in Keys : SameRecord(table'[j], table[j])
  BY DEF SameRecord
<1>2. ASSUME ~excused', NEW i \in Imports, NEW j \in Keys PROVE SameRecord(Sees(i, j)', Sees(i, j))
  BY <1>1, <1>2 DEF Sees, Own, SameRecord
<1> QED BY <1>1, <1>2, RegFrame DEF Running

\* An import writes a row: what it sees of other keys stays.
LEMMA PutSeen ==
  ASSUME CompanyTypeOK, NEW i \in Imports, NEW k \in Keys, NEW row \in Rows, Put(i, k, row),
         table' = table
  PROVE  /\ Sees(i, k)' = row /\ \A j \in Keys : j # k => Sees(i, j)' = Sees(i, j)
         /\ \A j \in Imports : j # i => tx'[j] = tx[j]
         /\ tx'[i].at = "next"
<1> QED BY PutWrites DEF Sees, Own

LEMMA RegBegin ==
  ASSUME CompanyTypeOK, RegInv, NEW i \in Imports, BeginImport(i)
  PROVE  RegInv'
<1> SUFFICES ASSUME ~excused' PROVE RegInv'
  BY DEF RegInv
<1>1. ~excused /\ table' = table /\ \A j \in Imports : ~Running(j)
  BY DEF BeginImport, Running
<1>2. PICK now \in Transactions :
        tx' = [tx EXCEPT ![i] = now] /\ now.at \in {"next", "ended"} /\ DOMAIN now.own = {}
  BY Empties
<1>3. tx'[i] = now /\ \A j \in Imports : j # i => tx'[j] = tx[j]
  BY <1>2, TransactionSet
<1>4. \A j \in Keys : Sees(i, j)' = table[j]
  BY <1>1, <1>2, <1>3 DEF Sees, Own
<1>5. \A j \in Imports : (Running(j)' => j = i) /\ tx'[j].at # "inserting"
  BY <1>1, <1>2, <1>3 DEF Running
<1> QED BY <1>1, <1>4, <1>5 DEF RegInv

LEMMA RegResolve ==
  ASSUME CompanyTypeOK, RegInv, NEW i \in Imports, ResolveCompany(i)
  PROVE  RegInv'
<1> SUFFICES ASSUME ~excused' PROVE RegInv'
  BY DEF RegInv
<1> DEFINE input == tx[i].input
           rows == Resolution(i, input)
<1>1. ~excused /\ table' = table /\ Running(i)
  BY DEF ResolveCompany, Running
<1>2. PICK company \in IF rows = {} THEN {input.key} ELSE {Sees(i, k).company : k \in rows} :
        tx' = [tx EXCEPT ![i] = [tx[i] EXCEPT !.at = "inserting", !.read = [NoRow EXCEPT !.company = company]]]
  BY DEF ResolveCompany
<1>3. /\ tx'[i].at = "inserting" /\ tx'[i].input = input /\ tx'[i].own = tx[i].own
      /\ tx'[i].read.company = company
      /\ \A j \in Imports : j # i => tx'[j] = tx[j]
  <2>1. tx[i] \in Transactions /\ tx \in [Imports -> Transactions]
    BY DEF CompanyTypeOK
  <2>2. [NoRow EXCEPT !.company = company].company = company
    BY DEF NoRow
  <2> DEFINE read == [NoRow EXCEPT !.company = company]
  <2> HIDE DEF read
  <2>3. tx' = [tx EXCEPT ![i] = [tx[i] EXCEPT !.at = "inserting", !.read = read]]
    BY <1>2 DEF read
  <2>4. /\ tx'[i] = [tx[i] EXCEPT !.at = "inserting", !.read = read]
        /\ \A j \in Imports : j # i => tx'[j] = tx[j]
    BY <2>1, <2>3
  <2>5. tx'[i].at = "inserting" /\ tx'[i].input = input /\ tx'[i].own = tx[i].own /\ tx'[i].read = read
    BY <2>1, <2>4 DEF Transactions
  <2> QED BY <2>2, <2>4, <2>5 DEF read
<1>4. \A j \in Imports : (Running(j)' => Running(j)) /\ \A k \in Keys : Sees(j, k)' = Sees(j, k)
  BY <1>1, <1>3 DEF Running, Sees, Own
<1>5. ASSUME NEW k \in Keys, Sees(i, k).reg = input.reg, Sees(i, k).reg # ""
      PROVE  Sees(i, k).company = company
  <2>1. Sees(i, k) # NoRow
    <3>1. NoRow.reg = ""
      BY DEF NoRow
    <3> QED BY <1>5, <3>1
  <2>2. rows = {j \in Known(i) : input.reg # "" /\ Sees(i, j).reg = input.reg} /\ k \in rows
    BY <1>5, <2>1 DEF Resolution, Known
  <2>3. PICK j \in rows : company = Sees(i, j).company
    BY <1>2, <2>2
  <2>4. j \in Keys /\ Sees(i, j).reg = input.reg
    BY <2>2, <2>3 DEF Known
  <2> QED BY <1>1, <1>5, <2>3, <2>4 DEF RegInv, RowsAgree
<1>6. \A j \in Imports : tx'[j].at = "inserting" => j = i
  BY <1>1, <1>3 DEF RegInv, Running
<1>7. \A j \in Imports : tx'[j].at = "inserting" =>
        \A k \in Keys : Sees(j, k)'.reg = tx'[j].input.reg /\ Sees(j, k)'.reg # ""
                          => Sees(j, k)'.company = tx'[j].read.company
  <2> SUFFICES ASSUME NEW j \in Imports, tx'[j].at = "inserting", NEW k \in Keys,
                      Sees(j, k)'.reg = tx'[j].input.reg, Sees(j, k)'.reg # ""
               PROVE  Sees(j, k)'.company = tx'[j].read.company
    OBVIOUS
  <2>1. j = i /\ Sees(j, k)' = Sees(j, k)
    BY <1>4, <1>6
  <2>2. Sees(i, k).reg = tx'[i].input.reg /\ Sees(i, k).reg # ""
    BY <2>1
  <2>3. Sees(i, k).company = tx'[i].read.company
    BY <1>3, <1>5, <2>2
  <2> QED BY <2>1, <2>3
<1> QED BY <1>1, <1>4, <1>6, <1>7 DEF RegInv

LEMMA RegInsert ==
  ASSUME CompanyTypeOK, RegInv, NEW i \in Imports, InsertRow(i)
  PROVE  RegInv'
<1> SUFFICES ASSUME ~excused' PROVE RegInv'
  BY DEF RegInv
<1>0. PICK input \in Inputs, k \in Keys : input = tx[i].input /\ k = tx[i].input.key
  BY CompanyAssumption DEF InsertRow, CompanyTypeOK
<1>1. /\ ~excused /\ table' = table /\ Running(i) /\ tx[i].at = "inserting"
  BY DEF InsertRow, Running
<1> DEFINE row == Row(input, tx[i].read.company, "")
<1>2. CASE tx' = [tx EXCEPT ![i] = Ended]
  BY <1>1, <1>2, EndedIsATransaction, TransactionSet, RegKept DEF Running
<1>3. CASE Put(i, k, row)
  <2>1. row \in Rows /\ row.reg = input.reg /\ row.company = tx[i].read.company
    <3>1. tx[i].read.company \in Companies
      BY DEF CompanyTypeOK, Transactions, Rows
    <3>2. row \in Rows /\ row.company = tx[i].read.company
      BY <3>1, RowIsARow
    <3> QED BY <3>2 DEF Row
  <2>0. PICK written \in Rows : written = row
    BY <2>1
  <2> HIDE DEF row
  <2>2. /\ Sees(i, k)' = written /\ \A j \in Keys : j # k => Sees(i, j)' = Sees(i, j)
        /\ \A j \in Imports : j # i => tx'[j] = tx[j]
        /\ tx'[i].at = "next"
    BY <1>1, <1>3, <2>0, PutSeen
  <2>3. ASSUME NEW j \in Keys, j # k PROVE RowsAgree(Sees(i, j)', written) /\ RowsAgree(written, Sees(i, j)')
    <3>1. Sees(i, j).reg = tx[i].input.reg /\ Sees(i, j).reg # "" => Sees(i, j).company = tx[i].read.company
      BY <1>1 DEF RegInv
    <3>2. written.reg = tx[i].input.reg /\ written.company = tx[i].read.company /\ Sees(i, j)' = Sees(i, j)
      BY <1>0, <2>0, <2>1, <2>2, <2>3
    <3> QED BY <3>1, <3>2 DEF RowsAgree
  <2>4. ASSUME NEW j \in Keys, NEW q \in Keys PROVE RowsAgree(Sees(i, j)', Sees(i, q)')
    <3>1. RowsAgree(written, written)
      BY DEF RowsAgree
    <3>2. CASE j # k /\ q # k
      <4>1. RowsAgree(Sees(i, j), Sees(i, q))
        BY <1>1 DEF RegInv
      <4> QED BY <2>2, <3>2, <4>1
    <3> QED BY <2>2, <2>3, <3>1, <3>2
  <2>5. \A j \in Imports : Running(j) => j = i
    BY <1>1 DEF RegInv
  <2>6. \A j \in Imports : (Running(j)' => j = i) /\ tx'[j].at # "inserting"
    BY <2>2, <2>5 DEF Running
  <2> QED BY <1>1, <2>4, <2>6 DEF RegInv
<1>4. tx' = [tx EXCEPT ![i] = Ended] \/ Put(i, k, row)
  BY <1>0 DEF InsertRow
<1> QED BY <1>2, <1>3, <1>4

LEMMA RegUpdate ==
  ASSUME CompanyTypeOK, RegInv, NEW i \in Imports, UpdateRow(i)
  PROVE  RegInv'
<1>0. PICK input \in Inputs, k \in Keys : input = tx[i].input /\ k = tx[i].input.key
  BY CompanyAssumption DEF UpdateRow, CompanyTypeOK
<1>0a. PICK seen \in Rows : seen = Sees(i, k)
  BY OwnRows
<1> DEFINE row == Row(input, seen.company, seen.flag)
<1>1. /\ table' = table /\ Running(i)
      /\ excused' = (excused \/ seen.reg # input.reg)
  BY <1>0, <1>0a DEF UpdateRow, Running
<1>2. CASE NextRecord(i, tx[i].own)
  <2>1. tx[i].own \in Writes
    BY DEF CompanyTypeOK, Transactions
  <2>2. /\ \A j \in Imports : j # i => tx'[j] = tx[j]
        /\ tx'[i].at = "next" /\ tx'[i].own = tx[i].own
    BY <1>2, <2>1, NextRecords
  <2> QED BY <1>1, <2>2, RegKept
<1>3. CASE Put(i, k, row)
  <2>1. row \in Rows /\ row.reg = input.reg /\ row.company = seen.company
    <3>1. seen.company \in Companies /\ seen.flag \in {"", "kept_separate", "rejected"}
      BY DEF Rows
    <3>2. row \in Rows /\ row.company = seen.company
      BY <3>1, RowIsARow
    <3> QED BY <3>2 DEF Row
  <2> HIDE DEF row
  <2>2. /\ Sees(i, k)' = row /\ \A j \in Keys : j # k => Sees(i, j)' = Sees(i, j)
        /\ \A j \in Imports : j # i => tx'[j] = tx[j]
        /\ tx'[i].at = "next"
    BY <1>1, <1>3, <2>1, PutSeen
  <2>3. ~excused' => \A j \in Keys : SameRecord(Sees(i, j)', Sees(i, j))
    BY <1>0a, <1>1, <2>1, <2>2 DEF SameRecord
  <2>4. \A j \in Imports : j # i => \A q \in Keys : Sees(j, q)' = Sees(j, q)
    BY <1>1, <2>2 DEF Sees, Own
  <2>5. ~excused' => \A j \in Imports : Running(j)' => Running(j) /\ \A q \in Keys : SameRecord(Sees(j, q)', Sees(j, q))
    BY <1>1, <2>2, <2>3, <2>4 DEF Running, SameRecord
  <2>6. \A j \in Imports : tx'[j].at = "inserting" => tx[j].at = "inserting" /\ tx'[j] = tx[j]
    BY <2>2
  <2>7. \A q \in Keys : SameRecord(table'[q], table[q])
    BY <1>1 DEF SameRecord
  <2>8. excused => excused'
    BY <1>1
  <2> QED BY <2>5, <2>6, <2>7, <2>8, RegFrame
<1>4. NextRecord(i, tx[i].own) \/ Put(i, k, row)
  BY <1>0, <1>0a DEF UpdateRow
<1> QED BY <1>2, <1>3, <1>4

LEMMA RegCommit ==
  ASSUME CompanyTypeOK, RegInv, NEW i \in Imports, CommitImport(i)
  PROVE  RegInv'
<1> SUFFICES ASSUME ~excused' PROVE RegInv'
  BY DEF RegInv
<1>1. ~excused /\ Running(i) /\ \A k \in Keys : table'[k] = Sees(i, k)
  BY DEF CommitImport, Running
<1>2. /\ \A j \in Imports : j # i => tx'[j] = tx[j]
      /\ tx'[i].at = "ended"
  BY EndedIsATransaction, TransactionSet DEF CommitImport
<1>3. \A j \in Imports : ~Running(j)' /\ tx'[j].at # "inserting"
  BY <1>1, <1>2 DEF RegInv, Running
<1> QED BY <1>1, <1>3 DEF RegInv

LEMMA RegStep == CompanyTypeOK /\ RegInv /\ [CompanyNext]_companyVars => RegInv'
<1> SUFFICES ASSUME CompanyTypeOK, RegInv, [CompanyNext]_companyVars PROVE RegInv'
  OBVIOUS
<1>1. CASE UNCHANGED <<table, tx, excused>>
  BY <1>1 DEF RegInv, Running, Sees, Own
<1>2. ASSUME NEW i \in Imports, RollBack(i) PROVE RegInv'
  <2>1. /\ \A j \in Imports : j # i => tx'[j] = tx[j]
        /\ tx'[i].at = "ended" /\ table' = table /\ excused' = excused
    BY <1>2, EndedIsATransaction, TransactionSet DEF RollBack
  <2> QED BY <2>1, RegKept DEF Running
<1>3. ASSUME NEW i \in Imports, NEW input \in Inputs, ReadRecord(i, input) PROVE RegInv'
  <2>1. \A j \in Imports : (j # i => tx'[j] = tx[j]) /\ tx'[j].own = tx[j].own
    BY <1>3, Reads
  <2>2. tx'[i].at # "inserting" /\ Running(i) /\ table' = table /\ excused' = excused
    BY <1>3 DEF ReadRecord, Running, CompanyTypeOK
  <2> QED BY <2>1, <2>2, RegKept
<1>4. ASSUME NEW o \in Operators, Split(o) PROVE RegInv'
  <2> DEFINE k == ops[o].row
  <2>1. k \in Keys /\ o \in Companies /\ tx' = tx /\ Decide(k, o, table[k].flag)
    BY <1>4 DEF Split, CompanyTypeOK, Companies
  <2>2. table[k].flag \in {"", "kept_separate", "rejected"} /\ table[k] \in Rows
    BY <2>1 DEF CompanyTypeOK, Rows
  <2>3. /\ \A i \in Imports : k \notin Own(i)
        /\ \A j \in Keys : j # k => table'[j] = table[j]
    <3>1. PICK flag \in {"", "kept_separate", "rejected"} : Decide(k, o, flag)
      BY <2>1, <2>2
    <3> QED BY <2>1, <3>1, DecideSets
  <2>4. (excused => excused') /\ (~excused' => SameRecord(table'[k], table[k]))
    BY <2>1, <2>2 DEF Decide, SameRecord, CompanyTypeOK, Rows
  <2> QED BY <2>1, <2>3, <2>4, RegDecided
<1>5. ASSUME NEW o \in Operators, SetFlag(o) PROVE RegInv'
  <2> DEFINE k == ops[o].row
  <2>1. k \in Keys /\ tx' = tx
    BY <1>5 DEF SetFlag, CompanyTypeOK
  <2>2. table[k].company \in Companies /\ table[k] \in Rows
    BY <2>1 DEF CompanyTypeOK, Rows
  <2>3. PICK flag \in {"rejected", "kept_separate"} : Decide(k, table[k].company, flag)
    BY <1>5 DEF SetFlag
  <2>4. /\ \A i \in Imports : k \notin Own(i)
        /\ \A j \in Keys : j # k => table'[j] = table[j]
    BY <2>1, <2>2, <2>3, DecideSets
  <2>5. (excused => excused') /\ (~excused' => SameRecord(table'[k], table[k]))
    BY <2>1, <2>2, <2>3 DEF Decide, SameRecord, CompanyTypeOK, Rows
  <2> QED BY <2>1, <2>4, <2>5, RegDecided
<1>6. ASSUME NEW o \in Operators, NEW input \in Inputs, NEW k \in Keys, Attach(o, input, table[k].company)
      PROVE  RegInv'
  BY <1>6 DEF Attach, RegInv
<1> QED
  BY <1>1, <1>2, <1>3, <1>4, <1>5, <1>6, RegBegin, RegResolve, RegInsert, RegUpdate, RegCommit
  DEF CompanyNext, OpenConflict, GiveUp, companyVars

\* "An exact registration-number match wins" (businessStore.ts): however many
\* imports follow one another, and whatever operators do in between, rows
\* with one registration stay of one company until an update or an operator
\* moves one of them or two imports overlap.
THEOREM RegistrationsAgreed == CompanySpec => []RegistrationsAgree
<1>1. CompanyInit => RegInv
  <2> SUFFICES ASSUME CompanyInit PROVE RegInv
    OBVIOUS
  <2>1. \A i \in Imports : tx[i].at = "idle"
    BY DEF CompanyInit, NoTx
  <2>2. \A j, k \in Keys : RowsAgree(table[j], table[k])
    BY DEF CompanyInit, RowsAgree
  <2> QED BY <2>1, <2>2 DEF RegInv, Running
<1>2. RegInv => RegistrationsAgree
  BY DEF RegInv, RowsAgree, RegistrationsAgree
<1> QED BY <1>1, <1>2, CompanyTyped, RegStep, TypeInit, TypeStep, PTL DEF CompanySpec
=============================================================================

------------------------------- MODULE CqlFaker -------------------------------
(***************************************************************************)
(* src/sample_app/alternator-client/cql-faker.py: users are written to     *)
(* cql_userid.userid with a timestamp of the tool's own choice, -t or the  *)
(* clock, plus --skew.  Which of two writes of a user stays is decided by  *)
(* that timestamp and not by their order.                                  *)
(***************************************************************************)
EXTENDS DemoClock

CONSTANTS
  CqlOptions,     \* the command lines it is run with
  CqlBatchSize,   \* batch_size, 1000 in the code
  MaxCqlRuns      \* bound: runs of it

\* parse_args; timestamp 0 stands for no -t, as it does in the code.
CqlArgs == [first : Int, count : Nat, timestamp : Nat, skew : Int, drop : BOOLEAN]

ASSUME CqlAssumption ==
  /\ CqlOptions # {} /\ CqlOptions \subseteq CqlArgs
  /\ CqlBatchSize \in Nat \ {0} /\ MaxCqlRuns \in Nat

VARIABLES
  cqlTable,       \* the table exists
  cqlRows,        \* its rows, each user with the timestamp of the write that stayed
  cql,            \* what the tool does next, and with what
  cqlRuns,        \* so far
  told            \* history: the writes into this table that were counted

cqlVars == <<cqlTable, cqlRows, cql, cqlRuns, told>>

CqlIdle == [pc |-> "off", opts |-> CHOOSE o \in CqlOptions : TRUE, next |-> 0, left |-> {},
            at |-> 0, total |-> 0]

CqlAt(label) == cql.pc = label

CqlStarts(o) ==
  /\ CqlAt("off")
  /\ cqlRuns < MaxCqlRuns
  /\ cqlRuns' = cqlRuns + 1
  /\ cql' = [CqlIdle EXCEPT !.pc = IF o.drop THEN "drop" ELSE "create", !.opts = o,
                            !.next = o.first]
  /\ UNCHANGED <<clockVars, cqlTable, cqlRows, told>>

CqlDrops ==
  /\ CqlAt("drop")
  /\ cqlTable' = FALSE
  /\ cqlRows' = {}
  /\ told' = {}
  /\ cql' = [cql EXCEPT !.pc = "create"]
  /\ UNCHANGED <<clockVars, cqlRuns>>

CqlCreates ==
  /\ CqlAt("create")
  /\ cqlTable' = TRUE
  /\ cql' = [cql EXCEPT !.pc = "batch"]
  /\ UNCHANGED <<clockVars, cqlRows, cqlRuns, told>>

Timestamp(o) == (IF o.timestamp # 0 THEN o.timestamp ELSE now) + o.skew

\* Every batch is a whole one: more users are written than --num-inserts asks for unless
\* it is a multiple of the batch.
CqlTakesBatch ==
  /\ CqlAt("batch")
  /\ cql.total < cql.opts.count
  /\ cql' = [cql EXCEPT !.pc = "insert", !.next = @ + CqlBatchSize, !.at = Timestamp(cql.opts),
                        !.left = cql.next .. cql.next + CqlBatchSize - 1]
  /\ UNCHANGED <<clockVars, cqlTable, cqlRows, cqlRuns, told>>

\* The row after a write of the user at the time t: the newer of the two.
Merged(u, t) ==
  LET old == {r \in cqlRows : r.user = u} IN
  IF \E r \in old : r.at > t THEN cqlRows ELSE (cqlRows \ old) \cup {[user |-> u, at |-> t]}

CqlInserts ==
  /\ CqlAt("insert")
  /\ \E u \in cql.left :
       /\ \A v \in cql.left : u <= v
       /\ cqlRows' = Merged(u, cql.at)
       /\ cql' = [cql EXCEPT !.left = @ \ {u}]
  /\ UNCHANGED <<clockVars, cqlTable, cqlRuns, told>>

Batch == {[user |-> u, at |-> cql.at] : u \in cql.next - CqlBatchSize .. cql.next - 1}

\* Mutant: the batch is counted while it is being written.
CqlCountsEarly ==
  /\ CqlAt("insert")
  /\ told' = told \cup Batch
  /\ cql' = [cql EXCEPT !.pc = "batch", !.total = @ + CqlBatchSize, !.at = 0]
  /\ UNCHANGED <<clockVars, cqlTable, cqlRows, cqlRuns>>

CqlCounts ==
  /\ CqlAt("insert")
  /\ cql.left = {}
  /\ told' = told \cup Batch
  /\ cql' = [cql EXCEPT !.pc = "batch", !.total = @ + CqlBatchSize, !.at = 0]
  /\ UNCHANGED <<clockVars, cqlTable, cqlRows, cqlRuns>>

\* All batches are written and the first ten users read back.
CqlEnds ==
  /\ CqlAt("batch")
  /\ cql.total >= cql.opts.count
  /\ cql' = CqlIdle
  /\ UNCHANGED <<clockVars, cqlTable, cqlRows, cqlRuns, told>>

\* A request fails or the tool is killed.
CqlDies ==
  /\ ~CqlAt("off")
  /\ Fault
  /\ cql' = CqlIdle
  /\ UNCHANGED <<cqlTable, cqlRows, cqlRuns, told>>

CqlInit ==
  /\ cqlTable = FALSE
  /\ cqlRows = {}
  /\ cql = CqlIdle
  /\ cqlRuns = 0
  /\ told = {}

CqlStep ==
  \/ \E o \in CqlOptions : CqlStarts(o)
  \/ CqlDrops \/ CqlCreates \/ CqlTakesBatch \/ CqlInserts \/ CqlCounts \/ CqlEnds \/ CqlDies

-----------------------------------------------------------------------------
\* A user that was counted is in the table until it is dropped, and never with an older
\* write than the one that was counted, in whatever order runs with different clocks,
\* skews and fixed timestamps come.
CountedWritesStay ==
  \A w \in told : \E r \in cqlRows : r.user = w.user /\ r.at >= w.at
=============================================================================

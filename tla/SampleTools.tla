----------------------------- MODULE SampleTools -----------------------------
(***************************************************************************)
(* The tools that share the sample keyspace with the loader, in src/       *)
(* sample_app: query.py looks rows up at random, slow_loader.py fills a    *)
(* table of its own and may drop the keyspace first, and tombstone.py      *)
(* replaces the loader's table by one with other columns.  Nothing keeps   *)
(* them from running while a load is under way.  Names are the same        *)
(* keyspace and table although some are spelt with capitals: CQL folds     *)
(* identifiers that are not quoted.                                        *)
(***************************************************************************)
EXTENDS BulkLoad

CONSTANTS
  QueryOptions,   \* row_count, offset and buckets query.py is run with
  MaxQueries,     \* bound: look-ups, for the minutes the reader runs
  SlowRows,       \* --row_count of slow_loader.py
  SlowBuckets     \* its --buckets

\* query.py's flags; the same --buckets >= 1 as the loader checks.
QueryArgs == [row_count : Nat, offset : Int, buckets : Nat \ {0}]

ASSUME QueryOptionsAssumption == QueryOptions # {} /\ QueryOptions \subseteq QueryArgs
ASSUME SlowAssumption == SlowRows \in Nat /\ SlowBuckets \in Nat \ {0} /\ MaxQueries \in Nat

VARIABLES
  reader,         \* the state of query.py: ready, or without a prepared statement
  readerOpts,     \* its command line
  queryCount,     \* query_count: look-ups that returned
  errorCount,     \* error_count
  found,          \* the last look-up found a row
  slow,           \* the next thing slow_loader.py does
  slowNext,       \* rows it has written
  slowRows,       \* the keys in its own table
  tombs           \* the next thing tombstone.py does

readerVars == <<reader, readerOpts, queryCount, errorCount, found>>
slowVars == <<slow, slowNext, slowRows>>
vars == <<tableVars, loadVars, faults, readerVars, slowVars, tombs>>

-----------------------------------------------------------------------------
(* query.py *)

\* Without the keyspace the reader exits; without the table, or with other columns, it
\* runs on without a statement.
ReaderStarts(o) ==
  /\ reader = "off"
  /\ keyspace
  /\ IF columns = "bulk"
     THEN reader' = "ready" /\ readerOpts' = o
     ELSE reader' = "unprepared" /\ UNCHANGED readerOpts
  /\ queryCount' = 0
  /\ errorCount' = 0
  /\ found' = FALSE
  /\ UNCHANGED <<tableVars, loadVars, faults, slowVars, tombs>>

\* Mutant: the offset of the ids is forgotten.
ReaderKeyUnshifted(o, n) == Key(n, o.buckets)
\* execute_query: n is random.randint(1, row_count).
ReaderKey(o, n) == Key(o.offset + n, o.buckets)

LookUp ==
  /\ reader = "ready"
  /\ queryCount + errorCount < MaxQueries
  /\ columns = "bulk"
  /\ \E n \in 1 .. readerOpts.row_count : found' = (ReaderKey(readerOpts, n) \in rows)
  /\ queryCount' = queryCount + 1
  /\ UNCHANGED <<tableVars, loadVars, faults, reader, readerOpts, errorCount, slowVars, tombs>>

\* The table is gone, or the range of the random number is empty.
LookUpFails ==
  /\ reader = "ready"
  /\ queryCount + errorCount < MaxQueries
  /\ columns # "bulk" \/ readerOpts.row_count = 0
  /\ errorCount' = errorCount + 1
  /\ UNCHANGED <<tableVars, loadVars, faults, reader, readerOpts, queryCount, found, slowVars,
                 tombs>>

\* The minutes are over, or the reader is interrupted.
ReaderEnds ==
  /\ reader # "off"
  /\ reader' = "off"
  /\ queryCount' = 0
  /\ errorCount' = 0
  /\ found' = FALSE
  /\ readerOpts' = CHOOSE o \in QueryOptions : TRUE
  /\ UNCHANGED <<tableVars, loadVars, faults, slowVars, tombs>>

-----------------------------------------------------------------------------
(* slow_loader.py *)

\* Connected; with -d the keyspace goes, and the loader's table with it.
SlowStarts(drop) ==
  /\ slow = "off"
  /\ Fault
  /\ slow' = "keyspace"
  /\ UNCHANGED slowNext
  /\ IF drop
     THEN /\ keyspace' = FALSE
          /\ columns' = "none"
          /\ rows' = {}
          /\ gen' = IF columns = "none" THEN gen ELSE gen + 1
          /\ asked' = {}
          /\ slowRows' = {}
     ELSE UNCHANGED <<tableVars, slowRows>>
  /\ UNCHANGED <<loadVars, readerVars, tombs>>

SlowKeyspace ==
  /\ slow = "keyspace"
  /\ CreateKeyspace
  /\ slow' = "insert"
  /\ UNCHANGED <<loadVars, faults, readerVars, slowNext, slowRows, tombs>>

\* Mutant: range(1, row_count + 2).
SlowInsertOneMore ==
  /\ slow = "insert"
  /\ slowNext <= SlowRows
  /\ slowNext' = slowNext + 1
  /\ slowRows' = slowRows \cup {Key(slowNext', SlowBuckets)}
  /\ UNCHANGED <<tableVars, loadVars, faults, readerVars, slow, tombs>>

\* One row at a time, each acknowledged before the next.
SlowInsert ==
  /\ slow = "insert"
  /\ slowNext < SlowRows
  /\ slowNext' = slowNext + 1
  /\ slowRows' = slowRows \cup {Key(slowNext', SlowBuckets)}
  /\ UNCHANGED <<tableVars, loadVars, faults, readerVars, slow, tombs>>

\* All rows are written, or the script dies.
SlowEnds ==
  /\ slow # "off"
  /\ slow' = "off"
  /\ slowNext' = 0
  /\ UNCHANGED <<tableVars, loadVars, faults, readerVars, slowRows, tombs>>

-----------------------------------------------------------------------------
(* tombstone.py *)

TombsStart ==
  /\ tombs = "off"
  /\ Fault
  /\ CreateKeyspace
  /\ tombs' = "drop"
  /\ UNCHANGED <<loadVars, readerVars, slowVars>>

\* DROP TABLE, whether or not anybody asked for it.
TombsDrop ==
  /\ tombs = "drop"
  /\ DropTable
  /\ tombs' = "create"
  /\ UNCHANGED <<loadVars, faults, readerVars, slowVars>>

\* Its rows all have the key a = 1 and are no rows of the loader's.
TombsCreate ==
  /\ tombs = "create"
  /\ IF keyspace /\ columns = "none" THEN columns' = "abc" ELSE UNCHANGED columns
  /\ tombs' = "off"
  /\ UNCHANGED <<keyspace, rows, gen, asked, loadVars, faults, readerVars, slowVars>>

-----------------------------------------------------------------------------
Init ==
  /\ keyspace \in BOOLEAN
  /\ columns = "none"
  /\ rows = {}
  /\ gen = 0
  /\ asked = {}
  /\ pc = "idle"
  /\ opts = CHOOSE o \in LoadOptions : TRUE
  /\ task = [w \in Workers |-> "none"]
  /\ chunk = [w \in Workers |-> Nothing]
  /\ left = [w \in Workers |-> {}]
  /\ total = [w \in Workers |-> 0]
  /\ outcome = "none"
  /\ collected = 0
  /\ reported = 0
  /\ loadGen = 0
  /\ complete = NoLoad
  /\ dialled = {}
  /\ loads = 0
  /\ faults = 0
  /\ reader = "off"
  /\ readerOpts = CHOOSE o \in QueryOptions : TRUE
  /\ queryCount = 0
  /\ errorCount = 0
  /\ found = FALSE
  /\ slow = "off"
  /\ slowNext = 0
  /\ slowRows = {}
  /\ tombs = "off"

OthersStep ==
  \/ \E o \in QueryOptions : ReaderStarts(o)
  \/ LookUp
  \/ LookUpFails
  \/ ReaderEnds
  \/ \E drop \in BOOLEAN : SlowStarts(drop)
  \/ SlowKeyspace
  \/ SlowInsert
  \/ SlowEnds
  \/ TombsStart
  \/ TombsDrop
  \/ TombsCreate

Alone(step) == step /\ UNCHANGED <<readerVars, slowVars, tombs>>

Next ==
  \/ Alone(LoadStep)
  \/ OthersStep

Spec == Init /\ [][Next]_vars

FairSpec ==
  Spec /\ WF_vars(Alone(ParentStep)) /\ \A w \in Workers : WF_vars(Alone(WorkerStep(w)))

-----------------------------------------------------------------------------
Keys == Int \X Int
\* Types of the table, the loader and the other tools; every number within its bound.
TypeOK ==
  /\ keyspace \in BOOLEAN
  /\ columns \in {"none", "bulk", "abc"}
  /\ rows \subseteq Keys
  /\ gen \in Nat
  /\ asked \subseteq Keys
  /\ pc \in {"idle", "drop", "keyspace", "table", "join", "collect"}
  /\ opts \in LoadOptions
  /\ task \in [Workers -> {"none", "waiting", "running", "done", "failed", "killed"}]
  /\ chunk \in [Workers -> [from : Int, to : Int]]
  /\ left \in [Workers -> SUBSET Int]
  /\ total \in [Workers -> Int]
  /\ outcome \in {"none", "loaded", "failed", "interrupted"}
  /\ collected \in 0 .. MaxWorkers
  /\ reported \in Int
  /\ loadGen \in 0 .. gen
  /\ complete \in [gen : 0 .. gen, opts : LoadOptions] \cup {NoLoad}
  /\ loads \in 0 .. MaxLoads
  /\ faults \in 0 .. MaxFaults
  /\ reader \in {"off", "ready", "unprepared"}
  /\ readerOpts \in QueryOptions
  /\ queryCount \in 0 .. MaxQueries
  /\ errorCount \in 0 .. MaxQueries
  /\ found \in BOOLEAN
  /\ slow \in {"off", "keyspace", "insert"}
  /\ slowNext \in 0 .. SlowRows
  /\ slowRows \subseteq Keys
  /\ tombs \in {"off", "drop", "create"}

\* A load that ends with exit status 0 has written every row it was asked for, whatever
\* failed, was killed or was interrupted in earlier runs; they are there as long as the
\* table is not dropped (main and insert_data_parallel).
CleanLoadComplete ==
  complete # NoLoad /\ complete.gen = gen => Expected(complete.opts) \subseteq rows

\* No worker writes a row that its run was not asked for, however the range divides
\* (insert_data_parallel, chunked_ids).
NoStrayRows == rows \subseteq asked

\* The total a run logs is the number of rows asked for: the workers' shares neither
\* overlap nor leave a gap, and no total is logged next to a failure.
TotalsExact == outcome = "loaded" => reported = opts.row_count

\* Every session of a run, the parent's and the workers', is what the flags say: TLS
\* with -e and -m, certificates with -m, one endpoint with -l (resolve_connection,
\* build_cluster_and_session).
SessionsHonourFlags == \A s \in dialled : Honours(s, opts.conn)

\* The reader asks for rows that load has written, with the same number of buckets.
Matches(query, load) ==
  /\ query.buckets = load.buckets
  /\ query.offset >= load.offset
  /\ query.offset + query.row_count <= load.offset + load.row_count

\* A reader run as its help text says ("must match loader") finds a row at every
\* look-up, from the moment the loader has ended well until the table is dropped.
MatchingReaderFinds ==
  [][queryCount' > queryCount /\ complete # NoLoad /\ complete.gen = gen
       /\ Matches(readerOpts, complete.opts) => found']_vars

\* The loader always comes to an end, with two exceptions: a worker process that is
\* killed, for whose result pool.join() waits forever, and --batch_size 0.
LoaderEnds ==
  pc # "idle" ~> \/ pc = "idle"
                 \/ \E w \in Workers : task[w] = "killed"
                 \/ opts.batch_size = 0
=============================================================================

-------------------------- MODULE SampleTools_proofs --------------------------
(***************************************************************************)
(* Safety of the bulk loader next to the other tools of the sample         *)
(* keyspace, for every set of command lines, every number of workers and   *)
(* every bound on runs and faults.                                         *)
(***************************************************************************)
EXTENDS SampleTools, TLAPS

-----------------------------------------------------------------------------
(* Shares: the ids 1 .. row_count are divided without overlap or gap *)

LEMMA ProductMonotone ==
  ASSUME NEW a \in Nat, NEW b \in Nat, NEW s \in Nat, a <= b
  PROVE  a * s <= b * s
<1>1. PICK d \in Nat : b = a + d
  <2>1. b - a \in Nat /\ b = a + (b - a)
    OBVIOUS
  <2> QED BY <2>1
<1>2. b * s = a * s + d * s
  BY <1>1
<1>3. d * s \in Nat
  OBVIOUS
<1>4. a * s \in Nat
  OBVIOUS
<1> QED BY <1>2, <1>3, <1>4

LEMMA OptionTypes ==
  ASSUME NEW o \in LoadOptions
  PROVE  /\ o \in LoadArgs
         /\ o.row_count \in Nat /\ o.batch_size \in Nat /\ o.buckets \in Nat
         /\ o.offset \in Int /\ o.drop \in BOOLEAN /\ o.conn \in ConnectionArgs
         /\ Procs(o) \in 1 .. MaxWorkers
BY LoadOptionsAssumption, CpuAssumption, BoundsAssumption DEF LoadArgs, Procs

LEMMA SpanCovers ==
  ASSUME NEW o \in LoadOptions
  PROVE  Span(o) \in Nat /\ o.row_count <= Procs(o) * Span(o)
<1> DEFINE n == o.row_count
           p == Procs(o)
           q == (n + p - 1) \div p
<1>1. n \in Nat /\ p \in Nat /\ p >= 1
  BY OptionTypes, BoundsAssumption
<1> HIDE DEF n, p
<1>2. q \in Int /\ n + p - 1 = p * q + ((n + p - 1) % p)
      /\ (n + p - 1) % p \in 0 .. p - 1
  BY <1>1
<1>3. q >= 0
  BY <1>1
<1> HIDE DEF q
<1>4. q \in Nat /\ n <= p * q
  BY <1>1, <1>2, <1>3
<1> QED BY <1>4 DEF q, p, n, Span

\* The ids before share w: cut at the row count.
Before(o, w) == Lesser(w * Span(o), o.row_count)

LEMMA ShareBounds ==
  ASSUME NEW o \in LoadOptions, NEW w \in Workers
  PROVE  /\ First(o, w) \in Nat /\ First(o, w) >= 1
         /\ Last(o, w) \in Nat /\ Last(o, w) <= o.row_count
         /\ w \in Jobs(o) => First(o, w) <= Last(o, w)
<1>1. w \in Nat /\ Span(o) \in Nat /\ o.row_count \in Nat
  BY SpanCovers, OptionTypes, BoundsAssumption DEF Workers
<1>2. w * Span(o) \in Nat /\ (w + 1) * Span(o) \in Nat
  BY <1>1
<1> QED BY <1>1, <1>2 DEF First, Last, Lesser, Jobs

\* A job counts the ids of its share; a share without a job is empty.
LEMMA ShareSizes ==
  ASSUME NEW o \in LoadOptions, NEW w \in Workers
  PROVE  Before(o, w + 1) =
           Before(o, w) + (IF w \in Jobs(o) THEN Last(o, w) - First(o, w) + 1 ELSE 0)
<1> DEFINE n == o.row_count
           s == Span(o)
           x == w * s
           y == (w + 1) * s
<1>1. w \in Nat /\ s \in Nat /\ n \in Nat /\ Procs(o) \in Nat
  BY SpanCovers, OptionTypes, BoundsAssumption DEF Workers
<1>2. x \in Nat /\ y = x + s
  BY <1>1
<1>3. w >= Procs(o) => x >= n
  <2>1. w >= Procs(o) => Procs(o) * s <= w * s
    BY <1>1, ProductMonotone
  <2> QED BY <2>1, <1>1, <1>2, SpanCovers
<1>4. Before(o, w) = Lesser(x, n) /\ Before(o, w + 1) = Lesser(y, n)
      /\ First(o, w) = x + 1 /\ Last(o, w) = Lesser(y, n)
  BY DEF Before, First, Last
<1>5. w \in Jobs(o) <=> w < Procs(o) /\ x + 1 <= Lesser(y, n)
  BY <1>1, <1>4 DEF Jobs
<1> HIDE DEF x, y, n, s
<1> QED BY <1>1, <1>2, <1>3, <1>4, <1>5 DEF Lesser

LEMMA AllBefore ==
  ASSUME NEW o \in LoadOptions
  PROVE  Before(o, 0) = 0 /\ Before(o, MaxWorkers) = o.row_count
<1>1. /\ Span(o) \in Nat /\ o.row_count \in Nat /\ o.row_count <= Procs(o) * Span(o)
      /\ Procs(o) \in Nat /\ MaxWorkers \in Nat /\ Procs(o) <= MaxWorkers
  BY SpanCovers, OptionTypes, BoundsAssumption
<1>2. Procs(o) * Span(o) <= MaxWorkers * Span(o)
  BY <1>1, ProductMonotone
<1>3. MaxWorkers * Span(o) \in Nat /\ Procs(o) * Span(o) \in Nat /\ 0 * Span(o) = 0
  BY <1>1
<1>4. o.row_count <= MaxWorkers * Span(o)
  BY <1>1, <1>2, <1>3
<1> QED BY <1>1, <1>3, <1>4 DEF Before, Lesser

\* Every id is in the share of one of the jobs.
LEMMA SharesCover ==
  ASSUME NEW o \in LoadOptions, NEW i \in 1 .. o.row_count
  PROVE  \E w \in Workers : w \in Jobs(o) /\ i \in First(o, w) .. Last(o, w)
<1> DEFINE n == o.row_count
           s == Span(o)
           p == Procs(o)
           w == (i - 1) \div s
<1>1. n \in Nat /\ s \in Nat /\ p \in Nat /\ p <= MaxWorkers /\ n <= p * s /\ MaxWorkers \in Nat
  BY SpanCovers, OptionTypes, BoundsAssumption
<1>2. i \in Nat /\ 1 <= i /\ i <= n
  BY <1>1
<1>3. s > 0
  <2>1. s = 0 => p * s = 0
    BY <1>1
  <2> QED BY <1>1, <1>2, <2>1
<1> HIDE DEF n, s, p
<1>4. w \in Int /\ i - 1 = s * w + ((i - 1) % s) /\ (i - 1) % s \in 0 .. s - 1
  BY <1>1, <1>2, <1>3
<1>5. w >= 0
  BY <1>1, <1>2, <1>3
<1> HIDE DEF w
<1>6. w * s \in Nat /\ w * s <= i - 1 /\ i <= (w + 1) * s
  BY <1>1, <1>2, <1>4, <1>5
<1>7. w < p
  <2>1. ASSUME p <= w PROVE FALSE
    <3>1. p * s <= w * s
      BY <1>1, <1>4, <1>5, <2>1, ProductMonotone
    <3>2. p * s \in Nat
      BY <1>1
    <3> QED BY <1>1, <1>2, <1>6, <3>1, <3>2
  <2> QED BY <2>1, <1>1, <1>4
<1>8. w \in Workers /\ w \in 0 .. p - 1
  BY <1>1, <1>4, <1>5, <1>7 DEF Workers
<1>9. (w + 1) * s \in Nat
  BY <1>1, <1>4, <1>5
<1>10. i \in First(o, w) .. Last(o, w) /\ First(o, w) <= Last(o, w)
  BY <1>1, <1>2, <1>6, <1>9 DEF First, Last, Lesser, n, s
<1> QED BY <1>8, <1>10 DEF Jobs, p

\* The batches of a share follow each other within it.
LEMMA NextChunkBounds ==
  ASSUME NEW o \in LoadOptions, NEW w \in Workers, NEW i \in Int, i <= Last(o, w)
  PROVE  /\ NextChunk(o, w, i).from = i + 1
         /\ NextChunk(o, w, i).to \in i .. Last(o, w)
         /\ NextChunk(o, w, i) \in [from : Int, to : Int]
<1>1. o.batch_size \in Nat /\ Last(o, w) \in Int
  BY OptionTypes, ShareBounds
<1> QED BY <1>1 DEF NextChunk, Lesser

LEMMA KeyTypes ==
  ASSUME NEW id \in Int, NEW n \in Nat, n >= 1
  PROVE  Key(id, n) \in Keys
BY DEF Key, Keys
-----------------------------------------------------------------------------
(* What the steps of the loader and of the other tools leave alone *)

Kept == UNCHANGED <<columns, rows, gen, asked>>

Dropped ==
  /\ columns' = "none"
  /\ rows' = {}
  /\ gen' = IF columns = "none" THEN gen ELSE gen + 1
  /\ asked' = {}

Replaced == columns = "none" /\ columns' = "abc" /\ UNCHANGED <<rows, gen, asked>>

LEMMA OthersFrame ==
  ASSUME OthersStep
  PROVE  UNCHANGED loadVars /\ (Kept \/ Dropped \/ Replaced)
<1> USE DEF tableVars
<1>1. ASSUME NEW o \in QueryOptions, ReaderStarts(o) PROVE UNCHANGED loadVars /\ Kept
  BY <1>1 DEF ReaderStarts, Kept
<1>2. CASE LookUp \/ LookUpFails \/ ReaderEnds
  BY <1>2 DEF LookUp, LookUpFails, ReaderEnds, Kept
<1>3. ASSUME NEW drop \in BOOLEAN, SlowStarts(drop)
      PROVE  UNCHANGED loadVars /\ (Kept \/ Dropped)
  BY <1>3 DEF SlowStarts, Kept, Dropped
<1>4. CASE SlowKeyspace \/ SlowInsert \/ SlowEnds \/ TombsStart
  BY <1>4 DEF SlowKeyspace, SlowInsert, SlowEnds, TombsStart, CreateKeyspace, Kept
<1>5. CASE TombsDrop
  BY <1>5 DEF TombsDrop, DropTable, Dropped
<1>6. CASE TombsCreate
  BY <1>6 DEF TombsCreate, Kept, Replaced
<1> QED BY <1>1, <1>2, <1>3, <1>4, <1>5, <1>6 DEF OthersStep

\* The end of a run, however it comes.
LEMMA Endings ==
  ASSUME SchemaFails \/ ReportTotals \/ RaiseFailure \/ Interrupt
  PROVE  /\ \E result \in {"loaded", "failed", "interrupted"} : EndLoad(result)
         /\ UNCHANGED <<tableVars, reported, loadGen>>
         /\ faults' \in {faults, faults + 1} /\ (faults' # faults => faults < MaxFaults)
BY DEF SchemaFails, ReportTotals, RaiseFailure, Interrupt, Fault

-----------------------------------------------------------------------------
(* Types *)

TableTypes ==
  /\ keyspace \in BOOLEAN
  /\ columns \in {"none", "bulk", "abc"}
  /\ rows \subseteq Keys
  /\ gen \in Nat
  /\ asked \subseteq Keys

WorkerTypes ==
  /\ task \in [Workers -> {"none", "waiting", "running", "done", "failed", "killed"}]
  /\ chunk \in [Workers -> [from : Int, to : Int]]
  /\ left \in [Workers -> SUBSET Int]
  /\ total \in [Workers -> Int]

RunTypes ==
  /\ pc \in {"idle", "drop", "keyspace", "table", "join", "collect"}
  /\ opts \in LoadOptions
  /\ outcome \in {"none", "loaded", "failed", "interrupted"}
  /\ collected \in 0 .. MaxWorkers
  /\ reported \in Int
  /\ loads \in 0 .. MaxLoads
  /\ faults \in 0 .. MaxFaults

HistoryTypes ==
  /\ loadGen \in 0 .. gen
  /\ complete \in [gen : 0 .. gen, opts : LoadOptions] \cup {NoLoad}

OtherTypes ==
  /\ reader \in {"off", "ready", "unprepared"}
  /\ readerOpts \in QueryOptions
  /\ queryCount \in 0 .. MaxQueries
  /\ errorCount \in 0 .. MaxQueries
  /\ found \in BOOLEAN
  /\ slow \in {"off", "keyspace", "insert"}
  /\ slowNext \in 0 .. SlowRows
  /\ slowRows \subseteq Keys
  /\ tombs \in {"off", "drop", "create"}

LEMMA TypeParts ==
  /\ TypeOK <=> TableTypes /\ WorkerTypes /\ RunTypes /\ HistoryTypes /\ OtherTypes
  /\ TypeOK' <=> TableTypes' /\ WorkerTypes' /\ RunTypes' /\ HistoryTypes' /\ OtherTypes'
BY DEF TypeOK, TableTypes, WorkerTypes, RunTypes, HistoryTypes, OtherTypes

\* While the loader runs its options are valid and no result is announced.
RunInv == pc # "idle" => opts.buckets >= 1 /\ outcome = "none"

LEMMA HistoryGrows ==
  ASSUME TableTypes, HistoryTypes, gen' \in Nat, gen <= gen', UNCHANGED <<loadGen, complete>>
  PROVE  HistoryTypes'
BY DEF TableTypes, HistoryTypes

LEMMA ExpectedTypes ==
  ASSUME NEW o \in LoadOptions, o.buckets >= 1
  PROVE  Expected(o) \subseteq Keys
<1>1. /\ o.row_count \in Nat /\ o.offset \in Int /\ o.buckets \in Nat
  BY OptionTypes
<1> QED BY <1>1, KeyTypes DEF Expected

LEMMA EndTypes ==
  ASSUME TypeOK, SchemaFails \/ ReportTotals \/ RaiseFailure \/ Interrupt
  PROVE  TableTypes' /\ WorkerTypes' /\ RunTypes' /\ HistoryTypes' /\ RunInv'
<1>1. PICK result \in {"loaded", "failed", "interrupted"} : EndLoad(result)
  BY Endings
<1>2. /\ UNCHANGED <<tableVars, reported, loadGen>>
      /\ faults' \in {faults, faults + 1} /\ (faults' # faults => faults < MaxFaults)
  BY Endings
<1> USE TypeParts
<1>3. TableTypes'
  BY <1>2 DEF tableVars, TableTypes
<1>4. WorkerTypes'
  BY <1>1 DEF EndLoad, NoWorkers, WorkerTypes, Nothing
<1>5. RunTypes' /\ RunInv'
  BY <1>1, <1>2, BoundsAssumption DEF EndLoad, RunTypes, RunInv
<1>6. HistoryTypes'
  <2>1. complete' = complete \/ complete' = [gen |-> loadGen, opts |-> opts]
    BY DEF SchemaFails, ReportTotals, RaiseFailure, Interrupt
  <2> QED BY <1>2, <2>1 DEF tableVars, HistoryTypes, RunTypes
<1> QED BY <1>3, <1>4, <1>5, <1>6

LEMMA ParentTypes ==
  ASSUME TypeOK, RunInv,
         \/ \E o \in LoadOptions : Launch(o)
         \/ DropFirst \/ EnsureKeyspace \/ EnsureTableAndSubmit
         \/ StartCollecting \/ \E w \in Workers : Collect(w)
  PROVE  TableTypes' /\ WorkerTypes' /\ RunTypes' /\ HistoryTypes' /\ RunInv'
<1> USE TypeParts
<1>1. ASSUME NEW o \in LoadOptions, Launch(o)
      PROVE  TableTypes' /\ WorkerTypes' /\ RunTypes' /\ HistoryTypes' /\ RunInv'
  <2>1. o.buckets \in Nat
    BY OptionTypes
  <2>2. RunTypes' /\ RunInv'
    BY <1>1, <2>1, BoundsAssumption DEF Launch, RunTypes, RunInv
  <2> QED BY <1>1, <2>2
          DEF Launch, tableVars, workerVars, TableTypes, WorkerTypes, HistoryTypes
<1>2. CASE DropFirst
  <2>1. TableTypes' /\ gen <= gen'
    BY <1>2 DEF DropFirst, DropTable, TableTypes
  <2>2. HistoryTypes'
    BY <1>2, <2>1, HistoryGrows DEF DropFirst, TableTypes
  <2> QED BY <1>2, <2>1, <2>2 DEF DropFirst, workerVars, WorkerTypes, RunTypes, RunInv
<1>3. CASE EnsureKeyspace
  BY <1>3 DEF EnsureKeyspace, CreateKeyspace, workerVars, TableTypes, WorkerTypes, RunTypes,
              HistoryTypes, RunInv
<1>4. CASE EnsureTableAndSubmit
  <2>1. Expected(opts) \subseteq Keys
    BY <1>4, ExpectedTypes DEF EnsureTableAndSubmit, RunInv, RunTypes
  <2>2. TableTypes'
    BY <1>4, <2>1 DEF EnsureTableAndSubmit, TableTypes
  <2>3. WorkerTypes'
    <3>1. \A w \in Workers : NothingDone(opts, w) \in [from : Int, to : Int]
      BY ShareBounds DEF RunTypes, NothingDone
    <3> QED BY <1>4, <3>1 DEF EnsureTableAndSubmit, WorkerTypes
  <2> QED BY <1>4, <2>2, <2>3 DEF EnsureTableAndSubmit, TableTypes, RunTypes, HistoryTypes, RunInv
<1>5. CASE StartCollecting
  BY <1>5, BoundsAssumption
     DEF StartCollecting, tableVars, workerVars, TableTypes, WorkerTypes, RunTypes, HistoryTypes,
         RunInv
<1>6. ASSUME NEW w \in Workers, Collect(w)
      PROVE  TableTypes' /\ WorkerTypes' /\ RunTypes' /\ HistoryTypes' /\ RunInv'
  <2>1. collected' \in 0 .. MaxWorkers /\ reported' \in Int
    BY <1>6, BoundsAssumption DEF Collect, Workers, WorkerTypes, RunTypes
  <2> QED BY <1>6, <2>1 DEF Collect, tableVars, workerVars, TableTypes, WorkerTypes, RunTypes,
                            HistoryTypes, RunInv
<1> QED BY <1>1, <1>2, <1>3, <1>4, <1>5, <1>6

LEMMA WorkerStepTypes ==
  ASSUME TypeOK, RunInv, NEW w \in Workers, WorkerStep(w) \/ WorkerKilled(w)
  PROVE  TableTypes' /\ WorkerTypes' /\ RunTypes' /\ HistoryTypes' /\ RunInv'
<1> USE TypeParts
<1>1. CASE WorkerStarts(w)
  BY <1>1 DEF WorkerStarts, tableVars, TableTypes, WorkerTypes, RunTypes, HistoryTypes, RunInv
<1>2. CASE WriteRow(w)
  <2>1. PICK i \in left[w] : /\ rows' = rows \cup {RowOf(opts, i)}
                             /\ left' = [left EXCEPT ![w] = @ \ {i}]
    BY <1>2 DEF WriteRow
  <2>2. i \in Int
    BY <2>1 DEF WorkerTypes
  <2>3. opts.buckets \in Nat /\ opts.buckets >= 1 /\ opts.offset \in Int
    BY <1>2, OptionTypes DEF WriteRow, WorkerRuns, RunInv, RunTypes
  <2>4. RowOf(opts, i) \in Keys
    BY <2>2, <2>3, KeyTypes DEF RowOf
  <2>5. TableTypes' /\ WorkerTypes'
    BY <1>2, <2>1, <2>4 DEF WriteRow, TableTypes, WorkerTypes
  <2> QED BY <1>2, <2>5 DEF WriteRow, RunTypes, HistoryTypes, RunInv
<1>3. CASE NextBatch(w)
  <2>1. chunk[w].to \in Int /\ chunk[w].from \in Int /\ total[w] \in Int
    BY DEF WorkerTypes
  <2>2. chunk[w].to < Last(opts, w) => NextChunk(opts, w, chunk[w].to) \in [from : Int, to : Int]
    BY <2>1, NextChunkBounds, ShareBounds DEF RunTypes
  <2>3. task' \in [Workers -> {"none", "waiting", "running", "done", "failed", "killed"}]
    BY <1>3 DEF NextBatch, WorkerTypes
  <2>4. chunk' \in [Workers -> [from : Int, to : Int]]
    BY <1>3, <2>2 DEF NextBatch, WorkerTypes
  <2>5. left' \in [Workers -> SUBSET Int]
    <3>1. \A a, b : a .. b \subseteq Int
      OBVIOUS
    <3> QED BY <1>3, <2>4, <3>1 DEF NextBatch, WorkerTypes
  <2>6. total' \in [Workers -> Int]
    BY <1>3, <2>1 DEF NextBatch, WorkerTypes
  <2> QED BY <1>3, <2>3, <2>4, <2>5, <2>6
          DEF NextBatch, tableVars, TableTypes, WorkerTypes, RunTypes, HistoryTypes, RunInv
<1>4. CASE WorkerFails(w) \/ WorkerKilled(w)
  BY <1>4, BoundsAssumption
     DEF WorkerFails, WorkerKilled, Fault, tableVars, TableTypes, WorkerTypes, RunTypes,
         HistoryTypes, RunInv
<1> QED BY <1>1, <1>2, <1>3, <1>4 DEF WorkerStep

LEMMA OthersTypes ==
  ASSUME TypeOK, RunInv, OthersStep
  PROVE  TypeOK' /\ RunInv'
<1> USE TypeParts
<1>1. UNCHANGED loadVars /\ (Kept \/ Dropped \/ Replaced)
  BY OthersFrame
<1>2. /\ columns' \in {"none", "bulk", "abc"} /\ rows' \subseteq Keys /\ asked' \subseteq Keys
      /\ gen' \in Nat /\ gen <= gen'
  BY <1>1 DEF Kept, Dropped, Replaced, TableTypes
<1>3. HistoryTypes'
  BY <1>1, <1>2, HistoryGrows DEF loadVars
<1>4. WorkerTypes' /\ RunInv'
  BY <1>1 DEF loadVars, workerVars, WorkerTypes, RunInv
<1>5. keyspace' \in BOOLEAN /\ faults' \in 0 .. MaxFaults /\ OtherTypes'
  <2> USE DEF TableTypes, RunTypes, OtherTypes
  <2>1. ASSUME NEW o \in QueryOptions, ReaderStarts(o)
        PROVE  keyspace' \in BOOLEAN /\ faults' \in 0 .. MaxFaults /\ OtherTypes'
    <3>1. found' \in BOOLEAN
      BY <2>1 DEF ReaderStarts
    <3> QED BY <2>1, <3>1, SlowAssumption DEF ReaderStarts, tableVars, slowVars
  <2>2. CASE LookUp
    <3>1. found' \in BOOLEAN
      BY <2>2 DEF LookUp
    <3> QED BY <2>2, <3>1, SlowAssumption DEF LookUp, tableVars, slowVars
  <2>3. CASE LookUpFails
    BY <2>3, SlowAssumption DEF LookUpFails, tableVars, slowVars
  <2>4. CASE ReaderEnds
    <3>1. found' \in BOOLEAN
      BY <2>4 DEF ReaderEnds
    <3>2. readerOpts' \in QueryOptions
      BY <2>4, QueryOptionsAssumption DEF ReaderEnds
    <3> QED BY <2>4, <3>1, <3>2, SlowAssumption DEF ReaderEnds, tableVars, slowVars
  <2>5. ASSUME NEW drop \in BOOLEAN, SlowStarts(drop)
        PROVE  keyspace' \in BOOLEAN /\ faults' \in 0 .. MaxFaults /\ OtherTypes'
    <3>1. keyspace' \in BOOLEAN
      BY <2>5 DEF SlowStarts, tableVars
    <3>2. faults' \in 0 .. MaxFaults
      BY <2>5, BoundsAssumption DEF SlowStarts, Fault
    <3>3. slowRows' \subseteq Keys
      BY <2>5 DEF SlowStarts
    <3> QED BY <2>5, <3>1, <3>2, <3>3 DEF SlowStarts, readerVars
  <2>6. CASE SlowKeyspace
    BY <2>6 DEF SlowKeyspace, CreateKeyspace, readerVars
  <2>7. CASE SlowInsert
    <3>1. slowNext' \in 0 .. SlowRows
      BY <2>7, SlowAssumption DEF SlowInsert
    <3>2. Key(slowNext', SlowBuckets) \in Keys
      BY <3>1, SlowAssumption, KeyTypes
    <3> QED BY <2>7, <3>1, <3>2 DEF SlowInsert, tableVars, readerVars
  <2>8. CASE SlowEnds
    BY <2>8, SlowAssumption DEF SlowEnds, tableVars, readerVars
  <2>9. CASE TombsStart \/ TombsDrop \/ TombsCreate
    <3>1. keyspace' \in BOOLEAN
      BY <2>9 DEF TombsStart, TombsDrop, TombsCreate, CreateKeyspace, DropTable
    <3>2. faults' \in 0 .. MaxFaults
      BY <2>9, BoundsAssumption DEF TombsStart, TombsDrop, TombsCreate, Fault
    <3> QED BY <2>9, <3>1, <3>2 DEF TombsStart, TombsDrop, TombsCreate, readerVars, slowVars
  <2> QED BY <2>1, <2>2, <2>3, <2>4, <2>5, <2>6, <2>7, <2>8, <2>9 DEF OthersStep
<1> QED BY <1>1, <1>2, <1>3, <1>4, <1>5 DEF loadVars, TableTypes, RunTypes

LEMMA LoaderTypes ==
  ASSUME TypeOK, RunInv, Alone(LoadStep)
  PROVE  TypeOK' /\ RunInv'
<1>1. OtherTypes'
  BY TypeParts DEF Alone, readerVars, slowVars, OtherTypes
<1>2. TableTypes' /\ WorkerTypes' /\ RunTypes' /\ HistoryTypes' /\ RunInv'
  BY EndTypes, ParentTypes, WorkerStepTypes DEF Alone, LoadStep, ParentStep
<1> QED BY <1>1, <1>2, TypeParts

LEMMA TypesInit == Init => TypeOK /\ RunInv
<1> SUFFICES ASSUME Init PROVE TypeOK /\ RunInv
  OBVIOUS
<1>1. opts \in LoadOptions /\ readerOpts \in QueryOptions
  BY LoadOptionsAssumption, QueryOptionsAssumption DEF Init
<1>2. TableTypes /\ WorkerTypes /\ HistoryTypes /\ RunInv
  BY DEF Init, TableTypes, WorkerTypes, HistoryTypes, RunInv, Nothing
<1>3. RunTypes
  BY <1>1, BoundsAssumption DEF Init, RunTypes
<1>4. found \in BOOLEAN
  BY DEF Init
<1>5. OtherTypes
  BY <1>1, <1>4, SlowAssumption DEF Init, OtherTypes
<1> QED BY <1>2, <1>3, <1>5, TypeParts

LEMMA TypesStep == TypeOK /\ RunInv /\ [Next]_vars => TypeOK' /\ RunInv'
<1> SUFFICES ASSUME TypeOK, RunInv, [Next]_vars PROVE TypeOK' /\ RunInv'
  OBVIOUS
<1>1. CASE UNCHANGED vars
  BY <1>1 DEF vars, tableVars, loadVars, workerVars, readerVars, slowVars, TypeOK, RunInv
<1>2. CASE Next
  BY <1>2, LoaderTypes, OthersTypes DEF Next
<1> QED BY <1>1, <1>2

\* Every number and every key stays within its range in every run of the tools, for all
\* command lines: main, insert_data_parallel, _worker_insert_range, query.py,
\* slow_loader.py and tombstone.py.
THEOREM Types == Spec => []TypeOK
<1>1. TypeOK /\ RunInv => TypeOK
  OBVIOUS
<1> QED BY <1>1, TypesInit, TypesStep, PTL DEF Spec

-----------------------------------------------------------------------------
(* The inductive invariant of a load *)

\* Only the loader's table has the loader's rows, and what its workers are to write has
\* been asked for as long as the table is there.
TableInv ==
  /\ columns # "bulk" => rows = {}
  /\ NoStrayRows
  /\ pc \in {"join", "collect"} /\ columns = "bulk" => Expected(opts) \subseteq asked

\* The ids of a job up to the end of its batch are pending or written, and counted when
\* the batch is over.
JobInv(w) ==
  /\ chunk[w].to \in First(opts, w) - 1 .. Last(opts, w)
  /\ left[w] \subseteq First(opts, w) .. chunk[w].to
  /\ task[w] \in {"waiting", "done"} => left[w] = {}
  /\ task[w] = "done" => /\ chunk[w].to = Last(opts, w)
                         /\ total[w] = Last(opts, w) - First(opts, w) + 1
  /\ task[w] # "done" => total[w] = chunk[w].from - First(opts, w)
  /\ loadGen = gen => \A i \in First(opts, w) .. chunk[w].to :
                        i \in left[w] \/ RowOf(opts, i) \in rows

JobsInv ==
  pc \in {"join", "collect"} =>
    \A w \in Workers : /\ task[w] # "none" <=> w \in Jobs(opts)
                       /\ w \in Jobs(opts) => JobInv(w)

\* The results taken so far are those of the shares up to there.
CollectInv ==
  pc = "collect" =>
    /\ \A w \in Workers : task[w] \in {"none", "done", "failed"}
    /\ \A w \in Workers : w < collected => task[w] # "failed"
    /\ reported = Before(opts, collected)

LoadInv == TableInv /\ JobsInv /\ CollectInv /\ CleanLoadComplete /\ TotalsExact

\* As long as the table is the same one its rows stay.
Persists == gen' \in Nat /\ gen <= gen' /\ (gen' = gen => rows \subseteq rows')

LEMMA TablePersists ==
  ASSUME TypeOK, TableInv, Kept \/ Dropped \/ Replaced
  PROVE  Persists
BY DEF TypeOK, TableInv, Kept, Dropped, Replaced, Persists

LEMMA CompleteKept ==
  ASSUME TypeOK, CleanLoadComplete, Persists, UNCHANGED complete
  PROVE  CleanLoadComplete'
<1> SUFFICES ASSUME complete # NoLoad, complete.gen = gen'
             PROVE  Expected(complete.opts) \subseteq rows'
  BY DEF CleanLoadComplete
<1>1. complete.gen \in 0 .. gen /\ gen \in Nat
  BY DEF TypeOK
<1>2. gen' = gen
  BY <1>1 DEF Persists
<1> QED BY <1>2 DEF CleanLoadComplete, Persists

LEMMA JobKept ==
  ASSUME TypeOK, NEW w \in Workers, JobInv(w), Persists, UNCHANGED <<opts, loadGen>>,
         task'[w] = task[w], chunk'[w] = chunk[w], left'[w] = left[w], total'[w] = total[w]
  PROVE  JobInv(w)'
<1>1. loadGen' = gen' => gen' = gen /\ loadGen = gen
  BY DEF Persists, TypeOK
<1> QED BY <1>1 DEF JobInv, Persists

LEMMA OthersLoadInv ==
  ASSUME TypeOK, LoadInv, UNCHANGED loadVars, Kept \/ Dropped \/ Replaced
  PROVE  LoadInv'
<1> USE DEF LoadInv, loadVars, workerVars
<1>1. Persists
  BY TablePersists
<1>2. TableInv'
  BY DEF TableInv, NoStrayRows, Kept, Dropped, Replaced
<1>3. JobsInv'
  BY <1>1, JobKept DEF JobsInv
<1>4. CollectInv' /\ TotalsExact'
  BY DEF CollectInv, TotalsExact
<1> QED BY <1>1, <1>2, <1>3, <1>4, CompleteKept

-----------------------------------------------------------------------------
(* The steps of the parent *)

LEMMA BeforeJobs ==
  ASSUME TypeOK, RunInv, LoadInv,
         (\E o \in LoadOptions : Launch(o)) \/ DropFirst \/ EnsureKeyspace
  PROVE  LoadInv'
<1> USE DEF LoadInv
<1>1. pc' \notin {"join", "collect"} /\ UNCHANGED complete /\ outcome' # "loaded"
  BY DEF Launch, DropFirst, EnsureKeyspace, RunInv
<1>2. Kept \/ Dropped
  BY DEF Launch, DropFirst, EnsureKeyspace, DropTable, CreateKeyspace, tableVars, Kept, Dropped
<1>3. TableInv'
  BY <1>1, <1>2 DEF TableInv, NoStrayRows, Kept, Dropped
<1>4. CleanLoadComplete'
  BY <1>1, <1>2, TablePersists, CompleteKept
<1> QED BY <1>1, <1>3, <1>4 DEF JobsInv, CollectInv, TotalsExact

LEMMA Submission ==
  ASSUME TypeOK, RunInv, LoadInv, EnsureTableAndSubmit
  PROVE  LoadInv'
<1> USE DEF LoadInv
<1>1. TableInv'
  BY DEF EnsureTableAndSubmit, TableInv, NoStrayRows, TypeOK
<1>2. JobsInv'
  <2> SUFFICES ASSUME NEW w \in Workers
               PROVE  /\ task'[w] # "none" <=> w \in Jobs(opts)
                      /\ w \in Jobs(opts) => JobInv(w)'
    BY DEF EnsureTableAndSubmit, JobsInv
  <2>1. /\ task'[w] = IF w \in Jobs(opts) THEN "waiting" ELSE "none"
        /\ chunk'[w] = [from |-> First(opts, w), to |-> First(opts, w) - 1]
        /\ left'[w] = {} /\ total'[w] = 0 /\ opts' = opts
    BY DEF EnsureTableAndSubmit, NothingDone
  <2>2. /\ First(opts, w) \in Nat /\ Last(opts, w) \in Nat
        /\ w \in Jobs(opts) => First(opts, w) <= Last(opts, w)
    BY ShareBounds DEF TypeOK
  <2> QED BY <2>1, <2>2 DEF JobInv
<1>3. Persists /\ UNCHANGED complete
  BY DEF EnsureTableAndSubmit, Persists, TypeOK
<1>4. CollectInv' /\ TotalsExact'
  BY DEF EnsureTableAndSubmit, CollectInv, TotalsExact, RunInv
<1> QED BY <1>1, <1>2, <1>3, <1>4, CompleteKept

LEMMA Collecting ==
  ASSUME TypeOK, RunInv, LoadInv, StartCollecting \/ \E w \in Workers : Collect(w)
  PROVE  LoadInv'
<1> USE DEF LoadInv
<1>1. /\ UNCHANGED <<tableVars, opts, workerVars, outcome, loadGen, complete>>
      /\ pc \in {"join", "collect"} /\ pc' = "collect" /\ outcome = "none"
  BY DEF StartCollecting, Collect, RunInv
<1>2. Kept
  BY <1>1 DEF tableVars, Kept
<1>3. Persists
  BY <1>2, TablePersists
<1>4. TableInv' /\ TotalsExact'
  BY <1>1, <1>2 DEF TableInv, NoStrayRows, TotalsExact, Kept
<1>5. JobsInv'
  BY <1>1, <1>3, JobKept DEF JobsInv, workerVars
<1>6. CASE StartCollecting
  <2>1. reported' = Before(opts, 0) /\ collected' = 0
    BY <1>6, AllBefore DEF StartCollecting, TypeOK
  <2>2. \A w \in Workers : task'[w] \in {"none", "done", "failed"} /\ ~(w < 0)
    BY <1>1, <1>6, BoundsAssumption
       DEF StartCollecting, Joined, Submitted, workerVars, Workers, TypeOK
  <2>3. CollectInv'
    BY <1>1, <2>1, <2>2 DEF CollectInv
  <2> QED BY <1>1, <1>3, <1>4, <1>5, <2>3, CompleteKept
<1>7. ASSUME NEW w \in Workers, Collect(w) PROVE LoadInv'
  <2>1. w \in Nat /\ collected = w /\ collected' = w + 1 /\ task[w] # "failed"
        /\ reported = Before(opts, w) /\ pc = "collect"
    BY <1>7, BoundsAssumption DEF Collect, CollectInv, Workers
  <2>2. w \in Submitted <=> w \in Jobs(opts)
    BY <2>1 DEF Submitted, JobsInv
  <2>3. w \in Jobs(opts) => total[w] = Last(opts, w) - First(opts, w) + 1
    BY <2>1, <2>2 DEF JobsInv, JobInv, CollectInv, Submitted
  <2>4. reported \in Int /\ opts \in LoadOptions
    BY DEF TypeOK
  <2>5. reported' = reported + (IF w \in Jobs(opts) THEN Last(opts, w) - First(opts, w) + 1 ELSE 0)
    BY <1>7, <2>2, <2>3, <2>4 DEF Collect
  <2>6. reported' = Before(opts, w + 1)
    BY <2>1, <2>4, <2>5, ShareSizes
  <2>7. \A x \in Workers : x < w + 1 => x < w \/ x = w
    BY <2>1, BoundsAssumption DEF Workers
  <2>8. CollectInv'
    BY <1>1, <2>1, <2>6, <2>7 DEF CollectInv, workerVars
  <2> QED BY <1>1, <1>3, <1>4, <1>5, <2>8, CompleteKept
<1> QED BY <1>6, <1>7

\* When the last result is taken every row asked for has been written, unless the table
\* has gone since.
LEMMA LoadedMeansWritten ==
  ASSUME TypeOK, LoadInv, ReportTotals, loadGen = gen
  PROVE  Expected(opts) \subseteq rows
<1> SUFFICES ASSUME NEW id \in opts.offset + 1 .. opts.offset + opts.row_count
             PROVE  Key(id, opts.buckets) \in rows
  BY DEF Expected
<1> DEFINE i == id - opts.offset
<1>1. opts \in LoadOptions /\ opts.offset \in Int /\ opts.row_count \in Nat
  BY OptionTypes DEF TypeOK
<1>2. i \in 1 .. opts.row_count /\ i + opts.offset = id
  BY <1>1
<1>3. PICK w \in Workers : w \in Jobs(opts) /\ i \in First(opts, w) .. Last(opts, w)
  BY <1>1, <1>2, SharesCover
<1>4. task[w] = "done"
  <2>1. pc = "collect" /\ collected = MaxWorkers /\ w < MaxWorkers
    BY BoundsAssumption DEF ReportTotals, Workers
  <2> QED BY <1>3, <2>1 DEF LoadInv, CollectInv, JobsInv
<1>5. RowOf(opts, i) \in rows
  BY <1>3, <1>4 DEF LoadInv, JobsInv, JobInv, ReportTotals
<1> QED BY <1>2, <1>5 DEF RowOf

LEMMA EndInv ==
  ASSUME TypeOK, LoadInv, SchemaFails \/ ReportTotals \/ RaiseFailure \/ Interrupt
  PROVE  LoadInv'
<1> USE DEF LoadInv
<1>1. pc' = "idle" /\ UNCHANGED <<tableVars, reported, loadGen, opts>>
  BY Endings DEF EndLoad
<1>2. Kept
  BY <1>1 DEF tableVars, Kept
<1>3. TableInv' /\ JobsInv' /\ CollectInv'
  BY <1>1, <1>2 DEF TableInv, NoStrayRows, Kept, JobsInv, CollectInv
<1>4. CASE ReportTotals
  <2>1. TotalsExact'
    <3>1. reported = Before(opts, MaxWorkers)
      BY <1>4 DEF ReportTotals, CollectInv
    <3>2. reported = opts.row_count
      BY <3>1, AllBefore DEF TypeOK
    <3> QED BY <1>1, <3>2 DEF TotalsExact
  <2>2. complete' = [gen |-> loadGen, opts |-> opts]
    BY <1>4 DEF ReportTotals
  <2>3. CleanLoadComplete'
    BY <1>1, <1>4, <2>2, LoadedMeansWritten DEF CleanLoadComplete, tableVars
  <2> QED BY <1>3, <2>1, <2>3
<1>5. CASE SchemaFails \/ RaiseFailure \/ Interrupt
  <2>1. outcome' # "loaded" /\ UNCHANGED complete
    BY <1>5 DEF SchemaFails, RaiseFailure, Interrupt, EndLoad
  <2>2. CleanLoadComplete'
    BY <1>2, <2>1, TablePersists, CompleteKept
  <2> QED BY <1>3, <2>1, <2>2 DEF TotalsExact
<1> QED BY <1>4, <1>5

-----------------------------------------------------------------------------
(* The steps of a worker *)

\* A worker's step touches its own batch alone, and adds to the rows.
Touches(w) ==
  /\ pc = "join" /\ pc' = "join"
  /\ UNCHANGED <<columns, gen, asked, opts, outcome, loadGen, complete>>
  /\ rows \subseteq rows'
  /\ \A x \in Workers \ {w} : /\ task'[x] = task[x] /\ chunk'[x] = chunk[x]
                              /\ left'[x] = left[x] /\ total'[x] = total[x]

LEMMA WorkerTouches ==
  ASSUME TypeOK, NEW w \in Workers, WorkerStep(w) \/ WorkerKilled(w)
  PROVE  Touches(w)
BY DEF WorkerStep, WorkerStarts, WriteRow, NextBatch, WorkerFails, WorkerKilled, WorkerRuns,
       tableVars, Touches, TypeOK

LEMMA WriteRowInv ==
  ASSUME TypeOK, NEW w \in Workers, JobInv(w), w \in Jobs(opts), TableInv, WriteRow(w)
  PROVE  JobInv(w)' /\ TableInv'
<1>1. PICK i \in left[w] : rows' = rows \cup {RowOf(opts, i)} /\ left' = [left EXCEPT ![w] = @ \ {i}]
  BY DEF WriteRow
<1>2. /\ columns = "bulk" /\ pc = "join" /\ task[w] = "running"
      /\ UNCHANGED <<columns, gen, asked, pc, opts, task, chunk, total, loadGen>>
  BY DEF WriteRow, WorkerRuns
<1>3. left'[w] = left[w] \ {i}
  BY <1>1 DEF TypeOK
<1>4. JobInv(w)'
  BY <1>1, <1>2, <1>3 DEF JobInv
<1>5. RowOf(opts, i) \in Expected(opts)
  <2>1. /\ opts.row_count \in Nat /\ opts.offset \in Int
        /\ First(opts, w) \in Nat /\ First(opts, w) >= 1
        /\ Last(opts, w) \in Nat /\ Last(opts, w) <= opts.row_count /\ chunk[w].to \in Int
    BY OptionTypes, ShareBounds DEF TypeOK
  <2>2. i \in 1 .. opts.row_count
    BY <2>1 DEF JobInv
  <2>3. i + opts.offset \in opts.offset + 1 .. opts.offset + opts.row_count
    BY <2>1, <2>2
  <2> QED BY <2>3 DEF RowOf, Expected
<1>6. TableInv'
  BY <1>1, <1>2, <1>5 DEF TableInv, NoStrayRows
<1> QED BY <1>4, <1>6

LEMMA NextBatchInv ==
  ASSUME TypeOK, NEW w \in Workers, JobInv(w), w \in Jobs(opts), NextBatch(w)
  PROVE  JobInv(w)'
<1> DEFINE f == First(opts, w)
           l == Last(opts, w)
           c == chunk[w]
<1>1. /\ UNCHANGED <<rows, gen, opts, loadGen>> /\ left[w] = {} /\ task[w] = "running"
      /\ total'[w] = total[w] + (c.to - c.from + 1)
  BY DEF NextBatch, WorkerRuns, tableVars, TypeOK
<1>2. /\ f \in Nat /\ l \in Nat /\ f <= l /\ c.to \in Int /\ c.from \in Int
      /\ total[w] = c.from - f /\ c.to \in f - 1 .. l
  BY <1>1, ShareBounds DEF TypeOK, JobInv
<1>3. total'[w] = c.to + 1 - f
  BY <1>1, <1>2
<1>4. loadGen = gen => \A i \in f .. c.to : RowOf(opts, i) \in rows
  BY <1>1 DEF JobInv
<1>5. CASE c.to < l
  <2> DEFINE d == NextChunk(opts, w, c.to)
  <2>1. chunk'[w] = d /\ left'[w] = d.from .. d.to /\ task'[w] = "running"
    BY <1>1, <1>5 DEF NextBatch, TypeOK
  <2>2. d.from = c.to + 1 /\ d.to \in c.to .. l
    BY <1>2, NextChunkBounds DEF TypeOK
  <2> HIDE DEF d
  <2>3. \A i \in f .. d.to : i \in f .. c.to \/ i \in d.from .. d.to
    BY <1>2, <2>2
  <2>4. d.from .. d.to \subseteq f .. d.to /\ d.to \in f - 1 .. l /\ total'[w] = d.from - f
    BY <1>2, <1>3, <2>2
  <2> HIDE DEF f, l, c
  <2>5. /\ chunk'[w].to \in f - 1 .. l
        /\ left'[w] \subseteq f .. chunk'[w].to
        /\ total'[w] = chunk'[w].from - f
        /\ loadGen' = gen' => \A i \in f .. chunk'[w].to :
                                i \in left'[w] \/ RowOf(opts, i) \in rows'
    BY <1>1, <1>4, <2>1, <2>3, <2>4
  <2> QED BY <1>1, <2>1, <2>5 DEF JobInv, f, l
<1>6. CASE ~(c.to < l)
  <2>1. chunk'[w] = c /\ left'[w] = {} /\ task'[w] = "done"
    BY <1>1, <1>6 DEF NextBatch, TypeOK
  <2>2. c.to = l
    BY <1>2, <1>6
  <2>3. total'[w] = l - f + 1
    BY <1>2, <1>3, <2>2
  <2> QED BY <1>1, <1>2, <1>4, <2>1, <2>2, <2>3 DEF JobInv
<1> QED BY <1>5, <1>6

LEMMA WorkerInv ==
  ASSUME TypeOK, RunInv, LoadInv, NEW w \in Workers, WorkerStep(w) \/ WorkerKilled(w)
  PROVE  LoadInv'
<1> USE DEF LoadInv
<1>1. Touches(w)
  BY WorkerTouches
<1>2. Persists
  BY <1>1 DEF Touches, Persists, TypeOK
<1>3. CollectInv' /\ TotalsExact' /\ CleanLoadComplete'
  BY <1>1, <1>2, CompleteKept DEF Touches, CollectInv, TotalsExact, RunInv
<1>4. task[w] # "none" /\ task'[w] # "none"
  BY DEF WorkerStep, WorkerStarts, WriteRow, NextBatch, WorkerFails, WorkerKilled, WorkerRuns,
         TypeOK
<1>5. JobInv(w) /\ w \in Jobs(opts)
  BY <1>1, <1>4 DEF Touches, JobsInv
<1>6. JobInv(w)' /\ TableInv'
  <2>1. CASE WriteRow(w)
    BY <1>5, <2>1, WriteRowInv
  <2>2. CASE NextBatch(w)
    BY <1>5, <2>2, NextBatchInv DEF NextBatch, tableVars, TableInv, NoStrayRows
  <2>3. CASE WorkerStarts(w) \/ WorkerFails(w) \/ WorkerKilled(w)
    <3>1. /\ UNCHANGED <<tableVars, pc, opts, chunk, left, total, loadGen>>
          /\ task[w] \in {"waiting", "running"} /\ task'[w] \in {"running", "failed", "killed"}
      BY <2>3 DEF WorkerStarts, WorkerFails, WorkerKilled, WorkerRuns, TypeOK
    <3>2. TableInv'
      BY <3>1 DEF tableVars, TableInv, NoStrayRows
    <3>3. JobInv(w)'
      BY <1>5, <3>1 DEF tableVars, JobInv
    <3> QED BY <3>2, <3>3
  <2> QED BY <2>1, <2>2, <2>3 DEF WorkerStep
<1>7. JobsInv'
  <2>1. ASSUME NEW x \in Workers, x # w, x \in Jobs(opts) PROVE JobInv(x)'
    BY <1>1, <1>2, <2>1, JobKept DEF Touches, JobsInv
  <2> QED BY <1>1, <1>4, <1>5, <1>6, <2>1 DEF Touches, JobsInv
<1> QED BY <1>3, <1>6, <1>7

-----------------------------------------------------------------------------
LEMMA LoadInvInit == Init => LoadInv
BY DEF Init, LoadInv, TableInv, NoStrayRows, JobsInv, CollectInv, CleanLoadComplete, TotalsExact

LEMMA LoadInvStep == TypeOK /\ RunInv /\ LoadInv /\ [Next]_vars => LoadInv'
<1> SUFFICES ASSUME TypeOK, RunInv, LoadInv, [Next]_vars PROVE LoadInv'
  OBVIOUS
<1>1. CASE UNCHANGED vars
  BY <1>1, OthersLoadInv DEF vars, tableVars, Kept
<1>2. CASE OthersStep
  BY <1>2, OthersFrame, OthersLoadInv
<1>3. CASE Alone(LoadStep)
  BY <1>3, BeforeJobs, Submission, Collecting, EndInv, WorkerInv DEF Alone, LoadStep, ParentStep
<1> QED BY <1>1, <1>2, <1>3 DEF Next

LEMMA Invariance == Spec => [](TypeOK /\ RunInv /\ LoadInv)
BY TypesInit, TypesStep, LoadInvInit, LoadInvStep, PTL DEF Spec

\* A run of loader.py that exits with 0 has written every row it was asked for, for all
\* row counts, workers, batch sizes, offsets and buckets, whatever failed, was killed or
\* interrupted before and whichever tool drops the table meanwhile (main,
\* insert_data_parallel, _worker_insert_range).
THEOREM LoadsAreComplete == Spec => []CleanLoadComplete
<1>1. LoadInv => CleanLoadComplete
  BY DEF LoadInv
<1> QED BY <1>1, Invariance, PTL

\* No worker of loader.py writes a row outside the range its run was asked for, however
\* the range divides (insert_data_parallel, chunked_ids).
THEOREM WorkersStayInRange == Spec => []NoStrayRows
<1>1. LoadInv => NoStrayRows
  BY DEF LoadInv, TableInv
<1> QED BY <1>1, Invariance, PTL

\* The total a run of loader.py logs is the row count it was given
\* (insert_data_parallel's sum over the jobs).
THEOREM TotalsAreExact == Spec => []TotalsExact
<1>1. LoadInv => TotalsExact
  BY DEF LoadInv
<1> QED BY <1>1, Invariance, PTL

-----------------------------------------------------------------------------
(* The reader *)

\* A row of a load that matches the reader's flags is one the load was to write.
LEMMA MatchingKeys ==
  ASSUME NEW q \in QueryOptions, NEW o \in LoadOptions, Matches(q, o),
         NEW n \in 1 .. q.row_count
  PROVE  ReaderKey(q, n) \in Expected(o)
<1>1. /\ q.row_count \in Nat /\ q.offset \in Int /\ o.row_count \in Nat /\ o.offset \in Int
  BY OptionTypes, QueryOptionsAssumption DEF QueryArgs
<1>2. q.offset + n \in o.offset + 1 .. o.offset + o.row_count
  BY <1>1 DEF Matches
<1> QED BY <1>2 DEF Matches, ReaderKey, Expected

Finds ==
  queryCount' > queryCount /\ complete # NoLoad /\ complete.gen = gen
    /\ Matches(readerOpts, complete.opts) => found'

LEMMA LookUpFinds ==
  ASSUME TypeOK, CleanLoadComplete, [Next]_vars
  PROVE  Finds
<1> SUFFICES ASSUME queryCount' > queryCount, complete # NoLoad, complete.gen = gen,
                    Matches(readerOpts, complete.opts)
             PROVE  found'
  BY DEF Finds
<1>1. queryCount \in Nat /\ readerOpts \in QueryOptions /\ complete.opts \in LoadOptions
  BY SlowAssumption DEF TypeOK
<1>2. queryCount' # queryCount /\ queryCount' # 0
  BY <1>1
<1>3. LookUp
  BY <1>2 DEF Next, Alone, OthersStep, ReaderStarts, LookUpFails, ReaderEnds, SlowStarts,
              SlowKeyspace, SlowInsert, SlowEnds, TombsStart, TombsDrop, TombsCreate, vars,
              readerVars
<1>4. PICK n \in 1 .. readerOpts.row_count : found' = (ReaderKey(readerOpts, n) \in rows)
  BY <1>3 DEF LookUp
<1>5. ReaderKey(readerOpts, n) \in rows
  BY <1>1, MatchingKeys DEF CleanLoadComplete
<1> QED BY <1>4, <1>5

\* A reader whose --row_count, --offset and --buckets match a load that ended well finds
\* a row at every look-up while that load's table is there (query.py, execute_query).
THEOREM MatchingReadersFind == Spec => MatchingReaderFinds
<1>1. TypeOK /\ LoadInv /\ [Next]_vars => [Finds]_vars
  BY LookUpFinds DEF LoadInv
<1>2. Spec => [][Finds]_vars
  BY <1>1, Invariance, PTL DEF Spec
<1> QED BY <1>2 DEF MatchingReaderFinds, Finds

-----------------------------------------------------------------------------
(* The sessions *)

\* Whatever resolve_connection and build_cluster_and_session make of the flags is what
\* the flags ask for.
LEMMA SessionsHonour ==
  ASSUME NEW args \in ConnectionArgs, NEW s \in Sessions(args)
  PROVE  Honours(s, args)
<1>1. PICK resolved \in Resolve(args) : s \in Build(resolved, args)
  BY DEF Sessions
<1>2. /\ resolved.hosts = Names(args.hosts)
      /\ resolved.login = IF args.mtls THEN "certificate" ELSE "password"
      /\ args.tls \/ args.mtls => resolved.ports = {TlsPort}
  BY <1>1 DEF Resolve
<1> DEFINE local == IsLocalOnly(resolved.hosts, args.local_only)
<1>3. PICK port \in resolved.ports :
        s = [routes |-> IF local THEN {Translate(resolved.hosts, a) : a \in NodeAddresses}
                        ELSE NodeAddresses,
             shardAware |-> ~local, tls |-> port = TlsPort, login |-> resolved.login]
  BY <1>1 DEF Build
<1>4. args.tls \/ args.mtls => s.tls
  BY <1>2, <1>3
<1>5. s.login = "certificate" <=> args.mtls
  BY <1>2, <1>3
<1>6. resolved.hosts[1] = args.hosts[1].name
  BY <1>2 DEF Names, ConnectionArgs
<1>7. local => s.routes \subseteq {args.hosts[1].name} /\ ~s.shardAware
  BY <1>3, <1>6 DEF Translate
<1> QED BY <1>2, <1>4, <1>5, <1>7 DEF Honours

SessionsInv == (pc = "idle" => dialled = {}) /\ dialled \subseteq Sessions(opts.conn)

LEMMA SessionsInvStep == SessionsInv /\ [Next]_vars => SessionsInv'
<1> SUFFICES ASSUME SessionsInv, [Next]_vars PROVE SessionsInv'
  OBVIOUS
<1> USE DEF SessionsInv
<1>1. CASE UNCHANGED loadVars
  BY <1>1 DEF loadVars
<1>2. CASE Alone(LoadStep)
  <2>1. ASSUME NEW o \in LoadOptions, Launch(o) PROVE SessionsInv'
    BY <2>1 DEF Launch
  <2>2. CASE DropFirst \/ EnsureKeyspace
    BY <2>2 DEF DropFirst, EnsureKeyspace
  <2>3. CASE EnsureTableAndSubmit \/ StartCollecting
    BY <2>3 DEF EnsureTableAndSubmit, StartCollecting
  <2>4. CASE SchemaFails \/ ReportTotals \/ RaiseFailure \/ Interrupt
    BY <2>4, Endings DEF EndLoad
  <2>5. ASSUME NEW w \in Workers,
               Collect(w) \/ WriteRow(w) \/ NextBatch(w) \/ WorkerFails(w) \/ WorkerKilled(w)
        PROVE  SessionsInv'
    BY <2>5 DEF Collect, WriteRow, NextBatch, WorkerFails, WorkerKilled
  <2>6. ASSUME NEW w \in Workers, WorkerStarts(w) PROVE SessionsInv'
    BY <2>6 DEF WorkerStarts, WorkerRuns
  <2> QED BY <1>2, <2>1, <2>2, <2>3, <2>4, <2>5, <2>6 DEF Alone, LoadStep, ParentStep, WorkerStep
<1>3. CASE OthersStep
  BY <1>1, <1>3, OthersFrame
<1> QED BY <1>1, <1>2, <1>3 DEF Next, vars

\* Every session of a run of loader.py, its parent's and its workers', is encrypted,
\* authenticated and routed as its flags say, for all flags (resolve_connection,
\* build_cluster_and_session, SingleEndpointTranslator).
THEOREM FlagsAreHonoured == Spec => []SessionsHonourFlags
<1>1. Init => SessionsInv
  BY DEF Init, SessionsInv
<1>2. TypeOK /\ SessionsInv => SessionsHonourFlags
  BY SessionsHonour, OptionTypes DEF TypeOK, SessionsInv, SessionsHonourFlags
<1> QED BY <1>1, <1>2, SessionsInvStep, Types, PTL DEF Spec
=============================================================================

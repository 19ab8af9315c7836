--------------------------- MODULE DemoTables_proofs ---------------------------
(***************************************************************************)
(* The CQL table of users and the keyspace vnodes_ks, for every set of     *)
(* command lines, all sample data and every bound on runs and faults.      *)
(***************************************************************************)
EXTENDS DemoTables, TLAPS

-----------------------------------------------------------------------------
(* The CQL table of users *)

CqlStates ==
  [pc : {"off", "drop", "create", "batch", "insert"}, opts : CqlOptions, next : Int,
   left : SUBSET Int, at : Int, total : Int]

CqlTypes ==
  /\ now \in Int
  /\ cqlRows \subseteq [user : Int, at : Int]
  /\ told \subseteq [user : Int, at : Int]
  /\ cql \in CqlStates

Written(u, t) == \E r \in cqlRows : r.user = u /\ r.at >= t

\* The users of the batch are pending or written.
BatchInv ==
  CqlAt("insert") =>
    \A u \in cql.next - CqlBatchSize .. cql.next - 1 : u \in cql.left \/ Written(u, cql.at)

CqlInv == CqlTypes /\ BatchInv /\ CountedWritesStay

LEMMA CqlOptionTypes ==
  ASSUME NEW o \in CqlOptions
  PROVE  o.first \in Int /\ o.timestamp \in Int /\ o.skew \in Int
BY CqlAssumption DEF CqlArgs

LEMMA CountingTypes ==
  ASSUME NEW state \in CqlStates, NEW sum \in Int, NEW stamp \in Int,
         NEW label \in {"off", "drop", "create", "batch", "insert"}
  PROVE  [state EXCEPT !.pc = label, !.total = sum, !.at = stamp] \in CqlStates
BY DEF CqlStates

LEMMA IdleTypes == CqlIdle \in CqlStates
<1>1. (CHOOSE o \in CqlOptions : TRUE) \in CqlOptions
  BY CqlAssumption
<1> QED BY <1>1 DEF CqlIdle, CqlStates

\* A write never takes a user back to an older one.
LEMMA MergedKeeps ==
  ASSUME CqlTypes, NEW u \in Int, NEW t \in Int, cqlRows' = Merged(u, t)
  PROVE  /\ cqlRows' \subseteq [user : Int, at : Int]
         /\ Written(u, t)'
         /\ \A x, s \in Int : Written(x, s) => Written(x, s)'
<1> DEFINE old == {r \in cqlRows : r.user = u}
           new == [user |-> u, at |-> t]
<1>1. CASE \E r \in old : r.at > t
  <2>1. cqlRows' = cqlRows
    BY <1>1 DEF Merged
  <2>2. \E r \in cqlRows : r.user = u /\ r.at >= t
    BY <1>1 DEF CqlTypes, CqlStates
  <2> QED BY <2>1, <2>2 DEF Written, CqlTypes, CqlStates
<1>2. CASE ~\E r \in old : r.at > t
  <2>1. cqlRows' = (cqlRows \ old) \cup {new}
    BY <1>2 DEF Merged
  <2>2. new \in cqlRows' /\ new.user = u /\ new.at >= t
    BY <2>1
  <2>3. ASSUME NEW x \in Int, NEW s \in Int, NEW r \in cqlRows, r.user = x, r.at >= s
        PROVE  Written(x, s)'
    <3>1. CASE r \in old
      <4>1. r.at \in Int /\ ~(r.at > t)
        BY <1>2, <3>1 DEF CqlTypes, CqlStates
      <4> QED BY <2>2, <2>3, <3>1, <4>1 DEF Written
    <3>2. CASE r \notin old
      BY <2>1, <2>3, <3>2 DEF Written
    <3> QED BY <3>1, <3>2
  <2>4. cqlRows' \subseteq [user : Int, at : Int]
    BY <2>1 DEF CqlTypes, CqlStates
  <2>5. Written(u, t)'
    BY <2>2 DEF Written
  <2>6. \A x, s \in Int : Written(x, s) => Written(x, s)'
    BY <2>3 DEF Written
  <2> QED BY <2>4, <2>5, <2>6
<1> QED BY <1>1, <1>2

LEMMA CqlStepInv ==
  ASSUME CqlInv, CqlStep
  PROVE  CqlInv'
<1> USE DEF CqlInv, CqlAt
<1>1. CASE \/ \E o \in CqlOptions : CqlStarts(o)
           \/ CqlCreates \/ CqlEnds \/ CqlDies
  <2>1. UNCHANGED <<cqlRows, told, now>>
    BY <1>1 DEF CqlStarts, CqlCreates, CqlEnds, CqlDies, Fault, clockVars
  <2>2. CqlTypes' /\ cql'.pc # "insert"
    <3>1. ASSUME NEW o \in CqlOptions, CqlStarts(o) PROVE CqlTypes' /\ cql'.pc # "insert"
      <4> DEFINE next == IF o.drop THEN "drop" ELSE "create"
      <4>1. next \in {"drop", "create"}
        OBVIOUS
      <4>2. cql' = [CqlIdle EXCEPT !.pc = next, !.opts = o, !.next = o.first]
        BY <3>1 DEF CqlStarts
      <4> HIDE DEF next
      <4> QED BY <2>1, <4>1, <4>2, IdleTypes, CqlOptionTypes DEF CqlTypes, CqlStates
    <3>2. CASE CqlCreates
      BY <2>1, <3>2 DEF CqlCreates, CqlTypes, CqlStates
    <3>3. CASE CqlEnds \/ CqlDies
      <4>1. cql' = CqlIdle
        BY <3>3 DEF CqlEnds, CqlDies
      <4>2. CqlIdle.pc # "insert"
        BY DEF CqlIdle, CqlStates
      <4> QED BY <2>1, <4>1, <4>2, IdleTypes DEF CqlTypes, CqlStates
    <3> QED BY <1>1, <3>1, <3>2, <3>3
  <2> QED BY <2>1, <2>2 DEF BatchInv, CountedWritesStay
<1>2. CASE CqlDrops
  BY <1>2 DEF CqlDrops, clockVars, CqlTypes, CqlStates, BatchInv, CountedWritesStay
<1>3. CASE CqlTakesBatch
  <2>1. Timestamp(cql.opts) \in Int /\ cql.next \in Int /\ CqlBatchSize \in Nat
    BY CqlOptionTypes, CqlAssumption DEF CqlTypes, CqlStates, Timestamp
  <2> DEFINE users == cql.next .. cql.next + CqlBatchSize - 1
             stamp == Timestamp(cql.opts)
  <2>2. cql' = [cql EXCEPT !.pc = "insert", !.next = cql.next + CqlBatchSize, !.at = stamp,
                           !.left = users]
        /\ UNCHANGED <<cqlRows, told, now>>
    BY <1>3 DEF CqlTakesBatch, clockVars
  <2>3. users \in SUBSET Int
    BY <2>1
  <2>5. cql'.next - CqlBatchSize = cql.next /\ cql'.next - 1 = cql.next + CqlBatchSize - 1
        /\ cql'.left = users
    BY <2>1, <2>2 DEF CqlTypes, CqlStates
  <2>4. CqlTypes'
    <3> HIDE DEF users, stamp
    <3>1. cql.next + CqlBatchSize \in Int /\ stamp \in Int
      BY <2>1 DEF stamp
    <3> QED BY <2>2, <2>3, <3>1 DEF CqlTypes, CqlStates
  <2>6. BatchInv'
    BY <2>5 DEF BatchInv
  <2> QED BY <2>2, <2>4, <2>6 DEF CountedWritesStay
<1>4. CASE CqlInserts
  <2>1. PICK u \in cql.left : cqlRows' = Merged(u, cql.at) /\ cql' = [cql EXCEPT !.left = @ \ {u}]
    BY <1>4 DEF CqlInserts
  <2>2. u \in Int /\ cql.at \in Int /\ cql.next \in Int /\ CqlBatchSize \in Nat
        /\ UNCHANGED <<told, now>>
    BY <1>4, <2>1, CqlAssumption DEF CqlTypes, CqlStates, CqlInserts, clockVars
  <2>3. /\ cqlRows' \subseteq [user : Int, at : Int]
        /\ Written(u, cql.at)'
        /\ \A x, s \in Int : Written(x, s) => Written(x, s)'
    BY <2>1, <2>2, MergedKeeps
  <2>4. CqlTypes'
    BY <2>1, <2>2, <2>3 DEF CqlTypes, CqlStates
  <2>5. /\ cql'.left = cql.left \ {u} /\ cql'.at = cql.at /\ cql'.next = cql.next
        /\ cql'.pc = cql.pc
    BY <2>1 DEF CqlTypes, CqlStates
  <2>6. BatchInv'
    <3> SUFFICES ASSUME NEW x \in cql.next - CqlBatchSize .. cql.next - 1, CqlAt("insert")
                 PROVE  x \in cql'.left \/ Written(x, cql.at)'
      BY <2>5 DEF BatchInv, Written
    <3>1. x \in Int /\ (x \in cql.left \/ Written(x, cql.at))
      BY <2>2 DEF BatchInv
    <3>2. CASE x = u
      BY <2>1, <2>3, <3>2 DEF Written
    <3>3. CASE x # u
      BY <2>1, <2>2, <2>3, <2>5, <3>1, <3>3 DEF Written
    <3> QED BY <3>2, <3>3
  <2>7. CountedWritesStay'
    <3> SUFFICES ASSUME NEW w \in told PROVE Written(w.user, w.at)'
      BY <2>2 DEF CountedWritesStay, Written
    <3>1. w.user \in Int /\ w.at \in Int /\ Written(w.user, w.at)
      BY DEF CountedWritesStay, Written, CqlTypes, CqlStates
    <3> QED BY <2>3, <3>1
  <2> QED BY <2>4, <2>6, <2>7
<1>5. CASE CqlCounts
  <2>1. cql.next \in Int /\ cql.at \in Int /\ cql.total \in Int /\ CqlBatchSize \in Nat
    BY CqlAssumption DEF CqlTypes, CqlStates
  <2>2. \A w \in Batch : Written(w.user, w.at) /\ w \in [user : Int, at : Int]
    BY <1>5, <2>1 DEF CqlCounts, Batch, BatchInv
  <2>3. CqlTypes' /\ cql'.pc = "batch"
    <3>1. told' \subseteq [user : Int, at : Int]
      BY <1>5, <2>2 DEF CqlCounts, CqlTypes, CqlStates
    <3>2. cql' = [cql EXCEPT !.pc = "batch", !.total = cql.total + CqlBatchSize, !.at = 0]
          /\ cql.total + CqlBatchSize \in Int
      BY <1>5, <2>1 DEF CqlCounts
    <3>3. UNCHANGED <<now, cqlRows>>
      BY <1>5 DEF CqlCounts, clockVars
    <3>4. cql' \in CqlStates
      <4>1. /\ cql \in CqlStates /\ 0 \in Int
            /\ "batch" \in {"off", "drop", "create", "batch", "insert"}
        BY DEF CqlTypes
      <4> QED BY <3>2, <4>1, CountingTypes, Zenon
    <3>5. cql'.pc = "batch"
      BY <3>2 DEF CqlTypes, CqlStates
    <3> QED BY <3>1, <3>3, <3>4, <3>5 DEF CqlTypes
  <2>4. CountedWritesStay'
    BY <1>5, <2>2 DEF CqlCounts, CountedWritesStay, Written
  <2> QED BY <2>3, <2>4 DEF BatchInv
<1> QED BY <1>1, <1>2, <1>3, <1>4, <1>5 DEF CqlStep

LEMMA CqlNext == CqlInv /\ [Next]_vars => CqlInv'
<1> SUFFICES ASSUME CqlInv, [Next]_vars PROVE CqlInv'
  OBVIOUS
<1>1. CASE OnCqlUsers(CqlStep)
  BY <1>1, CqlStepInv DEF OnCqlUsers
<1>2. CASE UNCHANGED cqlVars /\ now' \in Int
  BY <1>2 DEF cqlVars, CqlInv, CqlTypes, BatchInv, CountedWritesStay, CqlAt, Written
<1>3. ASSUME UserIdStep \/ VnodesStep \/ JavaStep PROVE now' = now
  <2>1. ASSUME UserIdStep PROVE now' = now
    BY <2>1 DEF UserIdStep, FakerStep, FakerStarts, FakerDeletes, FakerCreates, FakerTakesBatch,
                FakerPuts, FakerChecks, FakerCounts, FakerDies, CqlAlternatorFaker, CleanupStarts,
                CleanupStep, RangeStep, ScanRange, RangeFails, ReadNewest, DeleteOlder, UserFails,
                RangeDone, CleanupEnds, CleanupKilled, Fault, clockVars
  <2>2. ASSUME VnodesStep PROVE now' = now
    BY <2>2 DEF VnodesStep, CopyStarts, CopyStep, SourceKeyspace, SourceTable, Seed, ReadSource,
                CopyRow, CopyEnds, CopyDies, DemoStarts, DemoStep, DemoDrops, DemoKeyspace,
                DemoCreates, DemoPrepares, DemoInserts, DemoCounts, DemoWritten, DemoQueries,
                Retry, DemoDies, Build, Fault, clockVars
  <2>3. ASSUME JavaStep PROVE now' = now
    BY <2>3 DEF JavaStep, LoaderStep, LoaderStarts, LoaderDrops, DropGoesWrong, LoaderSubmits,
                AllEnded, MainTimesOut, Gather, Unreachable, LoaderEnds, LoaderDies, ThreadStep,
                ThreadStarts, ThreadFails, ThreadThrows, BatchWritten, BatchFails, BatchBegins,
                RowWritten, RowFails, ThreadDone, Mishap, clockVars
  <2> QED BY <1>3, <2>1, <2>2, <2>3
<1>4. now \in Int
  BY DEF CqlInv, CqlTypes, CqlStates
<1> QED BY <1>1, <1>2, <1>3, <1>4 DEF Next, OnUserIds, OnVnodes, OnJavaUsers, Tick, vars, clockVars, cqlVars

\* A user that cql-faker.py counted as inserted is in the table until it is dropped, with
\* that write or a newer one, for all timestamps, skews, batches and orders of runs.
THEOREM CountedWritesRemain == Spec => []CountedWritesStay
<1>1. Init => CqlInv
  BY IdleTypes DEF Init, ClockInit, CqlInit, CqlInv, CqlTypes, BatchInv, CountedWritesStay,
                   CqlAt, CqlIdle
<1>2. CqlInv => CountedWritesStay
  BY DEF CqlInv
<1> QED BY <1>1, <1>2, CqlNext, PTL DEF Spec

-----------------------------------------------------------------------------
(* The counter copy *)

CopyTypes ==
  /\ source \in [Pages -> Nat] /\ dest \in [Pages -> Nat]
  /\ read \in [Pages -> Nat] /\ before \in [Pages -> Nat]
  /\ todo \subseteq Pages

\* Pages that have been seeded have the sample data as long as the table is there, and
\* those that have been copied have been copied once.
CopyProgress ==
  /\ copied => copy = "off"
  /\ copy = "seed" /\ sourceTable => \A p \in Pages \ todo : source[p] >= SampleViews[p]
  /\ copy = "copy" =>
       \A p \in Pages : /\ dest[p] = before[p] + (IF p \in todo THEN 0 ELSE read[p])
                        /\ read[p] >= SampleViews[p]

CopyInv == CopyTypes /\ CopyProgress /\ CopyAddsUp

LEMMA SampleTypes == SampleViews \in [Pages -> Nat]
BY VnodesAssumption

LEMMA CopyStepInv ==
  ASSUME CopyInv, CopyStarts \/ CopyStep
  PROVE  CopyInv'
<1> USE SampleTypes DEF CopyInv
<1>1. CASE CopyStarts
  BY <1>1 DEF CopyStarts, keyspaceVars, CopyTypes, CopyProgress, CopyAddsUp
<1>2. CASE SourceKeyspace \/ SourceTable
  BY <1>2 DEF SourceKeyspace, SourceTable, CopyTypes, CopyProgress, CopyAddsUp
<1>3. CASE Seed
  <2>1. PICK p \in todo : source' = [source EXCEPT ![p] = @ + SampleViews[p]] /\ todo' = todo \ {p}
    BY <1>3 DEF Seed, Seeded
  <2>2. UNCHANGED <<sourceTable, dest, copy, read, before, copied>> /\ copy = "seed"
    BY <1>3 DEF Seed
  <2>3. CopyTypes'
    BY <2>1, <2>2 DEF CopyTypes
  <2>4. \A q \in Pages : source'[q] >= source[q] /\ (q = p => source'[q] >= SampleViews[q])
    BY <2>1 DEF CopyTypes
  <2>5. CopyProgress'
    BY <2>1, <2>2, <2>3, <2>4 DEF CopyTypes, CopyProgress
  <2> QED BY <2>2, <2>3, <2>5 DEF CopyProgress, CopyAddsUp
<1>4. CASE ReadSource
  <2>1. /\ copy = "seed" /\ sourceTable /\ todo = {} /\ copy' = "copy"
        /\ read' = source /\ before' = dest /\ UNCHANGED <<dest, source, copied>>
        /\ todo' = {p \in Pages : source[p] # 0}
    BY <1>4 DEF ReadSource, keyspaceVars
  <2>2. CopyTypes'
    BY <2>1 DEF CopyTypes
  <2>3. CopyProgress'
    <3>1. \A p \in Pages : read'[p] >= SampleViews[p]
      BY <2>1 DEF CopyProgress
    <3>2. \A p \in Pages : dest'[p] = before'[p] + (IF p \in todo' THEN 0 ELSE read'[p])
      BY <2>1 DEF CopyTypes
    <3> QED BY <2>1, <3>1, <3>2 DEF CopyProgress
  <2> QED BY <2>1, <2>2, <2>3 DEF CopyProgress, CopyAddsUp
<1>5. CASE CopyRow
  <2>1. PICK p \in todo : dest' = [dest EXCEPT ![p] = @ + read[p]] /\ todo' = todo \ {p}
    BY <1>5 DEF CopyRow, Added
  <2>2. UNCHANGED <<keyspaceVars, copy, read, before, copied>> /\ copy = "copy"
    BY <1>5 DEF CopyRow
  <2>3. CopyTypes'
    BY <2>1, <2>2 DEF CopyTypes, keyspaceVars
  <2>4. ASSUME NEW q \in Pages
        PROVE  dest'[q] = before[q] + (IF q \in todo' THEN 0 ELSE read[q])
    <3>1. dest[q] = before[q] + (IF q \in todo THEN 0 ELSE read[q])
      BY <2>2 DEF CopyProgress
    <3>2. dest[q] \in Nat /\ read[q] \in Nat /\ before[q] \in Nat
      BY DEF CopyTypes
    <3>3. CASE q = p
      BY <2>1, <3>1, <3>2, <3>3 DEF CopyTypes
    <3>4. CASE q # p
      BY <2>1, <3>1, <3>4 DEF CopyTypes
    <3> QED BY <3>3, <3>4
  <2>5. CopyProgress'
    BY <2>2, <2>4 DEF CopyProgress
  <2> QED BY <2>2, <2>3, <2>5 DEF CopyProgress, CopyAddsUp
<1>6. CASE CopyEnds
  <2>1. /\ copy = "copy" /\ todo = {} /\ copy' = "off"
        /\ UNCHANGED <<keyspaceVars, dest, todo, read, before>>
    BY <1>6 DEF CopyEnds
  <2>2. \A p \in Pages : dest[p] = before[p] + read[p] /\ read[p] >= SampleViews[p]
    BY <2>1 DEF CopyProgress
  <2> QED BY <2>1, <2>2 DEF keyspaceVars, CopyTypes, CopyProgress, CopyAddsUp
<1>7. CASE CopyDies
  <2>1. /\ copy # "off" /\ copy' = "off" /\ todo' = {}
        /\ UNCHANGED <<sourceTable, read, before, copied>>
    BY <1>7 DEF CopyDies
  <2>2. source' \in [Pages -> Nat] /\ dest' \in [Pages -> Nat]
    BY <1>7 DEF CopyDies, Seeded, Added, CopyTypes
  <2> QED BY <2>1, <2>2 DEF CopyTypes, CopyProgress, CopyAddsUp
<1> QED BY <1>1, <1>2, <1>3, <1>4, <1>5, <1>6, <1>7 DEF CopyStep

\* The other demonstration leaves the copy alone, or drops its source.
LEMMA CopyUndisturbed ==
  ASSUME CopyInv, UNCHANGED <<dest, copyVars>>,
         UNCHANGED <<sourceTable, source>> \/ (sourceTable' = FALSE /\ source' = NoViews)
  PROVE  CopyInv'
BY DEF CopyInv, CopyTypes, CopyProgress, CopyAddsUp, copyVars, NoViews

DemoOrBuild ==
  DemoStep \/ (\E counting \in BOOLEAN : DemoStarts(counting))
    \/ (\E o \in {"index", "view"} : Build(o))

LEMMA DemoLeavesCopy ==
  ASSUME DemoOrBuild
  PROVE  /\ UNCHANGED <<dest, copyVars>>
         /\ UNCHANGED <<sourceTable, source>> \/ (sourceTable' = FALSE /\ source' = NoViews)
BY DEF DemoOrBuild, DemoStep, DemoStarts, DemoDrops, KeyspaceDropped, DemoKeyspace, DemoCreates,
       DemoPrepares, DemoInserts, DemoCounts, DemoWritten, DemoQueries, Retry, DemoDies, Build,
       keyspaceVars

LEMMA CopyNext == CopyInv /\ [Next]_vars => CopyInv'
<1> SUFFICES ASSUME CopyInv, [Next]_vars PROVE CopyInv'
  OBVIOUS
<1>1. CASE VnodesStep
  BY <1>1, CopyStepInv, CopyUndisturbed, DemoLeavesCopy DEF VnodesStep, DemoOrBuild
<1>2. CASE UNCHANGED vnodesVars
  BY <1>2, CopyUndisturbed DEF vnodesVars, keyspaceVars
<1> QED BY <1>1, <1>2 DEF Next, OnUserIds, OnCqlUsers, OnVnodes, OnJavaUsers, vars

\* A counter copy that came to its end has added to every counter exactly what it read,
\* and at least the sample data, for all sample data, whatever earlier copies left and
\* whenever the other demonstration drops the source.
THEOREM CopiesAddUp == Spec => []CopyAddsUp
<1>1. Init => CopyInv
  BY SampleTypes DEF Init, VnodesInit, NoViews, CopyInv, CopyTypes, CopyProgress, CopyAddsUp
<1>2. CopyInv => CopyAddsUp
  BY DEF CopyInv
<1> QED BY <1>1, <1>2, CopyNext, PTL DEF Spec

-----------------------------------------------------------------------------
(* The demonstration with an index, a view and counters *)

Zero == [readings |-> 0, errors |-> 0]
Counted == [readings |-> IF withCounters THEN Readings ELSE 0, errors |-> 0]
Final(d) == [readings |-> Readings, errors |-> IF d = FirstDevice THEN 1 ELSE 0]

DemoTypes ==
  /\ rows \in [Devices -> Int]
  /\ counts \in [Devices -> [readings : Int, errors : Int]]
  /\ devices \subseteq Devices
  /\ built \subseteq {"index", "view"}
  /\ demo \in {"off", "drop", "keyspace", "create", "write", "index", "view"}

\* The tables are empty until the first write; a device that is through has all its
\* readings and, with -c, its counter agrees with them.
DemoProgress ==
  /\ complete => demo = "off"
  /\ demo \in {"keyspace", "create"} => \A d \in Devices : rows[d] = 0 /\ counts[d] = Zero
  /\ demo = "write" =>
       /\ \A d \in devices : counts[d] = Zero
       /\ \A d \in Devices \ devices : rows[d] = Readings /\ counts[d] = Counted
  /\ demo \in {"index", "view"} =>
       \A d \in Devices : rows[d] = Readings /\ (withCounters => counts[d] = Final(d))
  /\ demo = "view" => "index" \in built

DemoInv == DemoTypes /\ DemoProgress /\ DemoComplete

LEMMA DemoBeginInv ==
  ASSUME DemoInv,
         \/ \E counting \in BOOLEAN : DemoStarts(counting)
         \/ DemoDrops \/ DemoKeyspace \/ DemoCreates \/ DemoPrepares
  PROVE  DemoInv'
<1> USE DEF DemoInv
<1>1. ASSUME NEW counting \in BOOLEAN, DemoStarts(counting) PROVE DemoInv'
  BY <1>1 DEF DemoStarts, DemoTypes, DemoProgress, DemoComplete
<1>2. CASE DemoDrops
  <2>1. /\ rows' = [d \in Devices |-> 0] /\ counts' = [d \in Devices |-> Zero]
        /\ built' = {} /\ demo' = "keyspace" /\ demo = "drop" /\ UNCHANGED <<devices, complete>>
    BY <1>2 DEF DemoDrops, KeyspaceDropped, Zero
  <2>2. Zero \in [readings : Int, errors : Int]
    BY DEF Zero
  <2>3. DemoTypes'
    BY <2>1, <2>2 DEF DemoTypes
  <2>4. \A d \in Devices : rows'[d] = 0 /\ counts'[d] = Zero
    BY <2>1
  <2> QED BY <2>1, <2>3, <2>4 DEF DemoProgress, DemoComplete, Zero
<1>3. CASE DemoKeyspace \/ DemoCreates
  <2>1. /\ UNCHANGED <<rows, counts, complete, devices, built>> /\ demo' = "create"
        /\ demo \in {"keyspace", "create"}
    BY <1>3 DEF DemoKeyspace, DemoCreates, demoTables, demoVars
  <2> QED BY <2>1 DEF DemoTypes, DemoProgress, DemoComplete
<1>4. CASE DemoPrepares
  BY <1>4 DEF DemoPrepares, demoTables, DemoTypes, DemoProgress, DemoComplete, Counted
<1> QED BY <1>1, <1>2, <1>3, <1>4

LEMMA DemoWriteInv ==
  ASSUME DemoInv,
         (\E d \in Devices : DemoInserts(d) \/ DemoCounts(d)) \/ DemoWritten
  PROVE  DemoInv'
<1> USE VnodesAssumption DEF DemoInv
<1>1. demo = "write" /\ ~complete /\ ~complete' /\ UNCHANGED <<withCounters, built>>
  BY DEF DemoInserts, DemoCounts, DemoWritten, DemoProgress, demoVars
<1>2. ASSUME NEW d \in Devices, DemoInserts(d) PROVE DemoInv'
  <2>1. d \in devices /\ rows' = [rows EXCEPT ![d] = @ + 1]
        /\ UNCHANGED <<counts, devices, demo, withCounters>>
    BY <1>2 DEF DemoInserts, InTurn, demoVars
  <2>2. DemoTypes'
    BY <1>1, <2>1 DEF DemoTypes
  <2> QED BY <1>1, <2>1, <2>2 DEF DemoTypes, DemoProgress, DemoComplete, Counted
<1>3. ASSUME NEW d \in Devices, DemoCounts(d) PROVE DemoInv'
  <2>1. /\ d \in devices /\ rows[d] = Readings /\ counts' = Bumped(d)
        /\ devices' = devices \ {d} /\ UNCHANGED <<rows, demo>>
    BY <1>3 DEF DemoCounts, InTurn
  <2>2. counts[d] = Zero
    BY <1>1, <2>1 DEF DemoProgress
  <2>3. /\ counts' \in [Devices -> [readings : Int, errors : Int]]
        /\ counts'[d] = Counted
        /\ \A e \in Devices \ {d} : counts'[e] = counts[e]
    <3>1. CASE withCounters
      <4> DEFINE sum == counts[d].readings + Readings
      <4>1. counts' = [counts EXCEPT ![d].readings = sum]
        BY <2>1, <3>1 DEF Bumped
      <4>2. sum = Readings /\ sum \in Int
        BY <2>2 DEF Zero
      <4> HIDE DEF sum
      <4>3. /\ counts' \in [Devices -> [readings : Int, errors : Int]]
            /\ counts'[d] = [readings |-> sum, errors |-> counts[d].errors]
            /\ \A e \in Devices \ {d} : counts'[e] = counts[e]
        BY <4>1, <4>2 DEF DemoTypes
      <4> QED BY <2>2, <3>1, <4>2, <4>3 DEF Zero, Counted
    <3>2. CASE ~withCounters
      BY <2>1, <2>2, <3>2 DEF Bumped, Counted, Zero, DemoTypes
    <3> QED BY <3>1, <3>2
  <2>4. Counted' = Counted
    BY <1>1 DEF Counted
  <2> QED BY <1>1, <2>1, <2>3, <2>4 DEF DemoTypes, DemoProgress, DemoComplete
<1>4. CASE DemoWritten
  <2>1. devices = {} /\ demo' = "index" /\ UNCHANGED <<rows, devices>>
    BY <1>4 DEF DemoWritten
  <2>2. \A d \in Devices : rows[d] = Readings /\ counts[d] = Counted
    BY <1>1, <2>1 DEF DemoProgress
  <2>3. counts' \in [Devices -> [readings : Int, errors : Int]]
        /\ (withCounters => \A d \in Devices : counts'[d] = Final(d))
    <3>1. CASE ~withCounters
      BY <1>4, <3>1 DEF DemoWritten, DemoTypes
    <3>2. CASE withCounters
      <4> DEFINE sum == counts[FirstDevice].errors + 1
      <4>1. counts' = [counts EXCEPT ![FirstDevice].errors = sum]
        BY <1>4, <3>2 DEF DemoWritten
      <4>2. \A d \in Devices : counts[d] = [readings |-> Readings, errors |-> 0]
        BY <2>2, <3>2 DEF Counted
      <4>3. sum = 1 /\ sum \in Int
        BY <4>2
      <4> HIDE DEF sum
      <4>4. /\ counts' \in [Devices -> [readings : Int, errors : Int]]
            /\ counts'[FirstDevice] = [readings |-> counts[FirstDevice].readings, errors |-> sum]
            /\ \A d \in Devices \ {FirstDevice} : counts'[d] = counts[d]
        BY <4>1, <4>3 DEF DemoTypes
      <4> QED BY <4>2, <4>3, <4>4 DEF Final
    <3> QED BY <3>1, <3>2
  <2> QED BY <1>1, <2>1, <2>2, <2>3 DEF DemoTypes, DemoProgress, DemoComplete, Final
<1> QED BY <1>2, <1>3, <1>4

LEMMA DemoEndInv ==
  ASSUME DemoInv,
         \/ DemoQueries \/ Retry \/ DemoDies
         \/ \E o \in {"index", "view"} : Build(o)
  PROVE  DemoInv'
<1> USE DEF DemoInv
<1>1. CASE DemoQueries
  <2>1. /\ UNCHANGED <<built, rows, counts, withCounters, devices>> /\ demo \in built
        /\ demo = "index" => demo' = "view" /\ complete' = complete
        /\ demo # "index" => demo' = "off" /\ complete' = TRUE
    BY <1>1 DEF DemoQueries
  <2>2. CASE demo = "index"
    BY <2>1, <2>2 DEF DemoTypes, DemoProgress, DemoComplete, Final
  <2>3. CASE demo = "view"
    <3>1. \A d \in Devices : rows[d] = Readings /\ (withCounters => counts[d] = Final(d))
      BY <2>3 DEF DemoProgress
    <3>2. {"index", "view"} \subseteq built
      BY <2>1, <2>3 DEF DemoProgress
    <3>3. DemoComplete'
      BY <2>1, <3>1, <3>2 DEF DemoComplete, Final
    <3> QED BY <2>1, <2>3, <3>3 DEF DemoTypes, DemoProgress
  <2>4. demo \in {"index", "view"}
    BY <1>1 DEF DemoQueries, DemoTypes
  <2> QED BY <2>2, <2>3, <2>4
<1>2. CASE Retry
  BY <1>2 DEF Retry, demoTables, DemoTypes, DemoProgress, DemoComplete, Final, Counted
<1>3. CASE DemoDies
  <2>1. demo # "off" /\ demo' = "off" /\ UNCHANGED <<rows, complete, devices, built>>
    BY <1>3 DEF DemoDies
  <2>2. counts' \in [Devices -> [readings : Int, errors : Int]]
    BY <1>3, VnodesAssumption DEF DemoDies, Bumped, DemoTypes
  <2> QED BY <2>1, <2>2 DEF DemoTypes, DemoProgress, DemoComplete
<1>4. ASSUME NEW o \in {"index", "view"}, Build(o) PROVE DemoInv'
  BY <1>4 DEF Build, demoVars, DemoTypes, DemoProgress, DemoComplete, Final, Counted
<1> QED BY <1>1, <1>2, <1>3, <1>4

LEMMA DemoNext == DemoInv /\ [Next]_vars => DemoInv'
<1> SUFFICES ASSUME DemoInv, [Next]_vars PROVE DemoInv'
  OBVIOUS
<1>1. CASE DemoOrBuild
  BY <1>1, DemoBeginInv, DemoWriteInv, DemoEndInv DEF DemoOrBuild, DemoStep
<1>2. CASE UNCHANGED <<demoTables, demoVars>>
  BY <1>2 DEF demoTables, demoVars, DemoInv, DemoTypes, DemoProgress, DemoComplete, Counted, Final
<1>3. ASSUME CopyStarts \/ CopyStep PROVE UNCHANGED <<demoTables, demoVars>>
  BY <1>3 DEF CopyStarts, CopyStep, SourceKeyspace, SourceTable, Seed, ReadSource, CopyRow,
              CopyEnds, CopyDies
<1> QED BY <1>1, <1>2, <1>3
        DEF Next, OnUserIds, OnCqlUsers, OnVnodes, OnJavaUsers, VnodesStep, DemoOrBuild, vars, vnodesVars

\* When create_vnodes_ks_index_mv_counters.py has come to its end, everything it
\* demonstrates is there and its counters agree with the readings, for all devices and
\* numbers of readings and attempts, whatever a run that broke off had left.
THEOREM DemosAreComplete == Spec => []DemoComplete
<1>1. Init => DemoInv
  BY DEF Init, VnodesInit, DemoInv, DemoTypes, DemoProgress, DemoComplete
<1>2. DemoInv => DemoComplete
  BY DEF DemoInv
<1> QED BY <1>1, <1>2, DemoNext, PTL DEF Spec
=============================================================================

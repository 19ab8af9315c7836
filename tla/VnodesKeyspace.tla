---------------------------- MODULE VnodesKeyspace ----------------------------
(***************************************************************************)
(* The keyspace vnodes_ks and the two demonstrations that share it:        *)
(* src/sample_app/copy_counter_table_vnodes_to_tablets.py, which fills a   *)
(* counter table there and copies it into the keyspace tablets_ks, and     *)
(* create_vnodes_ks_index_mv_counters.py, which drops the keyspace and     *)
(* makes it anew with a table, an index, a view and, with -c, a counter    *)
(* table.  Neither knows of the other.  A counter is only ever added to: a *)
(* request that failed may have been carried out all the same.             *)
(***************************************************************************)
EXTENDS DemoClock, Sequences

CONSTANTS
  Pages,          \* page_id of the sample data
  SampleViews,    \* what the sample data adds to each
  Devices,        \* of the sample readings
  FirstDevice,    \* SAMPLE_DATA[0]
  Readings,       \* READINGS_PER_DEVICE
  Attempts,       \* of retry, 12 in the code
  MaxCopies,      \* bound: runs of the copy
  MaxDemos        \* bound: runs of the other demonstration

ASSUME VnodesAssumption ==
  /\ SampleViews \in [Pages -> Nat \ {0}]
  /\ FirstDevice \in Devices
  /\ Readings \in Nat \ {0} /\ Attempts \in Nat \ {0}
  /\ MaxCopies \in Nat /\ MaxDemos \in Nat

VARIABLES
  vnodes,         \* the keyspace vnodes_ks exists
  sourceTable,    \* its counter table page_views exists
  source,         \* the counters in it; 0 stands for no row
  dest,           \* those of tablets_ks.page_views
  copy,           \* what the copy does next
  todo,           \* pages it has still to seed or to copy
  read,           \* what it read from the source
  before,         \* history: what was in the destination then
  copied,         \* its last run came to its end
  copies,         \* runs of it
  demo,           \* what the other demonstration does next
  withCounters,   \* its -c
  objects,        \* what it has created in the keyspace
  built,          \* the index and the view, once they answer
  rows,           \* the readings of each device
  counts,         \* the counters of each device
  devices,        \* those it has still to write
  tries,          \* failed attempts of its query
  complete,       \* its last run came to its end
  demos           \* runs of it

copyVars == <<copy, todo, read, before, copied, copies>>
keyspaceVars == <<vnodes, sourceTable, source>>
demoTables == <<objects, built, rows, counts, complete>>
demoVars == <<demo, withCounters, devices, tries, demos>>
vnodesVars == <<keyspaceVars, dest, copyVars, demoTables, demoVars>>

NoViews == [p \in Pages |-> 0]

-----------------------------------------------------------------------------
(* copy_counter_table_vnodes_to_tablets.py *)

CopyStarts ==
  /\ copy = "off"
  /\ copies < MaxCopies
  /\ copies' = copies + 1
  /\ copy' = "keyspace"
  /\ copied' = FALSE
  /\ UNCHANGED <<clockVars, keyspaceVars, dest, todo, read, before, demoTables, demoVars>>

SourceKeyspace ==
  /\ copy = "keyspace"
  /\ vnodes' = TRUE
  /\ copy' = "table"
  /\ UNCHANGED <<clockVars, sourceTable, source, dest, todo, read, before, copied, copies,
                 demoTables, demoVars>>

SourceTable ==
  /\ copy = "table"
  /\ vnodes
  /\ sourceTable' = TRUE
  /\ copy' = "seed"
  /\ todo' = Pages
  /\ UNCHANGED <<clockVars, vnodes, source, dest, read, before, copied, copies, demoTables,
                 demoVars>>

Seeded(p) == [source EXCEPT ![p] = @ + SampleViews[p]]

Seed ==
  /\ copy = "seed"
  /\ sourceTable
  /\ \E p \in todo : source' = Seeded(p) /\ todo' = todo \ {p}
  /\ UNCHANGED <<clockVars, vnodes, sourceTable, dest, copy, read, before, copied, copies,
                 demoTables, demoVars>>

\* The destination is created unless it is there, and the source read.
ReadSource ==
  /\ copy = "seed"
  /\ todo = {}
  /\ sourceTable
  /\ copy' = "copy"
  /\ read' = source
  /\ before' = dest
  /\ todo' = {p \in Pages : source[p] # 0}
  /\ UNCHANGED <<clockVars, keyspaceVars, dest, copied, copies, demoTables, demoVars>>

\* Mutant: the sample data is copied rather than the row.
AddedSample(p) == [dest EXCEPT ![p] = @ + SampleViews[p]]
Added(p) == [dest EXCEPT ![p] = @ + read[p]]

CopyRow ==
  /\ copy = "copy"
  /\ \E p \in todo : dest' = Added(p) /\ todo' = todo \ {p}
  /\ UNCHANGED <<clockVars, keyspaceVars, copy, read, before, copied, copies, demoTables,
                 demoVars>>

CopyEnds ==
  /\ copy = "copy"
  /\ todo = {}
  /\ copy' = "off"
  /\ copied' = TRUE
  /\ UNCHANGED <<clockVars, keyspaceVars, dest, todo, read, before, copies, demoTables,
                 demoVars>>

\* A request raises, as it does when the other demonstration has dropped the keyspace.
\* An update that raises, by its timeout say, may have been carried out.
CopyDies ==
  /\ copy # "off"
  /\ \/ copy = "table" /\ ~vnodes /\ UNCHANGED <<clockVars, source, dest>>
     \/ copy = "seed" /\ ~sourceTable /\ UNCHANGED <<clockVars, source, dest>>
     \/ Fault /\ UNCHANGED <<source, dest>>
     \/ Fault /\ copy = "seed" /\ sourceTable /\ (\E p \in todo : source' = Seeded(p)) /\ UNCHANGED dest
     \/ Fault /\ copy = "copy" /\ (\E p \in todo : dest' = Added(p)) /\ UNCHANGED source
  /\ copy' = "off"
  /\ todo' = {}
  /\ UNCHANGED <<vnodes, sourceTable, read, before, copied, copies, demoTables, demoVars>>

-----------------------------------------------------------------------------
(* create_vnodes_ks_index_mv_counters.py *)

DemoStarts(counting) ==
  /\ demo = "off"
  /\ demos < MaxDemos
  /\ demos' = demos + 1
  /\ demo' = "drop"
  /\ withCounters' = counting
  /\ complete' = FALSE
  /\ tries' = 0
  /\ UNCHANGED <<clockVars, keyspaceVars, dest, copyVars, objects, built, rows, counts, devices>>

\* Mutant: without the DROP KEYSPACE; the CREATEs leave alone what is there.
NothingDropped == UNCHANGED <<keyspaceVars, objects, built, rows, counts>>
KeyspaceDropped ==
  /\ vnodes' = FALSE
  /\ sourceTable' = FALSE
  /\ source' = NoViews
  /\ objects' = {}
  /\ built' = {}
  /\ rows' = [d \in Devices |-> 0]
  /\ counts' = [d \in Devices |-> [readings |-> 0, errors |-> 0]]

DemoDrops ==
  /\ demo = "drop"
  /\ KeyspaceDropped
  /\ demo' = "keyspace"
  /\ UNCHANGED <<clockVars, dest, copyVars, complete, withCounters, devices, tries, demos>>

DemoKeyspace ==
  /\ demo = "keyspace"
  /\ vnodes' = TRUE
  /\ demo' = "create"
  /\ UNCHANGED <<clockVars, sourceTable, source, dest, copyVars, demoTables, withCounters,
                 devices, tries, demos>>

\* One statement each, in the code's order.
ToCreate == <<"table", "index", "view">> \o (IF withCounters THEN <<"counters">> ELSE <<>>)

DemoCreates ==
  /\ demo = "create"
  /\ \E i \in DOMAIN ToCreate :
       /\ ToCreate[i] \notin objects
       /\ \A j \in 1 .. i - 1 : ToCreate[j] \in objects
       /\ objects' = objects \cup {ToCreate[i]}
  /\ UNCHANGED <<clockVars, keyspaceVars, dest, copyVars, built, rows, counts, complete, demoVars>>

DemoPrepares ==
  /\ demo = "create"
  /\ \A i \in DOMAIN ToCreate : ToCreate[i] \in objects
  /\ demo' = "write"
  /\ devices' = Devices
  /\ UNCHANGED <<clockVars, keyspaceVars, dest, copyVars, demoTables, withCounters, tries, demos>>

\* The readings of one device after another, the first of SAMPLE_DATA first.
InTurn(d) ==
  /\ d \in devices
  /\ d = FirstDevice \/ FirstDevice \notin devices
  /\ \A e \in devices : rows[e] = 0 \/ e = d

DemoInserts(d) ==
  /\ demo = "write"
  /\ InTurn(d)
  /\ rows[d] < Readings
  /\ rows' = [rows EXCEPT ![d] = @ + 1]
  /\ UNCHANGED <<clockVars, keyspaceVars, dest, copyVars, objects, built, counts, complete,
                 demoVars>>

Bumped(d) == IF withCounters THEN [counts EXCEPT ![d].readings = @ + Readings] ELSE counts

\* With -c its readings are added to the device's counter.
DemoCounts(d) ==
  /\ demo = "write"
  /\ InTurn(d)
  /\ rows[d] = Readings
  /\ counts' = Bumped(d)
  /\ devices' = devices \ {d}
  /\ UNCHANGED <<clockVars, keyspaceVars, dest, copyVars, objects, built, rows, complete, demo,
                 withCounters, tries, demos>>

\* With -c one error is added to the first device's.
DemoWritten ==
  /\ demo = "write"
  /\ devices = {}
  /\ counts' = IF withCounters THEN [counts EXCEPT ![FirstDevice].errors = @ + 1] ELSE counts
  /\ demo' = "index"
  /\ UNCHANGED <<clockVars, keyspaceVars, dest, copyVars, objects, built, rows, complete,
                 withCounters, devices, tries, demos>>

\* ScyllaDB builds the index and the view on its own time.
Build(o) ==
  /\ o \in {"index", "view"} \cap (objects \ built)
  /\ built' = built \cup {o}
  /\ UNCHANGED <<clockVars, keyspaceVars, dest, copyVars, objects, rows, counts, complete,
                 demoVars>>

DemoQueries ==
  /\ demo \in built
  /\ tries' = 0
  /\ IF demo = "index" THEN demo' = "view" /\ UNCHANGED complete
                       ELSE demo' = "off" /\ complete' = TRUE
  /\ UNCHANGED <<clockVars, keyspaceVars, dest, copyVars, objects, built, rows, counts,
                 withCounters, devices, demos>>

\* Mutant: the attempts are counted from one again at every call.
RetryForever ==
  /\ demo \in {"index", "view"} \ built
  /\ UNCHANGED <<clockVars, keyspaceVars, dest, copyVars, demoTables, demoVars>>
\* retry: up to twelve attempts, and the last one raises.
Retry ==
  /\ demo \in {"index", "view"} \ built
  /\ tries' = tries + 1
  /\ demo' = IF tries' = Attempts THEN "off" ELSE demo
  /\ UNCHANGED <<clockVars, keyspaceVars, dest, copyVars, demoTables, withCounters, devices,
                 demos>>

\* A request raises or the tool is killed; an update may have been carried out.
DemoDies ==
  /\ demo # "off"
  /\ Fault
  /\ \/ UNCHANGED counts
     \/ demo = "write" /\ \E d \in devices : InTurn(d) /\ rows[d] = Readings /\ counts' = Bumped(d)
  /\ demo' = "off"
  /\ UNCHANGED <<keyspaceVars, dest, copyVars, objects, built, rows, complete, withCounters,
                 devices, tries, demos>>

-----------------------------------------------------------------------------
VnodesInit ==
  /\ vnodes = FALSE /\ sourceTable = FALSE
  /\ source = NoViews /\ dest = NoViews
  /\ copy = "off" /\ todo = {} /\ read = NoViews /\ before = NoViews
  /\ copied = FALSE /\ copies = 0
  /\ demo = "off" /\ withCounters = FALSE /\ objects = {} /\ built = {}
  /\ rows = [d \in Devices |-> 0]
  /\ counts = [d \in Devices |-> [readings |-> 0, errors |-> 0]]
  /\ devices = {} /\ tries = 0 /\ complete = FALSE /\ demos = 0

CopyStep == SourceKeyspace \/ SourceTable \/ Seed \/ ReadSource \/ CopyRow \/ CopyEnds \/ CopyDies

DemoStep ==
  \/ DemoDrops \/ DemoKeyspace \/ DemoCreates \/ DemoPrepares
  \/ \E d \in Devices : DemoInserts(d) \/ DemoCounts(d)
  \/ DemoWritten \/ DemoQueries \/ Retry \/ DemoDies

VnodesStep ==
  \/ CopyStarts \/ CopyStep
  \/ \E counting \in BOOLEAN : DemoStarts(counting)
  \/ DemoStep
  \/ \E o \in {"index", "view"} : Build(o)

-----------------------------------------------------------------------------
\* A copy that came to its end has added to every counter of the destination exactly
\* what it read, and read at least the sample data: into an empty destination it is a
\* copy, into any other it is not ("the copy is only correct into an empty destination").
\* However often earlier copies broke off, and whenever the other demonstration drops
\* the keyspace the copy reads from.
CopyAddsUp ==
  copied => \A p \in Pages : dest[p] = before[p] + read[p] /\ read[p] >= SampleViews[p]

\* When the demonstration has come to its end the keyspace has all readings of every
\* device, an index and a view that answer and, with -c, counters that agree with the
\* readings, whatever a run that broke off before had left.
DemoComplete ==
  complete =>
    /\ {"index", "view"} \subseteq built
    /\ \A d \in Devices : rows[d] = Readings
    /\ withCounters => \A d \in Devices :
         counts[d] = [readings |-> Readings, errors |-> IF d = FirstDevice THEN 1 ELSE 0]

\* The demonstration comes to an end even if index and view are never built.
DemoEnds == demo # "off" ~> demo = "off"
=============================================================================

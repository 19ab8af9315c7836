------------------------------ MODULE BulkLoad ------------------------------
(***************************************************************************)
(* src/sample_app/loader.py: rows with the ids offset+1 .. offset+row_count*)
(* are written to one table by a pool of worker processes, each with its   *)
(* own share of the range.  The parent waits for all of them and adds up   *)
(* what they return.  The table of the sample keyspace belongs to other    *)
(* tools as well (SampleTools), which may drop it at any time.             *)
(*                                                                         *)
(* A row is its key, <<bucket, id>>; the generated values are left out.    *)
(* execute_concurrent_with_args stops at the first error, as its default   *)
(* is.  A row that still arrives after the error arrives before it here,   *)
(* which makes no difference: writing a row twice is writing it once.      *)
(*                                                                         *)
(* A definition marked Mutant is a plausible bug in the definition it      *)
(* precedes; no specification uses it.                                     *)
(***************************************************************************)
EXTENDS ScyllaConnection, FiniteSets

CONSTANTS
  LoadOptions,    \* the command lines the loader is run with
  CpuCount,       \* cpu_count(), for --workers 0
  MaxWorkers,     \* bound: the most processes any of the command lines starts
  MaxLoads,       \* bound: runs of the loader
  MaxFaults,      \* bound: failures, kills and runs of other tools
  NoLoad          \* no run of the loader has ended well yet

\* parse_args.  Keyspace, table, --rf, --cl and --tablets are left out.
LoadArgs == [row_count : Nat, batch_size : Nat, workers : 0 .. MaxWorkers, offset : Int,
             buckets : Nat, drop : BOOLEAN, conn : ConnectionArgs]

ASSUME LoadOptionsAssumption == LoadOptions # {} /\ LoadOptions \subseteq LoadArgs
ASSUME CpuAssumption == CpuCount \in 1 .. MaxWorkers
ASSUME BoundsAssumption == MaxWorkers \in Nat /\ MaxLoads \in Nat /\ MaxFaults \in Nat
ASSUME NoLoadAssumption == NoLoad \notin [gen : Nat, opts : LoadOptions]

VARIABLES
  keyspace,       \* the keyspace exists
  columns,        \* of the table: "none", "bulk", or "abc" as tombstone.py makes it
  rows,           \* the keys in the table
  gen,            \* history: how many tables of this name have been dropped
  asked,          \* history: the keys the loads into this table were to write
  pc,             \* the next thing the loader does
  opts,           \* its command line
  task,           \* of each worker
  chunk,          \* the ids from .. to of the batch the worker is at
  left,           \* those of them not acknowledged yet
  total,          \* rows the worker counted
  outcome,        \* how the last run ended
  collected,      \* jobs whose result it has taken
  reported,       \* the sum of their totals
  loadGen,        \* history: gen when the run found or created its table
  complete,       \* history: the last run that ended well
  dialled,        \* history: the sessions of this run
  loads,          \* runs so far
  faults          \* so far

tableVars == <<keyspace, columns, rows, gen, asked>>
workerVars == <<task, chunk, left, total>>
loadVars == <<pc, opts, workerVars, outcome, collected, reported, loadGen, complete, dialled,
              loads>>

Workers == 0 .. MaxWorkers - 1
Lesser(a, b) == IF a <= b THEN a ELSE b

-----------------------------------------------------------------------------
(* The ids and who writes them *)

Key(id, buckets) == <<id % buckets, id>>

\* What a run is to write, in terms of its command line alone.
Expected(o) == {Key(id, o.buckets) : id \in o.offset + 1 .. o.offset + o.row_count}

Procs(o) == IF o.workers > 0 THEN o.workers ELSE CpuCount
Span(o) == (o.row_count + Procs(o) - 1) \div Procs(o)
First(o, w) == w * Span(o) + 1
\* Mutant: the last share is not cut at the row count.
LastUncut(o, w) == (w + 1) * Span(o)
Last(o, w) == Lesser((w + 1) * Span(o), o.row_count)
Share(o, w) == First(o, w) .. Last(o, w)
Jobs(o) == {w \in 0 .. Procs(o) - 1 : First(o, w) <= Last(o, w)}

\* Mutant: the end of the batch is taken to be exclusive, and a batch of one is empty.
NextChunkShort(o, w, i) == [from |-> i + 1, to |-> Lesser(i + o.batch_size - 1, Last(o, w))]
\* chunked_ids: the batch after one that ended at i.
NextChunk(o, w, i) == [from |-> i + 1, to |-> Lesser(i + o.batch_size, Last(o, w))]

\* generate_row, called with i + offset.
RowOf(o, i) == Key(i + o.offset, o.buckets)

-----------------------------------------------------------------------------
(* The table, for every tool *)

Fault == faults < MaxFaults /\ faults' = faults + 1

CreateKeyspace == keyspace' = TRUE /\ UNCHANGED <<columns, rows, gen, asked>>

DropTable ==
  /\ columns' = "none"
  /\ rows' = {}
  /\ gen' = IF columns = "none" THEN gen ELSE gen + 1
  /\ asked' = {}
  /\ UNCHANGED keyspace

-----------------------------------------------------------------------------
(* The parent process *)

Nothing == [from |-> 1, to |-> 0]

\* resolve_connection may exit, and --buckets is checked before anything is touched.
Launch(o) ==
  /\ pc = "idle"
  /\ loads < MaxLoads
  /\ loads' = loads + 1
  /\ opts' = o
  /\ IF Resolve(o.conn) = {} \/ o.buckets < 1
     THEN pc' = "idle" /\ outcome' = "failed"
     ELSE pc' = (IF o.drop THEN "drop" ELSE "keyspace") /\ outcome' = "none"
  /\ UNCHANGED <<tableVars, workerVars, collected, reported, loadGen, complete, dialled, faults>>

\* The processes and their sessions are gone.
NoWorkers ==
  /\ task' = [w \in Workers |-> "none"]
  /\ chunk' = [w \in Workers |-> Nothing]
  /\ left' = [w \in Workers |-> {}]
  /\ total' = [w \in Workers |-> 0]

EndLoad(result) ==
  /\ pc' = "idle"
  /\ outcome' = result
  /\ NoWorkers
  /\ collected' = 0
  /\ dialled' = {}
  /\ UNCHANGED <<opts, loads>>

DropFirst ==
  /\ pc = "drop"
  /\ \E s \in Sessions(opts.conn) : dialled' = dialled \cup {s}
  /\ DropTable
  /\ pc' = "keyspace"
  /\ UNCHANGED <<opts, workerVars, outcome, collected, reported, loadGen, complete, loads, faults>>

\* create_schema, first statement, over the control session.
EnsureKeyspace ==
  /\ pc = "keyspace"
  /\ \E s \in Sessions(opts.conn) : dialled' = dialled \cup {s}
  /\ CreateKeyspace
  /\ pc' = "table"
  /\ UNCHANGED <<opts, workerVars, outcome, collected, reported, loadGen, complete, loads, faults>>

\* Mutant: the jobs start over where the range does not.
StartAtZero(o, w) == [from |-> w * Span(o), to |-> w * Span(o) - 1]
NothingDone(o, w) == [from |-> First(o, w), to |-> First(o, w) - 1]

\* create_schema, second statement, and apply_async for every share that is not empty.
EnsureTableAndSubmit ==
  /\ pc = "table"
  /\ keyspace
  /\ columns' = IF columns = "none" THEN "bulk" ELSE columns
  /\ asked' = IF columns' = "bulk" THEN asked \cup Expected(opts) ELSE asked
  /\ loadGen' = gen
  /\ pc' = "join"
  /\ task' = [w \in Workers |-> IF w \in Jobs(opts) THEN "waiting" ELSE "none"]
  /\ chunk' = [w \in Workers |-> NothingDone(opts, w)]
  /\ left' = [w \in Workers |-> {}]
  /\ total' = [w \in Workers |-> 0]
  /\ UNCHANGED <<keyspace, rows, gen, opts, outcome, collected, reported, complete, dialled,
                 loads, faults>>

\* An exception before the pool: caught in main, which exits with 1.
SchemaFails ==
  /\ pc \in {"drop", "keyspace", "table"}
  /\ IF Sessions(opts.conn) = {} \/ (pc = "table" /\ ~keyspace) THEN UNCHANGED faults ELSE Fault
  /\ EndLoad("failed")
  /\ UNCHANGED <<tableVars, reported, loadGen, complete>>

Submitted == {w \in Workers : task[w] # "none"}

\* pool.join() returns when every job has a result: never, if a process was killed.
Joined == \A w \in Submitted : task[w] \in {"done", "failed"}

StartCollecting ==
  /\ pc = "join"
  /\ Joined
  /\ pc' = "collect"
  /\ collected' = 0
  /\ reported' = 0
  /\ UNCHANGED <<tableVars, opts, workerVars, outcome, loadGen, complete, dialled, loads, faults>>

\* Mutant: a job that failed is skipped.
CollectWhatCame(w) ==
  /\ pc = "collect"
  /\ collected = w
  /\ collected' = w + 1
  /\ reported' = reported + total[w]
  /\ UNCHANGED <<tableVars, pc, opts, workerVars, outcome, loadGen, complete, dialled, loads,
                 faults>>

\* j.get() for one job after the other.
Collect(w) ==
  /\ pc = "collect"
  /\ collected = w
  /\ task[w] # "failed"
  /\ collected' = w + 1
  /\ reported' = IF w \in Submitted THEN reported + total[w] ELSE reported
  /\ UNCHANGED <<tableVars, pc, opts, workerVars, outcome, loadGen, complete, dialled, loads,
                 faults>>

ReportTotals ==
  /\ pc = "collect"
  /\ collected = MaxWorkers
  /\ EndLoad("loaded")
  /\ complete' = [gen |-> loadGen, opts |-> opts]
  /\ UNCHANGED <<tableVars, reported, loadGen, faults>>

\* It raises what a failed worker raised: exit 1, no totals.
RaiseFailure ==
  /\ pc = "collect"
  /\ \E w \in Submitted : collected = w /\ task[w] = "failed"
  /\ EndLoad("failed")
  /\ UNCHANGED <<tableVars, reported, loadGen, complete, faults>>

\* Ctrl-C: leaving the with block terminates the pool.
Interrupt ==
  /\ pc # "idle"
  /\ Fault
  /\ EndLoad("interrupted")
  /\ UNCHANGED <<tableVars, reported, loadGen, complete>>

-----------------------------------------------------------------------------
(* A worker process *)

WorkerRuns(w, state) == pc = "join" /\ task[w] = state

\* The worker connects with the flags of its parent and prepares its statement.
WorkerStarts(w) ==
  /\ WorkerRuns(w, "waiting")
  /\ columns = "bulk"
  /\ \E s \in Sessions(opts.conn) : dialled' = dialled \cup {s}
  /\ task' = [task EXCEPT ![w] = "running"]
  /\ UNCHANGED <<tableVars, pc, opts, chunk, left, total, outcome, collected, reported, loadGen,
                 complete, loads, faults>>

WriteRow(w) ==
  /\ WorkerRuns(w, "running")
  /\ columns = "bulk"
  /\ \E i \in left[w] :
       /\ rows' = rows \cup {RowOf(opts, i)}
       /\ left' = [left EXCEPT ![w] = @ \ {i}]
  /\ UNCHANGED <<keyspace, columns, gen, asked, pc, opts, task, chunk, total, outcome,
                 collected, reported, loadGen, complete, dialled, loads, faults>>

\* The batch is counted and the next one taken; after the last one the worker returns.
\* With --batch_size 0 the next batch is empty, and so is every other.
NextBatch(w) ==
  /\ WorkerRuns(w, "running")
  /\ left[w] = {}
  /\ total' = [total EXCEPT ![w] = @ + (chunk[w].to - chunk[w].from + 1)]
  /\ IF chunk[w].to < Last(opts, w)
     THEN /\ chunk' = [chunk EXCEPT ![w] = NextChunk(opts, w, chunk[w].to)]
          /\ left' = [left EXCEPT ![w] = chunk'[w].from .. chunk'[w].to]
          /\ UNCHANGED task
     ELSE /\ task' = [task EXCEPT ![w] = "done"]
          /\ UNCHANGED <<chunk, left>>
  /\ UNCHANGED <<tableVars, pc, opts, outcome, collected, reported, loadGen, complete, dialled,
                 loads, faults>>

\* The worker raises: it cannot connect or prepare, or a row fails.
WorkerFails(w) ==
  /\ \/ WorkerRuns(w, "waiting")
     \/ WorkerRuns(w, "running") /\ left[w] # {}
  /\ IF columns # "bulk" THEN UNCHANGED faults ELSE Fault
  /\ task' = [task EXCEPT ![w] = "failed"]
  /\ UNCHANGED <<tableVars, pc, opts, chunk, left, total, outcome, collected, reported, loadGen,
                 complete, dialled, loads>>

\* The process is killed from outside, for its memory say.
WorkerKilled(w) ==
  /\ WorkerRuns(w, "waiting") \/ WorkerRuns(w, "running")
  /\ Fault
  /\ task' = [task EXCEPT ![w] = "killed"]
  /\ UNCHANGED <<tableVars, pc, opts, chunk, left, total, outcome, collected, reported, loadGen,
                 complete, dialled, loads>>

-----------------------------------------------------------------------------
ParentStep ==
  \/ DropFirst \/ EnsureKeyspace \/ EnsureTableAndSubmit \/ SchemaFails
  \/ StartCollecting \/ (\E w \in Workers : Collect(w)) \/ ReportTotals \/ RaiseFailure

WorkerStep(w) == WorkerStarts(w) \/ WriteRow(w) \/ NextBatch(w) \/ WorkerFails(w)

LoadStep ==
  \/ \E o \in LoadOptions : Launch(o)
  \/ ParentStep
  \/ Interrupt
  \/ \E w \in Workers : WorkerStep(w) \/ WorkerKilled(w)
=============================================================================

------------------------------ MODULE JavaLoad ------------------------------
(***************************************************************************)
(* src/sample_app/cql-java-ingest, ScyllaLoader.java: users with the ids   *)
(* offset+1 .. offset+rowCount are written by a pool of threads, each with *)
(* its own share and session.  The main thread waits for them for thirty   *)
(* minutes, adds up what those return that have ended by then, and prints  *)
(* the sums; threads that have not ended go on, and the process with them. *)
(* A failed request may have been carried out.                             *)
(*                                                                         *)
(* Left out: the values of a row, connection flags, --concurrency, which   *)
(* bounds the requests in flight, and --verify, which prints.              *)
(***************************************************************************)
EXTENDS DemoClock, FiniteSets

CONSTANTS
  JavaOptions,    \* the command lines it is run with
  Processors,     \* availableProcessors(), at most 64, for --workers 0
  MaxThreads,     \* bound: the most threads any of the command lines starts
  MaxJavaRuns,    \* bound: runs of it
  MaxMishaps      \* bound: what goes wrong in them

RowModes == {"none", "concurrent"}      \* a request for each row
BatchModes == {"logged", "unlogged"}    \* one request for the batch

JavaArgs == [row_count : Nat, batch_size : Nat, workers : 0 .. MaxThreads, offset : Int,
             mode : RowModes \cup BatchModes, drop : BOOLEAN]

ASSUME JavaAssumption ==
  /\ JavaOptions # {} /\ JavaOptions \subseteq JavaArgs
  /\ MaxThreads \in Nat \ {0} /\ Processors \in 1 .. MaxThreads /\ MaxJavaRuns \in Nat
  /\ MaxMishaps \in Nat

VARIABLES
  userRows,       \* ids in the table
  loader,         \* what the main thread does next
  loaderOpts,     \* its command line
  thread,         \* of each worker: its state, the id its next batch begins with, the
                  \* ids its batch has left, and its two counts
  gathered,       \* workers whose results have been asked for
  inserted,       \* totalRows
  failures,       \* totalFailed
  loaderRuns      \* so far

loaderVars == <<userRows, loader, loaderOpts, thread, gathered, inserted, failures, loaderRuns>>

Threads == 0 .. MaxThreads - 1

-----------------------------------------------------------------------------
(* The shares *)

PoolSize(o) == IF o.workers > 0 THEN o.workers ELSE Processors
ShareSpan(o) == (o.row_count + PoolSize(o) - 1) \div PoolSize(o)
StartId(o, w) == w * ShareSpan(o) + o.offset + 1
EndId(o, w) == Lesser((w + 1) * ShareSpan(o) + o.offset, o.row_count + o.offset)
ShareSize(o, w) == EndId(o, w) - StartId(o, w) + 1
HasJob(o, w) == w < PoolSize(o) /\ StartId(o, w) <= EndId(o, w)

\* What a run is asked for.
Requested(o) == o.offset + 1 .. o.offset + o.row_count

-----------------------------------------------------------------------------
(* The main thread *)

NoThread == [state |-> "none", next |-> 0, left |-> {}, total |-> 0, failed |-> 0]
NoThreads == [w \in Threads |-> NoThread]

Mishap == faults < MaxMishaps /\ faults' = faults + 1 /\ UNCHANGED now

Ended(w) == thread[w].state \in {"none", "done", "threw"}

LoaderStarts(o) ==
  /\ loader = "off"
  /\ loaderRuns < MaxJavaRuns
  /\ loaderRuns' = loaderRuns + 1
  /\ loader' = IF o.drop THEN "drop" ELSE "schema"
  /\ loaderOpts' = o
  /\ gathered' = 0
  /\ inserted' = 0
  /\ failures' = 0
  /\ UNCHANGED <<clockVars, userRows, thread>>

LoaderDrops ==
  /\ loader = "drop"
  /\ userRows' = {}
  /\ loader' = "schema"
  /\ UNCHANGED <<clockVars, loaderOpts, thread, gathered, inserted, failures, loaderRuns>>

\* dropTable catches what goes wrong, and the run goes on with the table as it is.
DropGoesWrong ==
  /\ loader = "drop"
  /\ Mishap
  /\ userRows' \in {userRows, {}}
  /\ loader' = "schema"
  /\ UNCHANGED <<loaderOpts, thread, gathered, inserted, failures, loaderRuns>>

\* createSchema, IF NOT EXISTS, and a job for every share that is not empty.
LoaderSubmits ==
  /\ loader = "schema"
  /\ loader' = "wait"
  /\ thread' = [w \in Threads |->
                  IF HasJob(loaderOpts, w)
                  THEN [NoThread EXCEPT !.state = "queued", !.next = StartId(loaderOpts, w)]
                  ELSE NoThread]
  /\ UNCHANGED <<clockVars, userRows, loaderOpts, gathered, inserted, failures, loaderRuns>>

\* allOf().get(): it throws if a job has, and then no result is asked for.
AllEnded ==
  /\ loader = "wait"
  /\ \A w \in Threads : Ended(w)
  /\ IF \E w \in Threads : thread[w].state = "threw"
     THEN /\ failures' = failures + loaderOpts.row_count
          /\ loader' = "report"
     ELSE /\ loader' = "gather"
          /\ UNCHANGED failures
  /\ UNCHANGED <<clockVars, userRows, loaderOpts, thread, gathered, inserted, loaderRuns>>

\* After MINUTES the results that there are will do.
MainTimesOut ==
  /\ loader = "wait"
  /\ \E w \in Threads : ~Ended(w)
  /\ Mishap
  /\ loader' = "gather"
  /\ UNCHANGED <<userRows, loaderOpts, thread, gathered, inserted, failures, loaderRuns>>

Gather(w) ==
  /\ loader = "gather"
  /\ gathered = w
  /\ thread[w].state = "done"
  /\ gathered' = w + 1
  /\ inserted' = inserted + thread[w].total
  /\ failures' = failures + thread[w].failed
  /\ UNCHANGED <<clockVars, userRows, loader, loaderOpts, thread, loaderRuns>>

\* No job, or one that has thrown or takes longer than another ten seconds.
Unreachable(w) ==
  /\ loader = "gather"
  /\ gathered = w
  /\ thread[w].state # "done"
  /\ gathered' = w + 1
  /\ UNCHANGED <<clockVars, userRows, loader, loaderOpts, thread, inserted, failures, loaderRuns>>

\* The sums are printed, and the process ends with its last thread: an interrupt does
\* not stop a worker, shutdownNow or not.
LoaderEnds ==
  /\ loader = "report" \/ (loader = "gather" /\ gathered = MaxThreads)
  /\ \A w \in Threads : Ended(w)
  /\ loader' = "off"
  /\ thread' = NoThreads
  /\ UNCHANGED <<clockVars, userRows, loaderOpts, gathered, inserted, failures, loaderRuns>>

\* It is killed, or the connection or the schema fails.
LoaderDies ==
  /\ loader # "off"
  /\ Mishap
  /\ loader' = "off"
  /\ thread' = NoThreads
  /\ UNCHANGED <<userRows, loaderOpts, gathered, inserted, failures, loaderRuns>>

-----------------------------------------------------------------------------
(* A worker: call() *)

mainVars == <<loader, loaderOpts, gathered, inserted, failures, loaderRuns>>

In(w, state) == thread[w].state = state

ThreadStarts(w) ==
  /\ In(w, "queued")
  /\ thread' = [thread EXCEPT ![w].state = "running"]
  /\ UNCHANGED <<clockVars, userRows, mainVars>>

\* It cannot connect or prepare, or closing the session fails: the whole share counts
\* as failed, next to the rows that were counted before.
ThreadFails(w) ==
  /\ In(w, "queued") \/ (In(w, "running") /\ thread[w].next > EndId(loaderOpts, w)
                          /\ thread[w].left = {})
  /\ Mishap
  /\ thread' = [thread EXCEPT ![w].state = "done", ![w].failed = ShareSize(loaderOpts, w)]
  /\ UNCHANGED <<userRows, mainVars>>

\* An Error, which call() does not catch: out of memory, say.
ThreadThrows(w) ==
  /\ In(w, "queued") \/ In(w, "running")
  /\ Mishap
  /\ thread' = [thread EXCEPT ![w].state = "threw"]
  /\ UNCHANGED <<userRows, mainVars>>

\* The next batch; with --batch_size 0 it is empty, and so is every other.
NextBatch(w) == thread[w].next .. Lesser(thread[w].next + loaderOpts.batch_size - 1,
                                         EndId(loaderOpts, w))

BatchDue(w) == In(w, "running") /\ thread[w].left = {} /\ NextBatch(w) # {}

Took(w) == [thread[w] EXCEPT !.next = @ + loaderOpts.batch_size]

\* executeLoggedBatch and executeUnloggedBatch.
BatchWritten(w) ==
  /\ BatchDue(w)
  /\ loaderOpts.mode \in BatchModes
  /\ userRows' = userRows \cup NextBatch(w)
  /\ thread' = [thread EXCEPT ![w] = [Took(w) EXCEPT !.total = @ + Cardinality(NextBatch(w))]]
  /\ UNCHANGED <<clockVars, mainVars>>

\* Mutant: a failed batch counts as one failure.
OneFailure(batch) == 1
BatchFailures(batch) == Cardinality(batch)

\* What a batch that failed may have written: a logged one all or nothing.
Remnants(batch) == IF loaderOpts.mode = "logged" THEN {{}, batch} ELSE SUBSET batch

\* Attempted rows count as inserted whether they failed or not.
BatchFails(w) ==
  /\ BatchDue(w)
  /\ loaderOpts.mode \in BatchModes
  /\ Mishap
  /\ \E ids \in Remnants(NextBatch(w)) : userRows' = userRows \cup ids
  /\ thread' = [thread EXCEPT ![w] = [Took(w) EXCEPT
                  !.total = @ + Cardinality(NextBatch(w)),
                  !.failed = @ + BatchFailures(NextBatch(w))]]
  /\ UNCHANGED mainVars

BatchBegins(w) ==
  /\ BatchDue(w)
  /\ loaderOpts.mode \in RowModes
  /\ thread' = [thread EXCEPT ![w] = [Took(w) EXCEPT !.left = NextBatch(w)]]
  /\ UNCHANGED <<clockVars, userRows, mainVars>>

\* executeIndividual takes the rows in turn, executeConcurrent in any order.
Eligible(w, id) ==
  /\ id \in thread[w].left
  /\ loaderOpts.mode = "none" => \A other \in thread[w].left : id <= other

RowWritten(w) ==
  /\ In(w, "running")
  /\ \E id \in thread[w].left :
       /\ Eligible(w, id)
       /\ userRows' = userRows \cup {id}
       /\ thread' = [thread EXCEPT ![w].left = @ \ {id}, ![w].total = @ + 1]
  /\ UNCHANGED <<clockVars, mainVars>>

RowFails(w) ==
  /\ In(w, "running")
  /\ Mishap
  /\ \E id \in thread[w].left :
       /\ Eligible(w, id)
       /\ userRows' \in {userRows, userRows \cup {id}}
       /\ thread' = [thread EXCEPT ![w].left = @ \ {id}, ![w].total = @ + 1, ![w].failed = @ + 1]
  /\ UNCHANGED mainVars

ThreadDone(w) ==
  /\ In(w, "running")
  /\ thread[w].left = {}
  /\ thread[w].next > EndId(loaderOpts, w)
  /\ thread' = [thread EXCEPT ![w].state = "done"]
  /\ UNCHANGED <<clockVars, userRows, mainVars>>

-----------------------------------------------------------------------------
JavaInit ==
  /\ userRows = {}
  /\ loader = "off"
  /\ loaderOpts = CHOOSE o \in JavaOptions : TRUE
  /\ thread = NoThreads
  /\ gathered = 0 /\ inserted = 0 /\ failures = 0
  /\ loaderRuns = 0

LoaderStep ==
  \/ \E o \in JavaOptions : LoaderStarts(o)
  \/ LoaderDrops \/ DropGoesWrong \/ LoaderSubmits \/ AllEnded \/ MainTimesOut
  \/ (\E w \in Threads : Gather(w) \/ Unreachable(w))
  \/ LoaderEnds \/ LoaderDies

ThreadStep(w) ==
  \/ ThreadStarts(w) \/ ThreadFails(w) \/ ThreadThrows(w)
  \/ BatchWritten(w) \/ BatchFails(w) \/ BatchBegins(w) \/ RowWritten(w) \/ RowFails(w)
  \/ ThreadDone(w)

JavaStep == LoaderStep \/ \E w \in Threads : ThreadStep(w)

-----------------------------------------------------------------------------
\* The sums a run prints may count a row in both and leave whole workers out, but of the
\* rows it was asked for at least inserted less failed are in the table; so a run that
\* prints its row count and no failures has written every one of them, whatever threads
\* were late or broke off (run, call, executeBatch).
PrintedRowsPresent ==
  inserted - failures <= Cardinality(userRows \cap Requested(loaderOpts))
=============================================================================

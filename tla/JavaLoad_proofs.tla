---------------------------- MODULE JavaLoad_proofs ----------------------------
(***************************************************************************)
(* What the Java loader prints, for every set of command lines, every      *)
(* number of threads and every bound on runs and on what goes wrong.       *)
(***************************************************************************)
EXTENDS DemoTables, FiniteSetTheorems, TLAPS

-----------------------------------------------------------------------------
(* Counting ids *)

LEMMA LargerSets ==
  ASSUME NEW S, NEW T, IsFiniteSet(T), S \subseteq T
  PROVE  IsFiniteSet(S) /\ Cardinality(S) \in Nat /\ Cardinality(T) \in Nat
         /\ Cardinality(S) <= Cardinality(T)
BY FS_Subset, FS_CardinalityType

LEMMA DisjointSets ==
  ASSUME NEW S, NEW T, IsFiniteSet(S), IsFiniteSet(T), S \cap T = {}
  PROVE  /\ IsFiniteSet(S \cup T)
         /\ Cardinality(S) \in Nat /\ Cardinality(T) \in Nat
         /\ Cardinality(S \cup T) = Cardinality(S) + Cardinality(T)
BY FS_Union, FS_EmptySet, FS_CardinalityType

LEMMA Intervals ==
  ASSUME NEW a \in Int, NEW b \in Int
  PROVE  IsFiniteSet(a .. b) /\ Cardinality(a .. b) = IF a > b THEN 0 ELSE b - a + 1
BY FS_Interval

-----------------------------------------------------------------------------
(* The shares *)

LEMMA JavaOptionTypes ==
  ASSUME NEW o \in JavaOptions
  PROVE  /\ o.row_count \in Nat /\ o.batch_size \in Nat /\ o.offset \in Int
         /\ PoolSize(o) \in Nat \ {0} /\ MaxThreads \in Nat
BY JavaAssumption DEF JavaArgs, PoolSize

LEMMA SpanTypes ==
  ASSUME NEW o \in JavaOptions
  PROVE  ShareSpan(o) \in Nat
<1> DEFINE n == o.row_count
           p == PoolSize(o)
<1>1. n \in Nat /\ p \in Nat \ {0}
  BY JavaOptionTypes
<1> HIDE DEF n, p
<1>2. (n + p - 1) \div p \in Nat
  BY <1>1
<1> QED BY <1>2 DEF ShareSpan, n, p

\* The last id of the first k shares.
Reach(o, k) == Lesser(k * ShareSpan(o) + o.offset, o.row_count + o.offset)

\* The share of a thread begins where those before it end.
LEMMA ShareEnds ==
  ASSUME NEW o \in JavaOptions, NEW w \in Threads
  PROVE  /\ w \in Nat /\ StartId(o, w) \in Int /\ EndId(o, w) \in Int
         /\ Reach(o, w) \in Int /\ Reach(o, w + 1) \in Int /\ Reach(o, w) <= Reach(o, w + 1)
         /\ Reach(o, w + 1) <= o.row_count + o.offset
         /\ HasJob(o, w) => StartId(o, w) = Reach(o, w) + 1 /\ EndId(o, w) = Reach(o, w + 1)
                            /\ ShareSize(o, w) \in Nat
                            /\ Cardinality(StartId(o, w) .. EndId(o, w)) = ShareSize(o, w)
                            /\ o.offset + 1 <= StartId(o, w)
<1> DEFINE s == ShareSpan(o)
           x == w * s
           y == (w + 1) * s
           n == o.row_count
           f == o.offset
<1>1. w \in Nat /\ s \in Nat /\ n \in Nat /\ f \in Int
  BY SpanTypes, JavaOptionTypes DEF Threads
<1>2. x \in Nat /\ y = x + s
  BY <1>1
<1>3. /\ StartId(o, w) = x + f + 1 /\ EndId(o, w) = Lesser(y + f, n + f)
      /\ Reach(o, w) = Lesser(x + f, n + f) /\ Reach(o, w + 1) = Lesser(y + f, n + f)
  BY DEF StartId, EndId, Reach
<1>4. HasJob(o, w) => x + f + 1 <= Lesser(y + f, n + f)
  BY <1>3 DEF HasJob
<1> HIDE DEF x, y, s
<1>5. /\ w \in Nat /\ StartId(o, w) \in Int /\ EndId(o, w) \in Int
      /\ Reach(o, w) \in Int /\ Reach(o, w + 1) \in Int /\ Reach(o, w) <= Reach(o, w + 1)
      /\ Reach(o, w + 1) <= n + f
      /\ HasJob(o, w) => StartId(o, w) = Reach(o, w) + 1 /\ EndId(o, w) = Reach(o, w + 1)
                         /\ f + 1 <= StartId(o, w) /\ StartId(o, w) <= EndId(o, w)
  BY <1>1, <1>2, <1>3, <1>4 DEF Lesser
<1>6. ASSUME HasJob(o, w)
      PROVE  ShareSize(o, w) \in Nat
             /\ Cardinality(StartId(o, w) .. EndId(o, w)) = ShareSize(o, w)
  <2> DEFINE a == StartId(o, w)
             e == EndId(o, w)
  <2>1. a \in Int /\ e \in Int /\ a <= e
    BY <1>5, <1>6
  <2>2. Cardinality(a .. e) = e - a + 1 /\ e - a + 1 \in Nat
    <3> HIDE DEF a, e
    <3> QED BY <2>1, Intervals
  <2> QED BY <2>2 DEF ShareSize
<1> QED BY <1>5, <1>6

-----------------------------------------------------------------------------
(* The invariant *)

ThreadStates ==
  [state : {"none", "queued", "running", "done", "threw"}, next : Int, left : SUBSET Int,
   total : Int, failed : Int]

JavaTypes ==
  /\ userRows \subseteq Int
  /\ loader \in {"off", "drop", "schema", "wait", "gather", "report"}
  /\ loaderOpts \in JavaOptions
  /\ thread \in [Threads -> ThreadStates]
  /\ gathered \in Nat
  /\ inserted \in Int /\ failures \in Int

\* The ids of the batches a worker has taken, and of those the ones it has dealt with.
Taken(w) == StartId(loaderOpts, w) .. Lesser(thread[w].next - 1, EndId(loaderOpts, w))
Handled(w) == Taken(w) \ thread[w].left
Whole(w) == StartId(loaderOpts, w) .. EndId(loaderOpts, w)

\* A worker counts what it has dealt with, and as failed at least what is not there.
WorkerCounts(w) ==
  /\ In(w, "queued") => /\ thread[w].next = StartId(loaderOpts, w) /\ thread[w].left = {}
                        /\ thread[w].total = 0 /\ thread[w].failed = 0
  /\ In(w, "running") =>
       /\ thread[w].next >= StartId(loaderOpts, w)
       /\ thread[w].left \subseteq Taken(w)
       /\ thread[w].total <= Cardinality(Handled(w))
       /\ thread[w].total - thread[w].failed <= Cardinality(userRows \cap Handled(w))
  /\ In(w, "done") =>
       thread[w].total - thread[w].failed <= Cardinality(userRows \cap Whole(w))

CountsInv ==
  \A w \in Threads : thread[w].state # "none" => HasJob(loaderOpts, w) /\ WorkerCounts(w)

\* The ids of the shares whose results have been asked for.
Gathered == loaderOpts.offset + 1 .. Reach(loaderOpts, gathered)

PhaseInv ==
  /\ loader \in {"off", "drop", "schema"} => thread = NoThreads
  /\ loader \in {"drop", "schema", "wait"} => gathered = 0 /\ inserted = 0 /\ failures = 0
  /\ loader = "gather" => gathered <= MaxThreads
                          /\ inserted - failures <= Cardinality(userRows \cap Gathered)

JavaInv == JavaTypes /\ CountsInv /\ PhaseInv /\ PrintedRowsPresent

-----------------------------------------------------------------------------
(* Rows that are added *)

LEMMA RequestedFinite ==
  ASSUME NEW o \in JavaOptions
  PROVE  IsFiniteSet(Requested(o))
<1>1. o.offset + 1 \in Int /\ o.offset + o.row_count \in Int
  BY JavaOptionTypes
<1> QED BY <1>1, Intervals DEF Requested

LEMMA SharesFinite ==
  ASSUME NEW o \in JavaOptions, NEW k \in Nat
  PROVE  /\ IsFiniteSet(o.offset + 1 .. Reach(o, k))
         /\ o.offset + 1 .. Reach(o, k) \subseteq Requested(o)
<1> DEFINE a == o.offset + 1
           e == Reach(o, k)
           l == o.offset + o.row_count
<1>1. k * ShareSpan(o) \in Nat /\ o.row_count \in Nat /\ o.offset \in Int
  BY SpanTypes, JavaOptionTypes
<1>2. a \in Int /\ e \in Int /\ e <= l /\ l \in Int
  BY <1>1 DEF Reach, Lesser
<1>3. Requested(o) = a .. l
  BY DEF Requested
<1> HIDE DEF a, e, l
<1>4. IsFiniteSet(a .. e) /\ a .. e \subseteq a .. l
  BY <1>2, Intervals
<1> QED BY <1>3, <1>4 DEF a, e

LEMMA IdsFinite ==
  ASSUME JavaTypes
  PROVE  /\ IsFiniteSet(Requested(loaderOpts))
         /\ gathered \in 0 .. MaxThreads => IsFiniteSet(Gathered) /\ Gathered \subseteq Requested(loaderOpts)
         /\ \A w \in Threads : /\ IsFiniteSet(Taken(w)) /\ IsFiniteSet(Whole(w))
                               /\ IsFiniteSet(Handled(w)) /\ Handled(w) \subseteq Whole(w)
<1>1. IsFiniteSet(Requested(loaderOpts))
  BY RequestedFinite DEF JavaTypes
<1>2. ASSUME gathered \in 0 .. MaxThreads
      PROVE  IsFiniteSet(Gathered) /\ Gathered \subseteq Requested(loaderOpts)
  BY <1>2, SharesFinite DEF Gathered, JavaTypes
<1>3. ASSUME NEW w \in Threads
      PROVE  /\ IsFiniteSet(Taken(w)) /\ IsFiniteSet(Whole(w))
             /\ IsFiniteSet(Handled(w)) /\ Handled(w) \subseteq Whole(w)
  <2> DEFINE a == StartId(loaderOpts, w)
             e == EndId(loaderOpts, w)
             l == Lesser(thread[w].next - 1, e)
  <2>1. a \in Int /\ e \in Int /\ thread[w].next \in Int
    BY ShareEnds DEF JavaTypes, ThreadStates
  <2>2. l \in Int /\ l <= e
    BY <2>1 DEF Lesser
  <2>3. IsFiniteSet(a .. l) /\ IsFiniteSet(a .. e) /\ a .. l \subseteq a .. e
    BY <2>1, <2>2, Intervals
  <2>4. IsFiniteSet(Taken(w)) /\ IsFiniteSet(Whole(w)) /\ Handled(w) \subseteq Taken(w)
        /\ Taken(w) \subseteq Whole(w)
    BY <2>3 DEF Taken, Whole, Handled
  <2>5. IsFiniteSet(Handled(w))
    BY <2>4, LargerSets
  <2> QED BY <2>4, <2>5
<1> QED BY <1>1, <1>2, <1>3

\* More rows never break what is counted.
LEMMA MoreRows ==
  ASSUME JavaTypes, NEW S, IsFiniteSet(S), NEW new, userRows \subseteq new
  PROVE  Cardinality(userRows \cap S) \in Nat /\ Cardinality(new \cap S) \in Nat
         /\ Cardinality(userRows \cap S) <= Cardinality(new \cap S)
<1>1. IsFiniteSet(new \cap S)
  BY FS_Intersection
<1> QED BY <1>1, LargerSets

\* A step of the workers adds rows and leaves the sums alone.
LEMMA SumsHold ==
  ASSUME JavaInv, userRows \subseteq userRows', UNCHANGED mainVars
  PROVE  PrintedRowsPresent'
         /\ (loader' = "gather" =>
               gathered' <= MaxThreads
               /\ inserted' - failures' <= Cardinality(userRows' \cap Gathered'))
<1> USE DEF JavaInv, mainVars
<1>1. IsFiniteSet(Requested(loaderOpts))
  BY IdsFinite
<1>2. PrintedRowsPresent'
  BY <1>1, MoreRows DEF PrintedRowsPresent, JavaTypes
<1>3. ASSUME loader = "gather"
      PROVE  inserted - failures <= Cardinality(userRows' \cap Gathered)
  <2>1. gathered \in 0 .. MaxThreads
    BY <1>3, JavaAssumption DEF PhaseInv, JavaTypes
  <2>2. IsFiniteSet(Gathered)
    BY <2>1, IdsFinite
  <2>3. /\ Cardinality(userRows \cap Gathered) \in Nat
        /\ Cardinality(userRows' \cap Gathered) \in Nat
        /\ Cardinality(userRows \cap Gathered) <= Cardinality(userRows' \cap Gathered)
    BY <2>2, MoreRows
  <2> QED BY <1>3, <2>3 DEF PhaseInv, JavaTypes
<1>4. Gathered' = Gathered
  BY DEF Gathered, Reach, ShareSpan, PoolSize
<1>5. loader' = loader /\ gathered' = gathered /\ inserted' = inserted /\ failures' = failures
  OBVIOUS
<1> QED BY <1>2, <1>3, <1>4, <1>5 DEF PhaseInv

-----------------------------------------------------------------------------
(* The steps of a worker *)

\* What a worker counts stays right while others write.
LEMMA OthersWrite ==
  ASSUME JavaTypes, NEW v \in Threads, WorkerCounts(v), userRows \subseteq userRows',
         thread'[v] = thread[v], loaderOpts' = loaderOpts
  PROVE  WorkerCounts(v)'
<1>1. Taken(v)' = Taken(v) /\ Handled(v)' = Handled(v) /\ Whole(v)' = Whole(v)
      /\ StartId(loaderOpts, v)' = StartId(loaderOpts, v)
  BY DEF Taken, Handled, Whole
<1>2. /\ Cardinality(userRows \cap Handled(v)) \in Nat
      /\ Cardinality(userRows' \cap Handled(v)) \in Nat
      /\ Cardinality(userRows \cap Handled(v)) <= Cardinality(userRows' \cap Handled(v))
  BY IdsFinite, MoreRows
<1>3. /\ Cardinality(userRows \cap Whole(v)) \in Nat
      /\ Cardinality(userRows' \cap Whole(v)) \in Nat
      /\ Cardinality(userRows \cap Whole(v)) <= Cardinality(userRows' \cap Whole(v))
  BY IdsFinite, MoreRows
<1>4. thread[v].total \in Int /\ thread[v].failed \in Int
  BY DEF JavaTypes, ThreadStates
<1> QED BY <1>1, <1>2, <1>3, <1>4 DEF WorkerCounts, In

LEMMA OneThread ==
  ASSUME JavaInv, NEW w \in Threads, NEW rec \in ThreadStates,
         thread' = [thread EXCEPT ![w] = rec], thread[w].state # "none",
         userRows \subseteq userRows', userRows' \subseteq Int, UNCHANGED mainVars,
         HasJob(loaderOpts, w) => WorkerCounts(w)'
  PROVE  JavaInv'
<1>1. JavaTypes'
  BY DEF JavaInv, JavaTypes, mainVars
<1>2. CountsInv'
  <2>1. ASSUME NEW v \in Threads, thread'[v].state # "none"
        PROVE  HasJob(loaderOpts', v) /\ WorkerCounts(v)'
    <3>1. loaderOpts' = loaderOpts
      BY DEF mainVars
    <3>2. CASE v = w
      BY <3>1, <3>2 DEF JavaInv, CountsInv
    <3>3. CASE v # w
      <4>1. thread'[v] = thread[v]
        BY <3>3 DEF JavaInv, JavaTypes
      <4>2. HasJob(loaderOpts, v) /\ WorkerCounts(v)
        BY <2>1, <4>1 DEF JavaInv, CountsInv
      <4> QED BY <3>1, <4>1, <4>2, OthersWrite DEF JavaInv
    <3> QED BY <3>2, <3>3
  <2> QED BY <2>1 DEF CountsInv
<1>3. PhaseInv'
  <2>1. loader \notin {"off", "drop", "schema"}
    BY DEF JavaInv, PhaseInv, NoThreads, NoThread
  <2> QED BY <2>1, SumsHold DEF JavaInv, PhaseInv, mainVars
<1> QED BY <1>1, <1>2, <1>3, SumsHold DEF JavaInv

\* Ids that a worker deals with are counted once.
LEMMA MoreHandled ==
  ASSUME JavaTypes, NEW w \in Threads, NEW new, IsFiniteSet(new), new \cap Handled(w) = {},
         Handled(w)' = Handled(w) \cup new, userRows \subseteq userRows'
  PROVE  /\ Cardinality(new) \in Nat /\ Cardinality(Handled(w)) \in Nat
         /\ Cardinality(Handled(w))' = Cardinality(Handled(w)) + Cardinality(new)
         /\ Cardinality(userRows \cap Handled(w)) \in Nat
         /\ Cardinality(userRows \cap Handled(w))' \in Nat
         /\ Cardinality(userRows \cap Handled(w))' >= Cardinality(userRows \cap Handled(w))
         /\ new \subseteq userRows' =>
              Cardinality(userRows \cap Handled(w))'
                >= Cardinality(userRows \cap Handled(w)) + Cardinality(new)
<1> DEFINE old == Handled(w)
           had == userRows \cap old
           has == userRows' \cap (old \cup new)
<1>1. IsFiniteSet(old)
  BY IdsFinite
<1>2. /\ IsFiniteSet(old \cup new) /\ Cardinality(new) \in Nat /\ Cardinality(old) \in Nat
      /\ Cardinality(old \cup new) = Cardinality(old) + Cardinality(new)
  BY <1>1, DisjointSets
<1>3. IsFiniteSet(had) /\ Cardinality(had) \in Nat
  BY <1>1, LargerSets
<1>4. IsFiniteSet(has) /\ Cardinality(has) \in Nat
  BY <1>2, LargerSets
<1>5. had \subseteq has
  OBVIOUS
<1>6. Cardinality(had) <= Cardinality(has)
  BY <1>4, <1>5, LargerSets
<1>7. ASSUME new \subseteq userRows'
      PROVE  Cardinality(has) >= Cardinality(had) + Cardinality(new)
  <2>1. IsFiniteSet(had \cup new) /\ Cardinality(had \cup new) = Cardinality(had) + Cardinality(new)
    BY <1>3, DisjointSets
  <2>2. had \cup new \subseteq has
    BY <1>5, <1>7
  <2>3. Cardinality(had \cup new) \in Nat /\ Cardinality(had \cup new) <= Cardinality(has)
    BY <1>4, <2>2, LargerSets
  <2> QED BY <1>2, <1>3, <1>4, <2>1, <2>3
<1>8. (userRows \cap Handled(w))' = has /\ Handled(w)' = old \cup new
  OBVIOUS
<1> HIDE DEF old, had, has
<1>9. /\ Cardinality(Handled(w))' = Cardinality(old \cup new)
      /\ Cardinality(userRows \cap Handled(w))' = Cardinality(has)
  BY <1>8
<1> QED BY <1>2, <1>3, <1>4, <1>6, <1>7, <1>9 DEF old, had

\* The next batch follows what has been taken.
LEMMA BatchFollows ==
  ASSUME JavaInv, NEW w \in Threads, BatchDue(w), loaderOpts' = loaderOpts,
         thread'[w].next = thread[w].next + loaderOpts.batch_size
  PROVE  /\ IsFiniteSet(NextBatch(w)) /\ NextBatch(w) \subseteq Int
         /\ Taken(w)' = Taken(w) \cup NextBatch(w)
         /\ Taken(w) \cap NextBatch(w) = {}
         /\ Handled(w) = Taken(w)
         /\ thread'[w].next \in Int /\ thread'[w].next >= StartId(loaderOpts, w)
<1> DEFINE a == StartId(loaderOpts, w)
           e == EndId(loaderOpts, w)
           i == thread[w].next
           b == loaderOpts.batch_size
<1>1. a \in Int /\ e \in Int /\ b \in Nat /\ i \in Int
  BY ShareEnds, JavaOptionTypes DEF JavaInv, JavaTypes, ThreadStates
<1>2. i >= a /\ i .. Lesser(i + b - 1, e) # {} /\ thread[w].left = {}
  BY DEF BatchDue, NextBatch, JavaInv, CountsInv, WorkerCounts, In
<1>3. /\ Taken(w) = a .. Lesser(i - 1, e) /\ NextBatch(w) = i .. Lesser(i + b - 1, e)
      /\ Taken(w)' = a .. Lesser(i + b - 1, e) /\ thread'[w].next = i + b
      /\ Handled(w) = Taken(w)
  <2>1. thread'[w].next = i + b /\ (i + b) - 1 = i + b - 1
    BY <1>1
  <2>2. Taken(w)' = a .. Lesser((i + b) - 1, e)
    BY DEF Taken
  <2> QED BY <1>2, <2>1, <2>2 DEF Taken, NextBatch, Handled
<1> HIDE DEF a, e, i, b
<1>4. i + b \in Int /\ i + b >= a /\ Lesser(i + b - 1, e) \in Int /\ Lesser(i - 1, e) = i - 1
      /\ Lesser(i + b - 1, e) >= i
  BY <1>1, <1>2 DEF Lesser
<1>5. /\ a .. Lesser(i + b - 1, e) = (a .. Lesser(i - 1, e)) \cup (i .. Lesser(i + b - 1, e))
      /\ (a .. Lesser(i - 1, e)) \cap (i .. Lesser(i + b - 1, e)) = {}
      /\ i .. Lesser(i + b - 1, e) \subseteq Int
  BY <1>1, <1>2, <1>4
<1>6. IsFiniteSet(i .. Lesser(i + b - 1, e))
  BY <1>1, <1>4, Intervals
<1> QED BY <1>3, <1>4, <1>5, <1>6 DEF a

LEMMA RecordTypes ==
  ASSUME NEW rec \in ThreadStates, NEW label \in {"running", "done", "threw"},
         NEW first \in Int, NEW ids \in SUBSET Int, NEW n \in Int, NEW m \in Int
  PROVE  /\ [rec EXCEPT !.state = label, !.failed = n] \in ThreadStates
         /\ [rec EXCEPT !.next = first, !.left = ids] \in ThreadStates
         /\ [rec EXCEPT !.next = first, !.total = n] \in ThreadStates
         /\ [rec EXCEPT !.next = first, !.total = n, !.failed = m] \in ThreadStates
         /\ [rec EXCEPT !.left = ids, !.total = n] \in ThreadStates
         /\ [rec EXCEPT !.left = ids, !.total = n, !.failed = m] \in ThreadStates
BY DEF ThreadStates

LEMMA ThreadFacts ==
  ASSUME JavaInv, NEW w \in Threads
  PROVE  /\ thread[w] \in ThreadStates /\ userRows \subseteq Int
         /\ thread[w].state # "none" => HasJob(loaderOpts, w) /\ WorkerCounts(w)
         /\ Cardinality(userRows \cap Handled(w)) \in Nat /\ Cardinality(Handled(w)) \in Nat
         /\ Cardinality(userRows \cap Whole(w)) \in Nat /\ Cardinality(Whole(w)) \in Nat
<1>1. IsFiniteSet(Handled(w)) /\ IsFiniteSet(Whole(w))
  BY IdsFinite DEF JavaInv
<1>2. /\ IsFiniteSet(userRows \cap Handled(w)) /\ IsFiniteSet(userRows \cap Whole(w))
  BY <1>1, FS_Intersection
<1> QED BY <1>1, <1>2, FS_CardinalityType DEF JavaInv, JavaTypes, CountsInv

LEMMA StartInv ==
  ASSUME JavaInv, NEW w \in Threads, ThreadStarts(w)
  PROVE  JavaInv'
<1>0. /\ thread[w] \in ThreadStates /\ userRows \subseteq Int
      /\ thread[w].state # "none" => HasJob(loaderOpts, w) /\ WorkerCounts(w)
      /\ Cardinality(userRows \cap Handled(w)) \in Nat /\ Cardinality(Handled(w)) \in Nat
      /\ Cardinality(userRows \cap Whole(w)) \in Nat /\ Cardinality(Whole(w)) \in Nat
  BY ThreadFacts
<1> DEFINE rec == [thread[w] EXCEPT !.state = "running"]
<1>1. thread' = [thread EXCEPT ![w] = rec] /\ In(w, "queued") /\ userRows' = userRows
      /\ UNCHANGED mainVars
  BY DEF ThreadStarts
<1>2. rec \in ThreadStates /\ thread'[w] = rec
  BY <1>1, <1>0 DEF ThreadStates, JavaInv, JavaTypes
<1>3. ASSUME HasJob(loaderOpts, w) PROVE WorkerCounts(w)'
  <2> DEFINE a == StartId(loaderOpts, w)
             e == EndId(loaderOpts, w)
  <2>1. thread[w].next = a /\ thread[w].left = {} /\ thread[w].total = 0 /\ thread[w].failed = 0
    BY <1>1, <1>0 DEF WorkerCounts, In
  <2>2. a \in Int /\ e \in Int
    BY ShareEnds DEF JavaInv, JavaTypes
  <2>3. /\ thread'[w].next = a /\ thread'[w].left = {} /\ thread'[w].total = 0
        /\ thread'[w].failed = 0 /\ thread'[w].state = "running" /\ loaderOpts' = loaderOpts
    BY <1>1, <1>2, <2>1, <1>0 DEF ThreadStates, mainVars
  <2>4. Handled(w)' = Handled(w) /\ StartId(loaderOpts, w)' = a
    BY <2>1, <2>3 DEF Handled, Taken
  <2>5. /\ thread'[w].next >= StartId(loaderOpts, w)' /\ thread'[w].left \subseteq Taken(w)'
        /\ thread'[w].total <= Cardinality(Handled(w))'
    <3> HIDE DEF a, e
    <3> QED BY <2>2, <2>3, <2>4, <1>0
  <2>6. (userRows \cap Handled(w))' = userRows \cap Handled(w)
    BY <1>1, <2>4
  <2>7. thread'[w].total - thread'[w].failed <= Cardinality(userRows \cap Handled(w))'
    <3>1. thread'[w].total - thread'[w].failed = 0
      BY <2>3
    <3> QED BY <2>6, <3>1, <1>0
  <2> QED BY <2>3, <2>5, <2>7 DEF WorkerCounts, In
<1> QED BY <1>1, <1>2, <1>3, OneThread, <1>0 DEF In

LEMMA BreakInv ==
  ASSUME JavaInv, NEW w \in Threads, ThreadFails(w) \/ ThreadThrows(w) \/ ThreadDone(w)
  PROVE  JavaInv'
<1>0. /\ thread[w] \in ThreadStates /\ userRows \subseteq Int
      /\ thread[w].state # "none" => HasJob(loaderOpts, w) /\ WorkerCounts(w)
      /\ Cardinality(userRows \cap Handled(w)) \in Nat /\ Cardinality(Handled(w)) \in Nat
      /\ Cardinality(userRows \cap Whole(w)) \in Nat /\ Cardinality(Whole(w)) \in Nat
  BY ThreadFacts
<1>1. userRows' = userRows /\ UNCHANGED mainVars /\ thread[w].state # "none"
  BY DEF ThreadFails, ThreadThrows, ThreadDone, In
<1>2. CASE ThreadThrows(w)
  <2> DEFINE rec == [thread[w] EXCEPT !.state = "threw"]
  <2>1. thread' = [thread EXCEPT ![w] = rec]
    BY <1>2 DEF ThreadThrows
  <2>2. rec \in ThreadStates /\ thread'[w].state = "threw"
    BY <2>1, <1>0 DEF ThreadStates, JavaInv, JavaTypes
  <2> QED BY <1>1, <2>1, <2>2, OneThread, <1>0 DEF WorkerCounts, In
<1>3. CASE ThreadFails(w)
  <2> DEFINE size == ShareSize(loaderOpts, w)
             rec == [thread[w] EXCEPT !.state = "done", !.failed = size]
  <2>1. thread' = [thread EXCEPT ![w] = rec]
    BY <1>3 DEF ThreadFails
  <2>2. size \in Nat /\ Cardinality(Whole(w)) = size
    BY <1>1, <1>0, ShareEnds DEF JavaInv, JavaTypes, Whole
  <2> HIDE DEF size
  <2>3. rec \in ThreadStates /\ thread'[w] = rec /\ rec.state = "done" /\ rec.failed = size
        /\ rec.total = thread[w].total
    <3>1. size \in Int
      BY <2>2
    <3>2. rec \in ThreadStates
      BY <3>1, <1>0, RecordTypes
    <3>3. thread'[w] = rec
      BY <2>1, <3>2 DEF JavaInv, JavaTypes
    <3> QED BY <3>2, <3>3, <1>0 DEF ThreadStates
  <2>4. thread[w].total \in Int /\ thread[w].total <= size
    <3>1. In(w, "queued") \/ In(w, "running")
      BY <1>3 DEF ThreadFails
    <3>2. thread[w].total = 0 \/ thread[w].total <= Cardinality(Handled(w))
      BY <1>1, <3>1, <1>0 DEF WorkerCounts
    <3>3. Cardinality(Handled(w)) <= Cardinality(Whole(w))
      BY IdsFinite, LargerSets DEF JavaInv
    <3>4. thread[w].total \in Int
      BY <1>0 DEF ThreadStates
    <3> QED BY <2>2, <3>2, <3>3, <3>4, <1>0
  <2>5. Whole(w)' = Whole(w)
    BY <1>1 DEF Whole, mainVars
  <2>6. WorkerCounts(w)'
    BY <1>1, <2>2, <2>3, <2>4, <2>5, <1>0 DEF WorkerCounts, In
  <2> QED BY <1>1, <2>1, <2>3, <2>6, OneThread, <1>0
<1>4. CASE ThreadDone(w)
  <2> DEFINE rec == [thread[w] EXCEPT !.state = "done"]
  <2>1. thread' = [thread EXCEPT ![w] = rec] /\ In(w, "running") /\ thread[w].left = {}
        /\ thread[w].next > EndId(loaderOpts, w)
    BY <1>4 DEF ThreadDone
  <2>2. /\ rec \in ThreadStates /\ thread'[w].state = "done"
        /\ thread'[w].failed = thread[w].failed /\ thread'[w].total = thread[w].total
    BY <2>1, <1>0 DEF ThreadStates, JavaInv, JavaTypes
  <2>3. Handled(w) = Whole(w) /\ Whole(w)' = Whole(w)
    <3>1. thread[w].next \in Int /\ EndId(loaderOpts, w) \in Int
      BY <1>0, ShareEnds DEF ThreadStates, JavaInv, JavaTypes
    <3>2. Lesser(thread[w].next - 1, EndId(loaderOpts, w)) = EndId(loaderOpts, w)
      BY <2>1, <3>1 DEF Lesser
    <3> QED BY <1>1, <2>1, <3>2 DEF Handled, Taken, Whole, mainVars
  <2>4. WorkerCounts(w)'
    BY <1>1, <2>1, <2>2, <2>3, <1>0 DEF WorkerCounts, In
  <2> QED BY <1>1, <2>1, <2>2, <2>4, OneThread, <1>0
<1> QED BY <1>2, <1>3, <1>4


LEMMA RowInv ==
  ASSUME JavaInv, NEW w \in Threads, RowWritten(w) \/ RowFails(w)
  PROVE  JavaInv'
<1>0. /\ thread[w] \in ThreadStates /\ userRows \subseteq Int
      /\ thread[w].state # "none" => HasJob(loaderOpts, w) /\ WorkerCounts(w)
      /\ Cardinality(userRows \cap Handled(w)) \in Nat /\ Cardinality(Handled(w)) \in Nat
      /\ Cardinality(userRows \cap Whole(w)) \in Nat /\ Cardinality(Whole(w)) \in Nat
  BY ThreadFacts
<1>1. PICK id \in thread[w].left, n \in {thread[w].failed, thread[w].failed + 1} :
        /\ thread' = [thread EXCEPT ![w] = [thread[w] EXCEPT
                        !.left = thread[w].left \ {id}, !.total = thread[w].total + 1, !.failed = n]]
        /\ userRows' \in {userRows, userRows \cup {id}}
        /\ n = thread[w].failed => userRows' = userRows \cup {id}
  <2>1. CASE RowWritten(w)
    <3>1. PICK id \in thread[w].left :
            /\ userRows' = userRows \cup {id}
            /\ thread' = [thread EXCEPT ![w].left = @ \ {id}, ![w].total = @ + 1]
      BY <2>1 DEF RowWritten
    <3>2. thread' = [thread EXCEPT ![w] = [thread[w] EXCEPT !.left = thread[w].left \ {id},
                       !.total = thread[w].total + 1, !.failed = thread[w].failed]]
      BY <3>1, <1>0 DEF ThreadStates, JavaInv, JavaTypes
    <3> QED BY <3>1, <3>2
  <2>2. CASE RowFails(w)
    <3>1. PICK id \in thread[w].left :
            /\ userRows' \in {userRows, userRows \cup {id}}
            /\ thread' = [thread EXCEPT ![w].left = @ \ {id}, ![w].total = @ + 1, ![w].failed = @ + 1]
      BY <2>2 DEF RowFails
    <3>2. thread' = [thread EXCEPT ![w] = [thread[w] EXCEPT !.left = thread[w].left \ {id},
                       !.total = thread[w].total + 1, !.failed = thread[w].failed + 1]]
      BY <3>1, <1>0 DEF ThreadStates, JavaInv, JavaTypes
    <3>3. thread[w].failed + 1 # thread[w].failed
      BY <1>0 DEF ThreadStates
    <3> QED BY <3>1, <3>2, <3>3
  <2> QED BY <2>1, <2>2
<1>2. In(w, "running") /\ UNCHANGED mainVars
  BY DEF RowWritten, RowFails
<1> DEFINE rec == [thread[w] EXCEPT !.left = thread[w].left \ {id},
                                    !.total = thread[w].total + 1, !.failed = n]
<1>3. id \in Int /\ n \in Int /\ thread[w].total \in Int /\ thread[w].failed \in Int
      /\ thread[w].left \ {id} \in SUBSET Int
  BY <1>0 DEF ThreadStates
<1>4. rec \in ThreadStates /\ thread'[w] = rec
  <2>1. thread[w].total + 1 \in Int
    BY <1>3
  <2>2. rec \in ThreadStates
    BY <1>0, <1>3, <2>1, RecordTypes
  <2> QED BY <1>1, <2>2 DEF JavaInv, JavaTypes
<1>5. /\ rec.state = "running" /\ rec.next = thread[w].next /\ rec.left = thread[w].left \ {id}
      /\ rec.total = thread[w].total + 1 /\ rec.failed = n
  BY <1>0, <1>2 DEF ThreadStates, In
<1>6. userRows \subseteq userRows' /\ userRows' \subseteq Int
  BY <1>0, <1>1, <1>3
<1> HIDE DEF rec
<1>7. /\ thread[w].next >= StartId(loaderOpts, w) /\ thread[w].left \subseteq Taken(w)
      /\ thread[w].total <= Cardinality(Handled(w))
      /\ thread[w].total - thread[w].failed <= Cardinality(userRows \cap Handled(w))
  BY <1>0, <1>2 DEF WorkerCounts, In
<1>8. /\ Taken(w)' = Taken(w) /\ StartId(loaderOpts, w)' = StartId(loaderOpts, w)
      /\ Handled(w)' = Handled(w) \cup {id} /\ {id} \cap Handled(w) = {}
  <2>1. Taken(w)' = Taken(w) /\ StartId(loaderOpts, w)' = StartId(loaderOpts, w)
    BY <1>2, <1>4, <1>5 DEF Taken, mainVars
  <2> QED BY <1>4, <1>5, <1>7, <2>1 DEF Handled
<1>9. IsFiniteSet({id}) /\ Cardinality({id}) = 1
  BY FS_Singleton
<1>10. /\ Cardinality(Handled(w))' = Cardinality(Handled(w)) + 1
       /\ Cardinality(userRows \cap Handled(w))' \in Nat
       /\ Cardinality(userRows \cap Handled(w))' >= Cardinality(userRows \cap Handled(w))
       /\ {id} \subseteq userRows' =>
            Cardinality(userRows \cap Handled(w))' >= Cardinality(userRows \cap Handled(w)) + 1
  BY <1>6, <1>8, <1>9, MoreHandled DEF JavaInv
<1>11. thread'[w].total - thread'[w].failed <= Cardinality(userRows \cap Handled(w))'
  <2>1. n = thread[w].failed => {id} \subseteq userRows'
    BY <1>1
  <2>2. n = thread[w].failed \/ n = thread[w].failed + 1
    BY <1>1
  <2>3. thread'[w].total = thread[w].total + 1 /\ thread'[w].failed = n
    BY <1>4, <1>5
  <2> DEFINE c == Cardinality(userRows \cap Handled(w))
             d == Cardinality(userRows \cap Handled(w))'
  <2>4. /\ c \in Nat /\ d \in Nat /\ d >= c /\ (n = thread[w].failed => d >= c + 1)
        /\ thread[w].total - thread[w].failed <= c
    BY <1>0, <1>7, <1>10, <2>1
  <2>5. thread[w].total + 1 - n <= d
    <3> HIDE DEF c, d
    <3> QED BY <1>3, <2>2, <2>4
  <2>6. d = Cardinality(userRows \cap Handled(w))' /\ d \in Int
    BY <2>4
  <2> HIDE DEF d
  <2> QED BY <1>3, <2>3, <2>5, <2>6
<1>12. thread'[w].total <= Cardinality(Handled(w))'
  BY <1>0, <1>3, <1>4, <1>5, <1>7, <1>10
<1>13. thread'[w].next >= StartId(loaderOpts, w)' /\ thread'[w].left \subseteq Taken(w)'
  BY <1>4, <1>5, <1>7, <1>8
<1>14. WorkerCounts(w)'
  BY <1>4, <1>5, <1>11, <1>12, <1>13 DEF WorkerCounts, In
<1>15. thread[w].state # "none" /\ thread' = [thread EXCEPT ![w] = rec]
  BY <1>1, <1>2 DEF rec, In
<1> QED BY <1>2, <1>4, <1>6, <1>14, <1>15, OneThread

LEMMA JavaBatchInv ==
  ASSUME JavaInv, NEW w \in Threads, BatchWritten(w) \/ BatchFails(w) \/ BatchBegins(w)
  PROVE  JavaInv'
<1>0. /\ thread[w] \in ThreadStates /\ userRows \subseteq Int
      /\ thread[w].state # "none" => HasJob(loaderOpts, w) /\ WorkerCounts(w)
      /\ Cardinality(userRows \cap Handled(w)) \in Nat /\ Cardinality(Handled(w)) \in Nat
      /\ Cardinality(userRows \cap Whole(w)) \in Nat /\ Cardinality(Whole(w)) \in Nat
  BY ThreadFacts
<1> DEFINE batch == NextBatch(w)
           first == thread[w].next + loaderOpts.batch_size
           size == Cardinality(batch)
<1>1. /\ BatchDue(w) /\ In(w, "running") /\ thread[w].left = {} /\ UNCHANGED mainVars
      /\ thread[w].state # "none" /\ loaderOpts' = loaderOpts
  BY DEF BatchWritten, BatchFails, BatchBegins, BatchDue, mainVars, In
<1>2. /\ thread[w].next >= StartId(loaderOpts, w)
      /\ thread[w].total <= Cardinality(Handled(w))
      /\ thread[w].total - thread[w].failed <= Cardinality(userRows \cap Handled(w))
  BY <1>0, <1>1 DEF WorkerCounts, In
<1>3. thread[w].total \in Int /\ thread[w].failed \in Int /\ first \in Int
  BY <1>0, JavaOptionTypes DEF ThreadStates, JavaInv, JavaTypes
<1>4. thread'[w].next = first =>
        /\ IsFiniteSet(batch) /\ batch \subseteq Int /\ size \in Nat
        /\ Taken(w)' = Taken(w) \cup batch /\ Taken(w) \cap batch = {}
        /\ Handled(w) = Taken(w)
        /\ first >= StartId(loaderOpts, w)
  BY <1>1, BatchFollows, FS_CardinalityType
<1>5. StartId(loaderOpts, w)' = StartId(loaderOpts, w)
  BY <1>1
<1>6. CASE BatchBegins(w)
  <2> DEFINE rec == [thread[w] EXCEPT !.next = first, !.left = batch]
  <2>1. thread' = [thread EXCEPT ![w] = rec] /\ userRows' = userRows
    BY <1>6, <1>0 DEF BatchBegins, Took, ThreadStates
  <2>2. thread'[w] = rec /\ rec.next = first /\ rec.left = batch /\ rec.state = "running"
        /\ rec.total = thread[w].total /\ rec.failed = thread[w].failed
    BY <1>0, <1>1, <2>1 DEF ThreadStates, JavaInv, JavaTypes, In
  <2>3. rec \in ThreadStates
    BY <1>0, <1>3, <1>4, <2>2, RecordTypes
  <2> HIDE DEF rec, batch, first
  <2>4. Handled(w)' = Handled(w) /\ batch \subseteq Taken(w)'
    BY <1>4, <2>2 DEF Handled
  <2>5. (userRows \cap Handled(w))' = userRows \cap Handled(w)
    BY <2>1, <2>4
  <2>6. WorkerCounts(w)'
    BY <1>2, <1>4, <1>5, <2>2, <2>4, <2>5 DEF WorkerCounts, In
  <2> QED BY <1>0, <1>1, <2>1, <2>3, <2>6, OneThread
<1>7. CASE BatchWritten(w) \/ BatchFails(w)
  <2>1. PICK n \in {thread[w].failed, thread[w].failed + size} :
          /\ thread' = [thread EXCEPT ![w] = [thread[w] EXCEPT !.next = first,
                          !.total = thread[w].total + size, !.failed = n]]
          /\ userRows \subseteq userRows' /\ userRows' \subseteq userRows \cup batch
          /\ n = thread[w].failed + size \/ batch \subseteq userRows'
    <3>1. CASE BatchWritten(w)
      <4>1. thread' = [thread EXCEPT ![w] = [thread[w] EXCEPT !.next = first,
                         !.total = thread[w].total + size, !.failed = thread[w].failed]]
        BY <3>1, <1>0 DEF BatchWritten, Took, ThreadStates
      <4> QED BY <3>1, <4>1 DEF BatchWritten
    <3>2. CASE BatchFails(w)
      <4>1. thread' = [thread EXCEPT ![w] = [thread[w] EXCEPT !.next = first,
                         !.total = thread[w].total + size, !.failed = thread[w].failed + size]]
        BY <3>2, <1>0 DEF BatchFails, Took, ThreadStates, BatchFailures
      <4>2. userRows \subseteq userRows' /\ userRows' \subseteq userRows \cup batch
        BY <3>2 DEF BatchFails, Remnants
      <4> QED BY <4>1, <4>2
    <3> QED BY <1>7, <3>1, <3>2
  <2> DEFINE rec == [thread[w] EXCEPT !.next = first, !.total = thread[w].total + size, !.failed = n]
  <2>2. thread'[w] = rec /\ rec.next = first /\ rec.left = {} /\ rec.state = "running"
        /\ rec.total = thread[w].total + size /\ rec.failed = n
    BY <1>0, <1>1, <2>1 DEF ThreadStates, JavaInv, JavaTypes, In
  <2>3. /\ IsFiniteSet(batch) /\ batch \subseteq Int /\ size \in Nat
        /\ Taken(w)' = Taken(w) \cup batch /\ Taken(w) \cap batch = {}
        /\ Handled(w) = Taken(w) /\ first >= StartId(loaderOpts, w)
    BY <1>4, <2>2
  <2>4. rec \in ThreadStates
    <3>1. n \in Int /\ thread[w].total + size \in Int
      BY <1>3, <2>1, <2>3
    <3> QED BY <1>0, <1>3, <3>1, RecordTypes
  <2>5. userRows' \subseteq Int
    BY <1>0, <2>1, <2>3
  <2>6. thread' = [thread EXCEPT ![w] = rec] /\ userRows \subseteq userRows'
    BY <2>1
  <2> HIDE DEF rec
  <2>7. Handled(w)' = Handled(w) \cup batch /\ batch \cap Handled(w) = {}
    BY <2>2, <2>3 DEF Handled
  <2>8. /\ Cardinality(Handled(w))' = Cardinality(Handled(w)) + size
        /\ Cardinality(userRows \cap Handled(w))' \in Nat
        /\ Cardinality(userRows \cap Handled(w))' >= Cardinality(userRows \cap Handled(w))
        /\ batch \subseteq userRows' =>
             Cardinality(userRows \cap Handled(w))' >= Cardinality(userRows \cap Handled(w)) + size
    <3> HIDE DEF batch
    <3> QED BY <2>3, <2>6, <2>7, MoreHandled DEF JavaInv
  <2>9. rec.total - rec.failed <= Cardinality(userRows \cap Handled(w))'
    <3> DEFINE c == Cardinality(userRows \cap Handled(w))
               d == Cardinality(userRows \cap Handled(w))'
               t == thread[w].total
               m == thread[w].failed
    <3>1. c \in Nat /\ d \in Nat /\ d >= c /\ t - m <= c /\ t \in Int /\ m \in Int /\ size \in Nat
          /\ (n = m + size \/ (n = m /\ d >= c + size))
      BY <1>0, <1>2, <1>3, <2>1, <2>3, <2>8
    <3>2. rec.total = t + size /\ rec.failed = n
      BY <2>2
    <3> HIDE DEF c, d, t, m, size
    <3>3. rec.total - rec.failed <= d
      BY <3>1, <3>2
    <3> QED BY <3>3 DEF d
  <2>10. rec.total <= Cardinality(Handled(w))'
    <3> HIDE DEF size
    <3> QED BY <1>0, <1>2, <1>3, <2>2, <2>3, <2>8
  <2>11. WorkerCounts(w)'
    BY <1>5, <2>2, <2>3, <2>9, <2>10 DEF WorkerCounts, In
  <2> QED BY <1>1, <2>4, <2>5, <2>6, <2>11, OneThread
<1> QED BY <1>6, <1>7

-----------------------------------------------------------------------------
(* The steps of the main thread *)

LEMMA NothingCounted ==
  ASSUME NEW o \in JavaOptions, NEW rs
  PROVE  Cardinality(rs \cap Requested(o)) \in Nat
<1>1. IsFiniteSet(rs \cap Requested(o))
  BY RequestedFinite, FS_Intersection
<1> QED BY <1>1, FS_CardinalityType

LEMMA BeginInv ==
  ASSUME JavaInv,
         \/ \E o \in JavaOptions : LoaderStarts(o)
         \/ LoaderDrops \/ DropGoesWrong \/ LoaderSubmits
  PROVE  JavaInv'
<1>1. CASE (\E o \in JavaOptions : LoaderStarts(o)) \/ LoaderDrops \/ DropGoesWrong
  <2>1. /\ loader \in {"off", "drop"} /\ loader' \in {"drop", "schema"} /\ thread' = thread
        /\ gathered' = 0 /\ inserted' = 0 /\ failures' = 0 /\ userRows' \in {userRows, {}}
        /\ loaderOpts' \in JavaOptions
    BY <1>1 DEF LoaderStarts, LoaderDrops, DropGoesWrong, JavaInv, JavaTypes, PhaseInv
  <2>2. thread = NoThreads
    BY <2>1 DEF JavaInv, PhaseInv
  <2>3. PrintedRowsPresent'
    <3>1. Cardinality(userRows' \cap Requested(loaderOpts')) \in Nat
      BY <2>1, NothingCounted
    <3> QED BY <2>1, <3>1 DEF PrintedRowsPresent
  <2>4. JavaTypes' /\ PhaseInv'
    BY <2>1, <2>2 DEF JavaInv, JavaTypes, PhaseInv
  <2>5. CountsInv'
    BY <2>1, <2>2 DEF CountsInv, NoThreads, NoThread
  <2> QED BY <2>3, <2>4, <2>5 DEF JavaInv
<1>2. CASE LoaderSubmits
  <2>1. /\ loader = "schema" /\ loader' = "wait"
        /\ UNCHANGED <<userRows, loaderOpts, gathered, inserted, failures>>
    BY <1>2 DEF LoaderSubmits
  <2>2. PrintedRowsPresent' /\ PhaseInv'
    BY <2>1 DEF JavaInv, PrintedRowsPresent, PhaseInv
  <2>3. ASSUME NEW w \in Threads
        PROVE  /\ thread'[w] \in ThreadStates
               /\ thread'[w].state # "none" => HasJob(loaderOpts, w)
                    /\ thread'[w].next = StartId(loaderOpts, w) /\ thread'[w].left = {}
                    /\ thread'[w].total = 0 /\ thread'[w].failed = 0 /\ thread'[w].state = "queued"
    <3>1. StartId(loaderOpts, w) \in Int
      BY ShareEnds DEF JavaInv, JavaTypes
    <3>2. thread'[w] = IF HasJob(loaderOpts, w)
                       THEN [NoThread EXCEPT !.state = "queued", !.next = StartId(loaderOpts, w)]
                       ELSE NoThread
      BY <1>2 DEF LoaderSubmits
    <3>3. CASE HasJob(loaderOpts, w)
      <4>1. thread'[w] = [state |-> "queued", next |-> StartId(loaderOpts, w),
                          left |-> {}, total |-> 0, failed |-> 0]
        BY <3>2, <3>3 DEF NoThread
      <4>2. thread'[w] \in ThreadStates
        BY <3>1, <4>1 DEF ThreadStates
      <4> QED BY <3>3, <4>1, <4>2
    <3>4. CASE ~HasJob(loaderOpts, w)
      <4>1. thread'[w] = [state |-> "none", next |-> 0,
                          left |-> {}, total |-> 0, failed |-> 0]
        BY <3>2, <3>4 DEF NoThread
      <4>2. thread'[w] \in ThreadStates
        BY <4>1 DEF ThreadStates
      <4> QED BY <4>1, <4>2
    <3> QED BY <3>3, <3>4
  <2>4. JavaTypes'
    <3>1. thread' \in [Threads -> ThreadStates]
      BY <1>2, <2>3 DEF LoaderSubmits
    <3> QED BY <2>1, <3>1 DEF JavaInv, JavaTypes
  <2>5. CountsInv'
    BY <2>1, <2>3 DEF CountsInv, WorkerCounts, In
  <2> QED BY <2>2, <2>4, <2>5 DEF JavaInv
<1> QED BY <1>1, <1>2

LEMMA WaitInv ==
  ASSUME JavaInv, AllEnded \/ MainTimesOut
  PROVE  JavaInv'
<1>1. /\ loader = "wait" /\ UNCHANGED <<userRows, loaderOpts, thread, gathered, inserted>>
      /\ gathered = 0 /\ inserted = 0 /\ failures = 0
      /\ \/ loader' = "report" /\ failures' = loaderOpts.row_count
         \/ loader' = "gather" /\ failures' = 0
  BY JavaOptionTypes DEF AllEnded, MainTimesOut, JavaInv, PhaseInv, JavaTypes
<1>2. loaderOpts.row_count \in Nat /\ MaxThreads \in Nat
  BY JavaOptionTypes DEF JavaInv, JavaTypes
<1>3. JavaTypes' /\ CountsInv'
  <2>1. JavaTypes'
    BY <1>1, <1>2 DEF JavaInv, JavaTypes
  <2>2. \A w \in Threads : WorkerCounts(w)' = WorkerCounts(w)
    BY <1>1 DEF WorkerCounts, Handled, Taken, Whole, In
  <2> QED BY <1>1, <2>1, <2>2 DEF JavaInv, CountsInv
<1>4. PrintedRowsPresent'
  <2>1. Cardinality(userRows \cap Requested(loaderOpts)) \in Nat
    BY NothingCounted DEF JavaInv, JavaTypes
  <2> QED BY <1>1, <1>2, <2>1 DEF PrintedRowsPresent
<1>5. PhaseInv'
  <2>1. Cardinality(userRows \cap Gathered) \in Nat
    <3>1. gathered \in 0 .. MaxThreads
      BY <1>1, <1>2
    <3>2. IsFiniteSet(userRows \cap Gathered)
      BY <3>1, IdsFinite, FS_Intersection DEF JavaInv
    <3> QED BY <3>2, FS_CardinalityType
  <2>2. Gathered' = Gathered
    BY <1>1 DEF Gathered
  <2> QED BY <1>1, <1>2, <2>1, <2>2 DEF PhaseInv
<1> QED BY <1>3, <1>4, <1>5 DEF JavaInv

LEMMA GatherInv ==
  ASSUME JavaInv, NEW w \in Threads, Gather(w) \/ Unreachable(w)
  PROVE  JavaInv'
<1> DEFINE first == loaderOpts.offset + 1
           was == first .. Reach(loaderOpts, w)
           is == first .. Reach(loaderOpts, w + 1)
<1>1. /\ loader = "gather" /\ loader' = "gather" /\ gathered = w /\ gathered' = w + 1
      /\ UNCHANGED <<userRows, loaderOpts, thread>>
  BY DEF Gather, Unreachable
<1>2. w \in Nat /\ w + 1 \in Nat /\ w + 1 <= MaxThreads /\ loaderOpts \in JavaOptions
  BY JavaAssumption DEF Threads, JavaInv, JavaTypes
<1>3. /\ Reach(loaderOpts, w) \in Int /\ Reach(loaderOpts, w + 1) \in Int
      /\ Reach(loaderOpts, w) <= Reach(loaderOpts, w + 1) /\ first \in Int
  BY <1>2, ShareEnds, JavaOptionTypes
<1>4. /\ IsFiniteSet(is) /\ is \subseteq Requested(loaderOpts) /\ was \subseteq is
      /\ IsFiniteSet(was)
  <2>1. was \subseteq is
    <3> HIDE DEF first
    <3> QED BY <1>3
  <2> QED BY <1>2, <2>1, SharesFinite
<1>5. inserted - failures <= Cardinality(userRows \cap was)
  BY <1>1 DEF JavaInv, PhaseInv, Gathered
<1>6. inserted \in Int /\ failures \in Int
  BY DEF JavaInv, JavaTypes
<1> DEFINE had == userRows \cap was
           has == userRows \cap is
           all == userRows \cap Requested(loaderOpts)
<1>7. /\ IsFiniteSet(had) /\ Cardinality(had) \in Nat /\ Cardinality(has) \in Nat
      /\ Cardinality(all) \in Nat /\ IsFiniteSet(has)
      /\ Cardinality(had) <= Cardinality(has) /\ Cardinality(has) <= Cardinality(all)
  <2>1. IsFiniteSet(Requested(loaderOpts))
    BY <1>2, RequestedFinite
  <2>2. IsFiniteSet(all)
    BY <2>1, FS_Intersection
  <2>3. had \subseteq has /\ has \subseteq all
    BY <1>4
  <2> HIDE DEF had, has, all
  <2>4. IsFiniteSet(has)
    BY <2>2, <2>3, LargerSets
  <2> QED BY <2>2, <2>3, <2>4, LargerSets
<1>8. inserted' \in Int /\ failures' \in Int /\ inserted' - failures' <= Cardinality(has)
  <2>1. CASE Unreachable(w)
    <3>1. inserted' = inserted /\ failures' = failures
      BY <2>1 DEF Unreachable
    <3> HIDE DEF had, has
    <3>2. inserted - failures <= Cardinality(had)
      BY <1>5 DEF had
    <3> QED BY <1>6, <1>7, <3>1, <3>2
  <2>2. CASE Gather(w)
    <3> DEFINE t == thread[w].total
               m == thread[w].failed
               own == userRows \cap Whole(w)
    <3>1. inserted' = inserted + t /\ failures' = failures + m /\ In(w, "done")
      BY <2>2 DEF Gather, In
    <3>2. t \in Int /\ m \in Int /\ HasJob(loaderOpts, w) /\ t - m <= Cardinality(own)
      <4>1. thread[w].state # "none"
        BY <3>1 DEF In
      <4>2. WorkerCounts(w) /\ HasJob(loaderOpts, w) /\ thread[w] \in ThreadStates
        BY <4>1, ThreadFacts
      <4> QED BY <3>1, <4>2 DEF WorkerCounts, ThreadStates
    <3>3. StartId(loaderOpts, w) = Reach(loaderOpts, w) + 1 /\ first <= StartId(loaderOpts, w)
          /\ EndId(loaderOpts, w) = Reach(loaderOpts, w + 1)
      BY <1>2, <3>2, ShareEnds
    <3>4. own \cap had = {} /\ own \cup had \subseteq has
      <4> HIDE DEF first
      <4> QED BY <1>3, <3>3 DEF Whole
    <3>5. IsFiniteSet(own)
      BY IdsFinite, FS_Intersection DEF JavaInv
    <3> HIDE DEF own, had, has, t, m
    <3>6. Cardinality(own \cup had) = Cardinality(own) + Cardinality(had)
          /\ Cardinality(own) \in Nat
      BY <1>7, <3>4, <3>5, DisjointSets
    <3>7. Cardinality(own \cup had) <= Cardinality(has)
      BY <1>7, <3>4, LargerSets
    <3>8. inserted - failures <= Cardinality(had)
      BY <1>5 DEF had
    <3> QED BY <1>6, <1>7, <3>1, <3>2, <3>6, <3>7, <3>8
  <2> QED BY <2>1, <2>2
<1>9. PrintedRowsPresent'
  <2>1. PrintedRowsPresent' <=> inserted' - failures' <= Cardinality(all)
    BY <1>1 DEF PrintedRowsPresent
  <2> HIDE DEF all, has, had
  <2> QED BY <1>7, <1>8, <2>1
<1>10. PhaseInv'
  <2>1. Gathered' = is
    BY <1>1 DEF Gathered
  <2> QED BY <1>1, <1>2, <1>8, <2>1 DEF PhaseInv
<1>11. JavaTypes' /\ CountsInv'
  <2>1. JavaTypes'
    BY <1>1, <1>2, <1>8 DEF JavaInv, JavaTypes
  <2>2. \A v \in Threads : WorkerCounts(v)' = WorkerCounts(v)
    BY <1>1 DEF WorkerCounts, Handled, Taken, Whole, In
  <2> QED BY <1>1, <2>1, <2>2 DEF JavaInv, CountsInv
<1> QED BY <1>9, <1>10, <1>11 DEF JavaInv

LEMMA EndInv ==
  ASSUME JavaInv, LoaderEnds \/ LoaderDies
  PROVE  JavaInv'
<1>1. loader' = "off" /\ thread' = NoThreads
      /\ UNCHANGED <<userRows, loaderOpts, gathered, inserted, failures>>
  BY DEF LoaderEnds, LoaderDies
<1>2. JavaTypes'
  BY <1>1 DEF JavaInv, JavaTypes, NoThreads, NoThread, ThreadStates
<1>3. CountsInv' /\ PhaseInv' /\ PrintedRowsPresent'
  BY <1>1 DEF JavaInv, CountsInv, PhaseInv, PrintedRowsPresent, NoThreads, NoThread
<1> QED BY <1>2, <1>3 DEF JavaInv

LEMMA JavaNext == JavaInv /\ [Next]_vars => JavaInv'
<1> SUFFICES ASSUME JavaInv, [Next]_vars PROVE JavaInv'
  OBVIOUS
<1>1. CASE LoaderStep
  BY <1>1, BeginInv, WaitInv, GatherInv, EndInv DEF LoaderStep
<1>2. ASSUME NEW w \in Threads, ThreadStep(w) PROVE JavaInv'
  BY <1>2, StartInv, BreakInv, JavaBatchInv, RowInv DEF ThreadStep
<1>3. CASE UNCHANGED loaderVars
  <2>1. /\ UNCHANGED <<userRows, loader, loaderOpts, thread, gathered, inserted, failures>>
    BY <1>3 DEF loaderVars
  <2>2. \A w \in Threads : WorkerCounts(w)' = WorkerCounts(w)
    BY <2>1 DEF WorkerCounts, Handled, Taken, Whole, In
  <2>3. Gathered' = Gathered
    BY <2>1 DEF Gathered
  <2> QED BY <2>1, <2>2, <2>3 DEF JavaInv, JavaTypes, CountsInv, PhaseInv, PrintedRowsPresent
<1> QED BY <1>1, <1>2, <1>3 DEF Next, OnUserIds, OnCqlUsers, OnVnodes, OnJavaUsers, JavaStep, vars

\* Of the rows a run of the Java loader was asked for, at least as many are in the table
\* as it prints inserted less failed: for every number of rows, threads and batches, in
\* every mode, whatever requests fail and threads break off, throw or are too late.
THEOREM PrintedRowsArePresent == Spec => []PrintedRowsPresent
<1>1. Init => JavaInv
  <2> SUFFICES ASSUME Init PROVE JavaInv
    OBVIOUS
  <2>1. /\ userRows = {} /\ loader = "off" /\ loaderOpts \in JavaOptions /\ thread = NoThreads
        /\ gathered = 0 /\ inserted = 0 /\ failures = 0
    BY JavaAssumption DEF Init, JavaInit
  <2>2. JavaTypes
    BY <2>1 DEF JavaTypes, NoThreads, NoThread, ThreadStates
  <2>3. CountsInv /\ PhaseInv
    BY <2>1 DEF CountsInv, PhaseInv, NoThreads, NoThread
  <2>4. PrintedRowsPresent
    <3>1. Cardinality(userRows \cap Requested(loaderOpts)) \in Nat
      BY <2>1, NothingCounted
    <3> QED BY <2>1, <3>1 DEF PrintedRowsPresent
  <2> QED BY <2>2, <2>3, <2>4 DEF JavaInv
<1>2. JavaInv => PrintedRowsPresent
  BY DEF JavaInv
<1> QED BY <1>1, <1>2, JavaNext, PTL DEF Spec
=============================================================================

----------------------------- MODULE UserIdTable -----------------------------
(***************************************************************************)
(* The Alternator table "userid": src/sample_app/alternator-client/        *)
(* alternator-faker.py fills it (any number of copies at once), cleanup_   *)
(* userid_mt.py thins it out to the latest item of each user with a pool   *)
(* of threads over ranges of tokens, and cql-alternator-faker.py does not  *)
(* get further than deleting it.  An item is its user and LastUpdated.     *)
(* The result of a range's scan is one page here, as it is up to           *)
(* --batch_size rows.                                                      *)
(***************************************************************************)
EXTENDS DemoClock, FiniteSets

CONSTANTS
  Fakers,         \* copies of alternator-faker.py
  FakerOptions,   \* of each copy: the command lines it is run with
  BatchSize,      \* batch_size, 1000 in the code
  Users,          \* the numbers in the user ids
  Token,          \* of each user
  MinToken,       \* -2**63
  MaxToken,       \* 2**63 - 1
  TokenStep,      \* --token-step
  Parallelism,    \* --parallelism
  MaxRuns,        \* bound: runs of alternator-faker.py
  MaxCleanups,    \* bound: runs of cleanup_userid_mt.py
  NoUser

\* parse_args.
FakerArgs == [first : Users, count : Nat \ {0}, conditional : BOOLEAN, range : BOOLEAN,
              delete : BOOLEAN]

Commands == UNION {FakerOptions[f] : f \in Fakers}

ASSUME FakerAssumption ==
  /\ FakerOptions \in [Fakers -> SUBSET FakerArgs]
  /\ Commands # {}
  /\ \A o \in Commands : o.first .. o.first + o.count - 1 \subseteq Users
  /\ Users \subseteq Int /\ NoUser \notin Users
  /\ BatchSize \in Nat \ {0} /\ MaxRuns \in Nat
ASSUME TokenAssumption ==
  /\ MinToken \in Int /\ MaxToken \in Int /\ TokenStep \in Nat
  /\ Token \in [Users -> MinToken .. MaxToken]
  /\ Parallelism \in Nat \ {0} /\ MaxCleanups \in Nat

VARIABLES
  table,          \* "none", or by its key: "hash" or "range"
  items,          \* in it
  counted,        \* history: users that runs counted as inserted into this table
  faker,          \* of each copy: what it does next, and with what
  since,          \* history, of each copy: the first user of its batch put into this table
  runs,           \* so far
  scan,           \* of each range of the clean-up
  cleaning,       \* the clean-up is running
  outcome,        \* how the last one ended
  quiet,          \* history: nothing was written, dropped or skipped since it started
  overtaken,      \* history: this table replaced one that a clean-up was at work on
  cleanups        \* so far

tableVars == <<table, items, counted>>
fakerVars == <<faker, runs>>
cleanVars == <<scan, cleaning, outcome, cleanups>>
userVars == <<tableVars, fakerVars, since, cleanVars, quiet, overtaken>>

ItemsOf(u) == {i \in items : i.user = u}

\* delete_table.
DropTable ==
  /\ table' = "none"
  /\ items' = {}
  /\ counted' = {}
  /\ quiet' = FALSE
  /\ overtaken' = cleaning
  /\ since' = [f \in Fakers |-> faker[f].next]

-----------------------------------------------------------------------------
(* alternator-faker.py *)

Idle == [pc |-> "off", opts |-> CHOOSE o \in Commands : TRUE, stamp |-> 0, asOf |-> 0,
         next |-> 0, end |-> -1]
At(f, label) == faker[f].pc = label
Last(f) == faker[f].opts.first + faker[f].opts.count - 1
Goto(f, label) == faker' = [faker EXCEPT ![f].pc = label]

FakerStarts(f, o) ==
  /\ At(f, "off")
  /\ runs < MaxRuns
  /\ runs' = runs + 1
  /\ faker' = [faker EXCEPT ![f] =
       [Idle EXCEPT !.pc = IF o.delete THEN "delete" ELSE "create", !.opts = o,
                    !.next = o.first]]
  /\ UNCHANGED <<clockVars, tableVars, since, cleanVars, quiet, overtaken>>

\* That there is no table to delete is no error.
FakerDeletes(f) ==
  /\ At(f, "delete")
  /\ DropTable
  /\ Goto(f, "create")
  /\ UNCHANGED <<clockVars, runs, cleanVars>>

\* An existing table is used whatever its key is.  All users are generated at once
\* and get the same LastUpdated.
FakerCreates(f) ==
  /\ At(f, "create")
  /\ table' = IF table # "none" THEN table
              ELSE IF faker[f].opts.range THEN "range" ELSE "hash"
  /\ faker' = [faker EXCEPT ![f].pc = "batch", ![f].stamp = now]
  /\ UNCHANGED <<clockVars, items, counted, runs, since, cleanVars, quiet, overtaken>>

FakerTakesBatch(f) ==
  /\ At(f, "batch")
  /\ IF faker[f].next <= Last(f)
     THEN faker' = [faker EXCEPT ![f].pc = "put", ![f].asOf = now,
                                 ![f].end = Lesser(faker[f].next + BatchSize - 1, Last(f))]
     ELSE faker' = [faker EXCEPT ![f] = Idle]
  /\ since' = [since EXCEPT ![f] = faker'[f].next]
  /\ UNCHANGED <<clockVars, tableVars, runs, cleanVars, quiet, overtaken>>

Remaining(f) == faker[f].next <= faker[f].end
\* What a put of the user would replace: the item with the same key.
SameKey(f, u) == {i \in ItemsOf(u) : table = "range" => i.at = faker[f].stamp}
\* attribute_not_exists(UserID) OR LastUpdated < :now.
Passes(f, u) == \A i \in SameKey(f, u) : i.at < faker[f].asOf

\* put_item with nothing to check, or with its check passed.
FakerPuts(f) ==
  /\ table # "none"
  /\ \/ At(f, "put") /\ Remaining(f) /\ ~faker[f].opts.conditional
     \/ At(f, "write")
  /\ LET u == faker[f].next IN
       items' = (items \ SameKey(f, u)) \cup {[user |-> u, at |-> faker[f].stamp]}
  /\ faker' = [faker EXCEPT ![f].pc = "put", ![f].next = @ + 1]
  /\ quiet' = FALSE
  /\ UNCHANGED <<clockVars, table, counted, runs, since, cleanVars, overtaken>>

\* Mutant: a condition that fails ends the batch.
FakerChecksUntilFailure(f) ==
  /\ table # "none"
  /\ At(f, "put") /\ Remaining(f) /\ faker[f].opts.conditional
  /\ IF Passes(f, faker[f].next) THEN Goto(f, "write")
     ELSE faker' = [faker EXCEPT ![f].next = faker[f].end + 1]
  /\ UNCHANGED <<clockVars, tableVars, runs, since, cleanVars, quiet, overtaken>>

\* The check of a conditional put: in the isolation mode "unsafe" the item is read,
\* and written afterwards.
FakerChecks(f) ==
  /\ table # "none"
  /\ At(f, "put") /\ Remaining(f) /\ faker[f].opts.conditional
  /\ IF Passes(f, faker[f].next) THEN Goto(f, "write")
     ELSE faker' = [faker EXCEPT ![f].next = @ + 1]
  /\ UNCHANGED <<clockVars, tableVars, runs, since, cleanVars, quiet, overtaken>>

\* All of the batch counts as inserted, what the condition skipped as well.
FakerCounts(f) ==
  /\ At(f, "put") /\ ~Remaining(f)
  /\ counted' = counted \cup since[f] .. faker[f].end
  /\ Goto(f, "batch")
  /\ UNCHANGED <<clockVars, table, items, runs, since, cleanVars, quiet, overtaken>>

\* A request fails, as every put does when the table is gone; or the tool is killed.
FakerDies(f) ==
  /\ ~At(f, "off")
  /\ IF table = "none" /\ (At(f, "write") \/ (At(f, "put") /\ Remaining(f)))
     THEN UNCHANGED clockVars ELSE Fault
  /\ faker' = [faker EXCEPT ![f] = Idle]
  /\ since' = [since EXCEPT ![f] = 0]
  /\ UNCHANGED <<tableVars, runs, cleanVars, quiet, overtaken>>

FakerStep(f) ==
  \/ \E o \in FakerOptions[f] : FakerStarts(f, o)
  \/ FakerDeletes(f) \/ FakerCreates(f) \/ FakerTakesBatch(f)
  \/ FakerPuts(f) \/ FakerChecks(f) \/ FakerCounts(f) \/ FakerDies(f)

\* cql-alternator-faker.py -d: the table is deleted, and then the tool dies of its own
\* message, which asks for an option --range that it does not have.
CqlAlternatorFaker ==
  /\ Fault
  /\ DropTable
  /\ UNCHANGED <<faker, runs, cleanVars>>

-----------------------------------------------------------------------------
(* cleanup_userid_mt.py *)

\* Mutant: the end of a range is exclusive, as in Python's own ranges.
RangesShort == {[from |-> s, to |-> Lesser(s + TokenStep - 1, MaxToken)] :
                  s \in {t \in MinToken .. MaxToken : (t - MinToken) % (TokenStep + 1) = 0}}
\* get_token_ranges: the next range starts one after the end of the last.
Ranges == {[from |-> s, to |-> Lesser(s + TokenStep, MaxToken)] :
             s \in {t \in MinToken .. MaxToken : (t - MinToken) % (TokenStep + 1) = 0}}

\* TOKEN("UserID") > from AND TOKEN("UserID") <= to.
Selects(r, u) == r.from < Token[u] /\ Token[u] <= r.to
\* The users with the token a range starts from: it does not select them, and the range
\* before has ended one earlier.
Boundary == {u \in Users : (Token[u] - MinToken) % (TokenStep + 1) = 0}

Queued == [state |-> "queued", todo |-> {}, user |-> NoUser, newest |-> 0]

CleanupStarts ==
  /\ ~cleaning
  /\ cleanups < MaxCleanups
  /\ cleanups' = cleanups + 1
  /\ cleaning' = TRUE
  /\ scan' = [r \in Ranges |-> Queued]
  /\ outcome' = "none"
  /\ quiet' = TRUE
  /\ UNCHANGED <<clockVars, tableVars, fakerVars, since, overtaken>>

InState(state) == {r \in Ranges : scan[r].state = state}

\* Mutant: a thread whose range failed takes no other.
ThreadFreeOnce == cleaning /\ Cardinality(InState("scanning") \cup InState("failed")) < Parallelism
\* Mutant: a thread for every range.
ThreadAlways == cleaning
ThreadFree == cleaning /\ Cardinality(InState("scanning")) < Parallelism

\* A thread connects, prepares its statements and reads the users of the range.
ScanRange(r) ==
  /\ ThreadFree
  /\ scan[r].state = "queued"
  /\ table = "range"
  /\ scan' = [scan EXCEPT ![r].state = "scanning",
                          ![r].todo = {i.user : i \in {j \in items : Selects(r, j.user)}}]
  /\ UNCHANGED <<clockVars, tableVars, fakerVars, since, cleaning, outcome, cleanups, quiet,
                 overtaken>>

\* Or raises: there is no table, it has no column LastUpdated, or a request fails.
RangeFails(r) ==
  /\ ThreadFree
  /\ scan[r].state = "queued"
  /\ IF table # "range" THEN UNCHANGED clockVars ELSE Fault
  /\ scan' = [scan EXCEPT ![r].state = "failed"]
  /\ UNCHANGED <<tableVars, fakerVars, since, cleaning, outcome, cleanups, quiet, overtaken>>

Scanning(r) == cleaning /\ scan[r].state = "scanning"
Newest(u) == CHOOSE t \in {i.at : i \in ItemsOf(u)} : \A i \in ItemsOf(u) : i.at <= t

\* SELECT MAX("LastUpdated"); a user without items is passed over.
ReadNewest(r) ==
  /\ Scanning(r)
  /\ scan[r].user = NoUser
  /\ table = "range"
  /\ \E u \in scan[r].todo :
       IF ItemsOf(u) = {}
       THEN scan' = [scan EXCEPT ![r].todo = @ \ {u}]
       ELSE scan' = [scan EXCEPT ![r].user = u, ![r].newest = Newest(u)]
  /\ UNCHANGED <<clockVars, tableVars, fakerVars, since, cleaning, outcome, cleanups, quiet,
                 overtaken>>

\* Mutant: "LastUpdated" <= ?.
NotAfter(r) == {i \in ItemsOf(scan[r].user) : i.at <= scan[r].newest}
\* "UserID" = ? AND "LastUpdated" < ?.
Older(r) == {i \in ItemsOf(scan[r].user) : i.at < scan[r].newest}

DeleteOlder(r) ==
  /\ Scanning(r)
  /\ scan[r].user # NoUser
  /\ table = "range"
  /\ items' = items \ Older(r)
  /\ scan' = [scan EXCEPT ![r].todo = @ \ {scan[r].user}, ![r].user = NoUser, ![r].newest = 0]
  /\ UNCHANGED <<clockVars, table, counted, fakerVars, since, cleaning, outcome, cleanups, quiet,
                 overtaken>>

\* A request for one user fails: a line is printed and the next user taken.
UserFails(r) ==
  /\ Scanning(r)
  /\ IF table # "range" THEN UNCHANGED clockVars ELSE Fault
  /\ \E u \in scan[r].todo :
       /\ scan[r].user \in {NoUser, u}
       /\ scan' = [scan EXCEPT ![r].todo = @ \ {u}, ![r].user = NoUser, ![r].newest = 0]
  /\ quiet' = FALSE
  /\ UNCHANGED <<tableVars, fakerVars, since, cleaning, outcome, cleanups, overtaken>>

RangeDone(r) ==
  /\ Scanning(r)
  /\ scan[r].todo = {}
  /\ scan' = [scan EXCEPT ![r].state = "done"]
  /\ UNCHANGED <<clockVars, tableVars, fakerVars, since, cleaning, outcome, cleanups, quiet,
                 overtaken>>

EndCleanup(result) ==
  /\ cleaning' = FALSE
  /\ outcome' = result
  /\ scan' = [r \in Ranges |-> Queued]
  /\ UNCHANGED <<tableVars, fakerVars, since, cleanups, quiet, overtaken>>

\* future.result() raises what a range raised, but only after all others are through:
\* leaving the executor waits for them.
CleanupEnds ==
  /\ cleaning
  /\ InState("done") \cup InState("failed") = Ranges
  /\ EndCleanup(IF InState("failed") = {} THEN "finished" ELSE "failed")
  /\ UNCHANGED clockVars

CleanupKilled == cleaning /\ Fault /\ EndCleanup("killed")

RangeStep(r) == ScanRange(r) \/ RangeFails(r) \/ ReadNewest(r) \/ DeleteOlder(r) \/ UserFails(r)
                \/ RangeDone(r)
CleanupStep == (\E r \in Ranges : RangeStep(r)) \/ CleanupEnds

-----------------------------------------------------------------------------
UserIdInit ==
  /\ table = "none"
  /\ items = {}
  /\ counted = {}
  /\ faker = [f \in Fakers |-> Idle]
  /\ runs = 0
  /\ since = [f \in Fakers |-> 0]
  /\ scan = [r \in Ranges |-> Queued]
  /\ cleaning = FALSE
  /\ outcome = "none"
  /\ quiet = FALSE
  /\ overtaken = FALSE
  /\ cleanups = 0

UserIdStep ==
  \/ \E f \in Fakers : FakerStep(f)
  \/ CqlAlternatorFaker
  \/ CleanupStarts
  \/ CleanupStep
  \/ CleanupKilled

-----------------------------------------------------------------------------
Labels == {"off", "delete", "create", "batch", "put", "write"}
Times == 0 .. MaxTime
\* Types of the table, its fillers and the clean-up; no more ranges in work than threads.
UserIdTypeOK ==
  /\ table \in {"none", "hash", "range"}
  /\ items \subseteq [user : Users, at : Times]
  /\ counted \subseteq Users
  /\ faker \in [Fakers -> [pc : Labels, opts : Commands, stamp : Times, asOf : Times,
                           next : Int, end : Int]]
  /\ runs \in 0 .. MaxRuns
  /\ since \in [Fakers -> Int]
  /\ scan \in [Ranges -> [state : {"queued", "scanning", "done", "failed"}, todo : SUBSET Users,
                          user : Users \cup {NoUser}, newest : Times]]
  /\ Cardinality(InState("scanning")) <= Parallelism
  /\ cleaning \in BOOLEAN
  /\ outcome \in {"none", "finished", "failed", "killed"}
  /\ quiet \in BOOLEAN
  /\ overtaken \in BOOLEAN
  /\ cleanups \in 0 .. MaxCleanups

\* Whatever a filler counts as inserted is in the table: a condition that fails means
\* that there is an item, and the clean-up leaves every user one.  Except in a table
\* made anew under a running clean-up, which compares with the old one's LastUpdated.
CountedUsersPresent == ~overtaken => \A u \in counted : ItemsOf(u) # {}

\* In a table with the range key no step makes a user's latest item older, although the
\* clean-up deletes by a maximum it read earlier and the fillers go on writing.
LatestSurvives ==
  [][table = "range" /\ table' = "range" /\ ~overtaken =>
       \A i \in items : \E j \in items' : j.user = i.user /\ j.at >= i.at]_<<userVars, clockVars>>

\* A clean-up that ends with exit status 0, with nobody writing and no user skipped for
\* an error, leaves one item of every user, but for the users whose token is the start
\* of a range: those no range selects.
CleanupComplete ==
  outcome = "finished" /\ quiet => \A u \in Users \ Boundary : Cardinality(ItemsOf(u)) <= 1

\* A clean-up always ends, whatever becomes of the table and of single ranges.
CleanupTerminates == cleaning ~> ~cleaning
=============================================================================

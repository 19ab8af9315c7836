-------------------------- MODULE UserIdTable_proofs --------------------------
(***************************************************************************)
(* What the tools around the Alternator table "userid" leave in it, for    *)
(* every number of users, copies of the filler, ranges and threads, every  *)
(* assignment of tokens to users and every bound on runs and on what goes  *)
(* wrong.                                                                  *)
(***************************************************************************)
EXTENDS DemoTables, FiniteSetTheorems, WellFoundedInduction, TLAPS

-----------------------------------------------------------------------------
(* The ranges of tokens *)

\* A multiple leaves no remainder.
LEMMA Multiples ==
  ASSUME NEW k \in Nat \ {0}, NEW q \in Nat
  PROVE  (k * q) % k = 0
<1> DEFINE x == k * q
           d == x \div k
           m == x % k
<1>1. x \in Nat
  OBVIOUS
<1>2. d \in Int /\ m \in 0 .. k - 1 /\ x = k * d + m
  <2> HIDE DEF x
  <2> QED BY <1>1
<1>3. m = k * (q - d)
  <2> HIDE DEF d, m
  <2> QED BY <1>2
<1>4. q - d = 0
  <2> DEFINE e == q - d
  <2>1. e \in Int
    BY <1>2
  <2> HIDE DEF e, m
  <2>2. m = k * e /\ 0 <= m /\ m < k
    BY <1>2, <1>3 DEF e
  <2>3. e >= 1 => k * e >= k
    BY <2>1
  <2>4. e <= -1 => k * e <= -k
    BY <2>1
  <2>5. e = 0
    BY <2>1, <2>2, <2>3, <2>4
  <2> QED BY <2>5 DEF e
<1>5. m = 0
  BY <1>3, <1>4
<1> QED BY <1>5

LEMMA NoRemainder ==
  ASSUME NEW k \in Nat \ {0}, NEW x \in Nat, x % k = 0
  PROVE  x \div k \in Int /\ x = k * (x \div k)
<1> DEFINE d == x \div k
           m == x % k
           q == k * d
<1>1. d \in Int /\ m \in 0 .. k - 1 /\ x = k * d + m
  OBVIOUS
<1> HIDE DEF m, d
<1>2. q \in Int
  BY <1>1
<1> HIDE DEF q
<1>3. x = q + m /\ m = 0
  BY <1>1 DEF q, m
<1>4. x = q
  BY <1>2, <1>3
<1> QED BY <1>1, <1>4 DEF q, d

Starts == {t \in MinToken .. MaxToken : (t - MinToken) % (TokenStep + 1) = 0}

\* Every user but those at the start of a range is selected by one.
LEMMA RangesCover ==
  ASSUME NEW u \in Users \ Boundary
  PROVE  \E r \in Ranges : Selects(r, u)
<1> DEFINE k == TokenStep + 1
           x == Token[u] - MinToken
           m == x % k
           s == Token[u] - m
           r == [from |-> s, to |-> Lesser(s + TokenStep, MaxToken)]
<1>1. /\ MinToken \in Int /\ MaxToken \in Int /\ Token[u] \in Int /\ k \in Nat \ {0}
      /\ MinToken <= Token[u] /\ Token[u] <= MaxToken /\ TokenStep \in Nat
  BY TokenAssumption
<1>2. m # 0
  BY DEF Boundary
<1>3. /\ m \in 1 .. TokenStep /\ s - MinToken \in Nat
      /\ (s - MinToken) % k = 0
  <2>1. x \in Nat
    BY <1>1
  <2>2. m \in 0 .. k - 1 /\ x \div k \in Nat /\ x = k * (x \div k) + m
    <3> HIDE DEF x, k
    <3> QED BY <1>1, <2>1
  <2>3. s - MinToken = x - m
    BY <1>1, <2>2
  <2>4. x - m = k * (x \div k)
    <3> DEFINE q == k * (x \div k)
    <3>1. q \in Int
      <4> HIDE DEF k, x
      <4> QED BY <1>1, <2>2
    <3> HIDE DEF q, m, x, k
    <3> QED BY <2>1, <2>2, <3>1 DEF q
  <2>5. (k * (x \div k)) % k = 0 /\ k * (x \div k) \in Nat
    <3> HIDE DEF x, k
    <3> QED BY <1>1, <2>2, Multiples
  <2> QED BY <1>1, <1>2, <2>2, <2>3, <2>4, <2>5
<1>4. s \in Starts
  <2> HIDE DEF m
  <2> QED BY <1>1, <1>3 DEF Starts
<1>5. r \in Ranges
  BY <1>4 DEF Ranges, Starts
<1>6. Selects(r, u)
  <2> HIDE DEF m
  <2> QED BY <1>1, <1>3 DEF Selects, Lesser
<1> QED BY <1>5, <1>6

\* No multiple of k lies strictly between two that follow each other.
LEMMA NoMultipleBetween ==
  ASSUME NEW k \in Nat \ {0}, NEW e \in Int
  PROVE  /\ ~(0 < k * e /\ k * e < k)
         /\ -k < k * e /\ k * e < k => e = 0
<1>1. e >= 1 => k * e >= k
  OBVIOUS
<1>2. e <= -1 => k * e <= -k
  OBVIOUS
<1>3. e = 0 => k * e = 0
  OBVIOUS
<1> DEFINE m == k * e
<1>4. m \in Int
  OBVIOUS
<1> HIDE DEF m
<1>5. (e >= 1 => m >= k) /\ (e <= -1 => m <= -k) /\ (e = 0 => m = 0)
  BY <1>1, <1>2, <1>3 DEF m
<1>6. ~(0 < m /\ m < k) /\ (-k < m /\ m < k => e = 0)
  BY <1>4, <1>5
<1> QED BY <1>6 DEF m

\* A range starts at a multiple of its width.
LEMMA RangeShape ==
  ASSUME NEW r \in Ranges
  PROVE  /\ r.from \in Int /\ r.to = Lesser(r.from + TokenStep, MaxToken)
         /\ r = [from |-> r.from, to |-> r.to]
         /\ \E a \in Int : r.from = MinToken + (TokenStep + 1) * a
<1> DEFINE k == TokenStep + 1
<1>1. PICK s \in MinToken .. MaxToken :
         (s - MinToken) % k = 0 /\ r = [from |-> s, to |-> Lesser(s + TokenStep, MaxToken)]
  BY DEF Ranges
<1> DEFINE x == s - MinToken
<1>2. s \in Int /\ MinToken \in Int /\ x \in Nat /\ k \in Nat \ {0}
  BY <1>1, TokenAssumption
<1>3. x \div k \in Int /\ x = k * (x \div k)
  <2>1. x % k = 0
    BY <1>1
  <2> HIDE DEF k, x
  <2> QED BY <1>2, <2>1, NoRemainder
<1>4. s = MinToken + x
  BY <1>2
<1> QED BY <1>1, <1>2, <1>3, <1>4

\* Two ranges that select the same user are one.
LEMMA RangesDisjoint ==
  ASSUME NEW r \in Ranges, NEW p \in Ranges, NEW u \in Users, Selects(r, u), Selects(p, u)
  PROVE  p = r
<1> DEFINE k == TokenStep + 1
<1>1. PICK a \in Int, b \in Int : r.from = MinToken + k * a /\ p.from = MinToken + k * b
  BY RangeShape
<1>2. /\ k \in Nat \ {0} /\ k = TokenStep + 1 /\ Token[u] \in Int /\ MinToken \in Int
      /\ MaxToken \in Int /\ TokenStep \in Nat
  BY TokenAssumption
<1> HIDE DEF k
<1> DEFINE x == k * a
           y == k * b
<1>3. x \in Int /\ y \in Int /\ k * (a - b) = x - y
  BY <1>1, <1>2
<1>4. /\ MinToken + x < Token[u] /\ Token[u] <= MinToken + x + TokenStep
      /\ MinToken + y < Token[u] /\ Token[u] <= MinToken + y + TokenStep
  <2> HIDE DEF x, y
  <2>1. r.from = MinToken + x /\ p.from = MinToken + y
    BY <1>1 DEF x, y
  <2> QED BY <1>2, <1>3, <2>1, RangeShape DEF Selects, Lesser
<1>5. -k < x - y /\ x - y < k
  <2> HIDE DEF x, y
  <2> QED BY <1>2, <1>3, <1>4
<1>6. a - b = 0
  <2> HIDE DEF x, y
  <2> QED BY <1>1, <1>2, <1>3, <1>5, NoMultipleBetween
<1>7. a = b
  BY <1>1, <1>6
<1> QED BY <1>1, <1>7, RangeShape

\* No range selects a user whose token is the start of one.
LEMMA BoundaryUnselected ==
  ASSUME NEW u \in Boundary, NEW r \in Ranges
  PROVE  ~Selects(r, u)
<1> SUFFICES ASSUME Selects(r, u) PROVE FALSE
  OBVIOUS
<1> DEFINE k == TokenStep + 1
           t == Token[u] - MinToken
           d == t \div k
<1>1. /\ k \in Nat \ {0} /\ k = TokenStep + 1 /\ Token[u] \in Int /\ MinToken \in Int
      /\ MaxToken \in Int /\ TokenStep \in Nat /\ t \in Nat /\ t % k = 0
  BY TokenAssumption DEF Boundary
<1>2. PICK a \in Int : r.from = MinToken + k * a
  BY RangeShape
<1> HIDE DEF k
<1>3. d \in Int /\ t = k * d
  <2> HIDE DEF t
  <2> QED BY <1>1, NoRemainder
<1> DEFINE x == k * a
<1>4. x \in Int /\ k * (d - a) = t - x
  <2> HIDE DEF t, d
  <2> QED BY <1>1, <1>2, <1>3
<1>5. MinToken + x < Token[u] /\ Token[u] <= MinToken + x + TokenStep
  <2>1. r.from = MinToken + x
    BY <1>2
  <2> HIDE DEF x
  <2> QED BY <1>1, <1>4, <2>1, RangeShape DEF Selects, Lesser
<1>6. 0 < t - x /\ t - x < k
  <2> HIDE DEF x
  <2> QED BY <1>1, <1>4, <1>5
<1> HIDE DEF t, d, x
<1> QED BY <1>1, <1>2, <1>3, <1>4, <1>6, NoMultipleBetween

LEMMA FinitelyManyRanges == IsFiniteSet(Ranges)
<1> DEFINE f == [s \in Starts |-> [from |-> s, to |-> Lesser(s + TokenStep, MaxToken)]]
<1>1. IsFiniteSet(Starts)
  <2>1. IsFiniteSet(MinToken .. MaxToken)
    BY TokenAssumption, FS_Interval
  <2> QED BY <2>1, FS_Subset DEF Starts
<1>2. f \in Surjection(Starts, Ranges)
  BY DEF Surjection, Starts, Ranges
<1> QED BY <1>1, <1>2, FS_Surjection

-----------------------------------------------------------------------------
(* The latest of some times *)

LEMMA LatestExists ==
  ASSUME NEW T \in SUBSET Times, T # {}
  PROVE  \E t \in T : \A s \in T : s <= t
<1> DEFINE Left == {MaxTime - t : t \in T}
           Less == OpToRel(<, Nat)
<1> HIDE DEF Less
<1>1. T \subseteq 0 .. MaxTime /\ MaxTime \in Nat
  BY ClockAssumption DEF Times
<1>2. Left \subseteq Nat /\ Left # {}
  <2>1. ASSUME NEW t \in T PROVE MaxTime - t \in Nat
    BY <1>1
  <2> QED BY <2>1
<1>3. PICK x \in Left : \A y \in Left : <<y, x>> \notin Less
  <2> HIDE DEF Left
  <2>1. IsWellFoundedOn(Less, Nat)
    BY NatLessThanWellFounded DEF Less
  <2> QED BY <1>2, <2>1, WFMin
<1>4. \A y \in Left : ~(y < x)
  BY <1>2, <1>3 DEF OpToRel, Less
<1>5. PICK t \in T : x = MaxTime - t
  OBVIOUS
<1>6. \A s \in T : s <= t
  BY <1>1, <1>4, <1>5
<1> QED BY <1>6

\* SELECT MAX("LastUpdated") finds one of the user's items.
LEMMA NewestIsLatest ==
  ASSUME items \subseteq [user : Users, at : Times], NEW u, ItemsOf(u) # {}
  PROVE  /\ Newest(u) \in Times
         /\ \E j \in ItemsOf(u) : j.at = Newest(u)
         /\ \A i \in ItemsOf(u) : i.at <= Newest(u)
<1> DEFINE T == {i.at : i \in ItemsOf(u)}
<1>1. T \in SUBSET Times /\ T # {}
  BY DEF ItemsOf
<1>2. \E t \in T : \A i \in ItemsOf(u) : i.at <= t
  <2>1. \E t \in T : \A s \in T : s <= t
    <3> HIDE DEF T
    <3> QED BY <1>1, LatestExists
  <2> QED BY <2>1
<1>3. Newest(u) \in T /\ \A i \in ItemsOf(u) : i.at <= Newest(u)
  BY <1>2 DEF Newest
<1> QED BY <1>1, <1>3

-----------------------------------------------------------------------------
(* Types *)

FakerStates ==
  [pc : Labels, opts : Commands, stamp : Times, asOf : Times, next : Int, end : Int]
ScanStates ==
  [state : {"queued", "scanning", "done", "failed"}, todo : SUBSET Users,
   user : Users \cup {NoUser}, newest : Times]

\* A filler and the first user of its batch: the batch is within what the command line
\* asks for, and what is written next within the batch.
FakerOK(state, start) ==
  /\ state \in FakerStates /\ start \in Int
  /\ state.pc # "off" => state.opts.first <= state.next
  /\ state.pc \in {"put", "write"} =>
       /\ state.opts.first <= start /\ start <= state.next
       /\ state.end <= state.opts.first + state.opts.count - 1
  /\ state.pc = "write" => state.next <= state.end

TableTypes ==
  /\ table \in {"none", "hash", "range"}
  /\ items \subseteq [user : Users, at : Times]
  /\ counted \subseteq Users
  /\ runs \in 0 .. MaxRuns /\ cleanups \in 0 .. MaxCleanups
  /\ cleaning \in BOOLEAN /\ quiet \in BOOLEAN /\ overtaken \in BOOLEAN
  /\ outcome \in {"none", "finished", "failed", "killed"}
FakerTypes ==
  /\ faker \in [Fakers -> FakerStates] /\ since \in [Fakers -> Int]
  /\ \A f \in Fakers : FakerOK(faker[f], since[f])
ScanTypes ==
  /\ scan \in [Ranges -> ScanStates]
  /\ Cardinality(InState("scanning")) <= Parallelism
  /\ ~cleaning => scan = [r \in Ranges |-> Queued]

UserInv ==
  /\ TableTypes /\ FakerTypes /\ ScanTypes
  /\ subject = "alternator" => now \in Times

LEMMA CommandTypes ==
  ASSUME NEW o \in Commands
  PROVE  /\ o.first \in Int /\ o.count \in Nat \ {0}
         /\ o.first .. o.first + o.count - 1 \subseteq Users
         /\ o.conditional \in BOOLEAN /\ o.range \in BOOLEAN /\ o.delete \in BOOLEAN
<1>1. o \in FakerArgs
  BY FakerAssumption DEF Commands
<1> QED BY <1>1, FakerAssumption DEF FakerArgs

LEMMA IdleOK ==
  ASSUME NEW s \in Int
  PROVE  FakerOK(Idle, s)
<1>1. (CHOOSE o \in Commands : TRUE) \in Commands
  BY FakerAssumption
<1>2. 0 \in Times
  BY ClockAssumption DEF Times
<1> QED BY <1>1, <1>2 DEF Idle, FakerOK, FakerStates, Labels

LEMMA OneFaker ==
  ASSUME FakerTypes, NEW f \in Fakers, NEW state, NEW s, FakerOK(state, s),
         faker' = [faker EXCEPT ![f] = state], since' = [since EXCEPT ![f] = s]
  PROVE  FakerTypes'
<1>1. state \in FakerStates /\ s \in Int
  BY DEF FakerOK
<1>2. faker' \in [Fakers -> FakerStates] /\ since' \in [Fakers -> Int]
  BY <1>1 DEF FakerTypes
<1>3. \A g \in Fakers : FakerOK(faker'[g], since'[g])
  BY DEF FakerTypes
<1> QED BY <1>2, <1>3 DEF FakerTypes

\* A filler writes and counts users it was asked for.
LEMMA FakerUsers ==
  ASSUME FakerTypes, NEW f \in Fakers
  PROVE  /\ At(f, "write") \/ (At(f, "put") /\ Remaining(f)) => faker[f].next \in Users
         /\ At(f, "put") => since[f] .. faker[f].end \subseteq Users
         /\ faker[f] \in FakerStates /\ since[f] \in Int
<1>1. FakerOK(faker[f], since[f])
  BY DEF FakerTypes
<1>2. faker[f] \in FakerStates /\ since[f] \in Int /\ faker[f].opts \in Commands
      /\ faker[f].next \in Int /\ faker[f].end \in Int
  BY <1>1 DEF FakerOK, FakerStates
<1> QED BY <1>1, <1>2, CommandTypes DEF FakerOK, At, Remaining

LEMMA FakerStepTypes ==
  ASSUME FakerTypes, now \in Times, NEW f \in Fakers, FakerStep(f)
  PROVE  FakerTypes'
<1> DEFINE old == faker[f]
           s == since[f]
<1>1. FakerOK(old, s) /\ since = [since EXCEPT ![f] = s]
  BY DEF FakerTypes
<1>2. old \in FakerStates /\ old.opts \in Commands /\ old.next \in Int /\ old.end \in Int
      /\ s \in Int /\ old.opts.first \in Int /\ old.opts.count \in Nat \ {0}
  BY <1>1, CommandTypes DEF FakerOK, FakerStates
<1>3. ASSUME NEW o \in FakerOptions[f], FakerStarts(f, o) PROVE FakerTypes'
  <2> DEFINE new == [Idle EXCEPT !.pc = IF o.delete THEN "delete" ELSE "create", !.opts = o,
                                 !.next = o.first]
  <2>1. o \in Commands /\ o.first \in Int
    BY CommandTypes DEF Commands
  <2>2. FakerOK(Idle, s)
    BY <1>2, IdleOK
  <2>3. FakerOK(new, s)
    <3>1. new.pc \in {"delete", "create"} /\ new.opts = o /\ new.next = o.first
          /\ new \in FakerStates
      BY <2>1, <2>2 DEF FakerOK, FakerStates, Labels, Idle
    <3> HIDE DEF new
    <3> QED BY <1>2, <2>1, <3>1 DEF FakerOK
  <2>4. faker' = [faker EXCEPT ![f] = new] /\ since' = since
    BY <1>3 DEF FakerStarts
  <2> HIDE DEF new
  <2> QED BY <1>1, <2>3, <2>4, OneFaker
<1>4. CASE FakerDeletes(f)
  <2>1. /\ old.pc = "delete" /\ faker' = [faker EXCEPT ![f].pc = "create"]
        /\ since' = [g \in Fakers |-> faker[g].next]
    BY <1>4 DEF FakerDeletes, DropTable, Goto, At
  <2>2. ASSUME NEW g \in Fakers
        PROVE  FakerOK(faker'[g], since'[g])
    <3>1. FakerOK(faker[g], since[g]) /\ faker[g].opts \in Commands
      BY DEF FakerTypes, FakerStates
    <3>2. faker[g].opts.first \in Int
      BY <3>1, CommandTypes
    <3>3. faker'[g] = [faker[g] EXCEPT !.pc = IF g = f THEN "create" ELSE @]
          /\ since'[g] = faker[g].next
      BY <2>1 DEF FakerTypes, FakerStates
    <3> QED BY <2>1, <3>1, <3>2, <3>3 DEF FakerOK, FakerStates, Labels
  <2>3. faker' \in [Fakers -> FakerStates] /\ since' \in [Fakers -> Int]
    BY <2>1 DEF FakerTypes, FakerStates, Labels
  <2> QED BY <2>2, <2>3 DEF FakerTypes
<1>5. CASE FakerCreates(f)
  <2> DEFINE new == [old EXCEPT !.pc = "batch", !.stamp = now]
  <2>1. old.pc = "create" /\ faker' = [faker EXCEPT ![f] = new] /\ since' = since
    BY <1>5 DEF FakerCreates, At, FakerTypes, FakerStates
  <2>2. FakerOK(new, s)
    BY <1>1, <2>1 DEF FakerOK, FakerStates, Labels
  <2> HIDE DEF new
  <2> QED BY <1>1, <2>1, <2>2, OneFaker
<1>6. CASE FakerTakesBatch(f)
  <2> DEFINE last == Lesser(old.next + BatchSize - 1, Last(f))
             new == [old EXCEPT !.pc = "put", !.asOf = now, !.end = last]
  <2>1. CASE old.next <= Last(f)
    <3>1. /\ old.pc = "batch" /\ faker' = [faker EXCEPT ![f] = new]
          /\ since' = [since EXCEPT ![f] = faker'[f].next]
      BY <1>6, <2>1 DEF FakerTakesBatch, At, FakerTypes, FakerStates
    <3>2. last \in Int /\ last <= old.opts.first + old.opts.count - 1
      BY <1>2, FakerAssumption DEF Lesser, Last
    <3>3. FakerOK(new, old.next)
      <4>1. /\ new.pc = "put" /\ new.opts = old.opts /\ new.next = old.next /\ new.end = last
            /\ new \in FakerStates
        <5> HIDE DEF last
        <5> QED BY <1>2, <3>2 DEF FakerStates, Labels
      <4>2. old.opts.first <= old.next
        BY <1>1, <3>1 DEF FakerOK
      <4> HIDE DEF last, new, old
      <4> QED BY <1>2, <3>2, <4>1, <4>2 DEF FakerOK
    <3>4. faker'[f] = new /\ new.next = old.next
      BY <3>1 DEF FakerTypes, FakerStates
    <3> HIDE DEF new
    <3> QED BY <3>1, <3>3, <3>4, OneFaker
  <2>2. CASE ~(old.next <= Last(f))
    <3>1. faker' = [faker EXCEPT ![f] = Idle] /\ since' = [since EXCEPT ![f] = faker'[f].next]
      BY <1>6, <2>2 DEF FakerTakesBatch
    <3>2. faker'[f].next = 0
      BY <3>1 DEF Idle, FakerTypes
    <3>3. since' = [since EXCEPT ![f] = 0]
      BY <3>1, <3>2
    <3>4. FakerOK(Idle, 0)
      BY IdleOK
    <3> QED BY <3>1, <3>3, <3>4, OneFaker
  <2> QED BY <2>1, <2>2
<1>7. CASE FakerPuts(f)
  <2> DEFINE new == [old EXCEPT !.pc = "put", !.next = @ + 1]
  <2>1. old.pc \in {"put", "write"} /\ faker' = [faker EXCEPT ![f] = new] /\ since' = since
    BY <1>7 DEF FakerPuts, At, FakerTypes, FakerStates
  <2>2. FakerOK(new, s)
    <3>1. /\ new.pc = "put" /\ new.opts = old.opts /\ new.next = old.next + 1
          /\ new.end = old.end /\ new \in FakerStates
      <4>1. ASSUME NEW n \in Int
            PROVE  [old EXCEPT !.pc = "put", !.next = n] \in FakerStates
        BY <1>2 DEF FakerStates, Labels
      <4>2. new = [old EXCEPT !.pc = "put", !.next = old.next + 1]
        OBVIOUS
      <4>3. old.next + 1 \in Int
        BY <1>2
      <4> QED BY <1>2, <4>1, <4>2, <4>3 DEF FakerStates
    <3>2. /\ old.opts.first <= old.next /\ old.opts.first <= s /\ s <= old.next
          /\ old.end <= old.opts.first + old.opts.count - 1
      BY <1>1, <2>1 DEF FakerOK
    <3> HIDE DEF new, old, s
    <3> QED BY <1>2, <3>1, <3>2 DEF FakerOK
  <2> HIDE DEF new
  <2> QED BY <1>1, <2>1, <2>2, OneFaker
<1>8. CASE FakerChecks(f)
  <2>1. /\ old.pc = "put" /\ old.next <= old.end /\ since' = since
        /\ \/ faker' = [faker EXCEPT ![f] = [old EXCEPT !.pc = "write"]]
           \/ faker' = [faker EXCEPT ![f] = [old EXCEPT !.next = @ + 1]]
    BY <1>8 DEF FakerChecks, At, Goto, Remaining, FakerTypes, FakerStates
  <2>2. FakerOK([old EXCEPT !.pc = "write"], s)
    BY <1>1, <1>2, <2>1 DEF FakerOK, FakerStates, Labels
  <2>3. FakerOK([old EXCEPT !.next = @ + 1], s)
    BY <1>1, <1>2, <2>1 DEF FakerOK, FakerStates, Labels
  <2> QED BY <1>1, <2>1, <2>2, <2>3, OneFaker
<1>9. CASE FakerCounts(f)
  <2>1. old.pc = "put" /\ faker' = [faker EXCEPT ![f] = [old EXCEPT !.pc = "batch"]]
        /\ since' = since
    BY <1>9 DEF FakerCounts, At, Goto, FakerTypes, FakerStates
  <2>2. FakerOK([old EXCEPT !.pc = "batch"], s)
    BY <1>1, <1>2, <2>1 DEF FakerOK, FakerStates, Labels
  <2> QED BY <1>1, <2>1, <2>2, OneFaker
<1>10. CASE FakerDies(f)
  <2>1. faker' = [faker EXCEPT ![f] = Idle] /\ since' = [since EXCEPT ![f] = 0]
    BY <1>10 DEF FakerDies
  <2>2. FakerOK(Idle, 0)
    BY IdleOK
  <2> QED BY <2>1, <2>2, OneFaker
<1> QED BY <1>3, <1>4, <1>5, <1>6, <1>7, <1>8, <1>9, <1>10 DEF FakerStep

LEMMA FakerStepTable ==
  ASSUME TableTypes, FakerTypes, now \in Times, NEW f \in Fakers, FakerStep(f)
  PROVE  TableTypes' /\ UNCHANGED cleanVars
<1> USE DEF TableTypes, cleanVars
<1>1. ASSUME NEW o \in FakerOptions[f], FakerStarts(f, o)
      PROVE  TableTypes' /\ UNCHANGED cleanVars
  BY <1>1, FakerAssumption DEF FakerStarts, tableVars
<1>2. CASE FakerDeletes(f)
  BY <1>2 DEF FakerDeletes, DropTable
<1>3. CASE FakerCreates(f)
  BY <1>3 DEF FakerCreates
<1>4. CASE FakerPuts(f)
  <2>1. faker[f].next \in Users /\ faker[f].stamp \in Times
    BY <1>4, FakerUsers DEF FakerPuts, FakerStates
  <2>2. [user |-> faker[f].next, at |-> faker[f].stamp] \in [user : Users, at : Times]
    BY <2>1
  <2>3. items' \subseteq items \cup {[user |-> faker[f].next, at |-> faker[f].stamp]}
    BY <1>4 DEF FakerPuts
  <2> QED BY <1>4, <2>2, <2>3 DEF FakerPuts
<1>5. CASE FakerCounts(f)
  BY <1>5, FakerUsers DEF FakerCounts
<1>6. CASE FakerTakesBatch(f) \/ FakerChecks(f) \/ FakerDies(f)
  BY <1>6 DEF FakerTakesBatch, FakerChecks, FakerDies, tableVars
<1> QED BY <1>1, <1>2, <1>3, <1>4, <1>5, <1>6 DEF FakerStep

LEMMA QueuedOK == Queued \in ScanStates
<1>1. 0 \in Times
  BY ClockAssumption DEF Times
<1> QED BY <1>1 DEF Queued, ScanStates

\* A step of a thread changes its range, and at most its user's older items go.
LEMMA RangeStepFacts ==
  ASSUME TableTypes, ScanTypes, NEW r \in Ranges, RangeStep(r)
  PROVE  /\ cleaning /\ scan[r] \in ScanStates
         /\ UNCHANGED <<table, counted, fakerVars, since, cleaning, outcome, cleanups, overtaken>>
         /\ items' \subseteq items /\ now' = now
         /\ quiet' \in {quiet, FALSE}
         /\ \E new \in ScanStates :
              /\ scan' = [scan EXCEPT ![r] = new]
              /\ new.state = "scanning" => scan[r].state = "scanning" \/ ThreadFree
<1> USE DEF ScanTypes, tableVars
<1>0. scan[r] \in ScanStates /\ 0 \in Times
  BY ClockAssumption DEF Times
<1>1. CASE ScanRange(r)
  <2> DEFINE found == {i.user : i \in {j \in items : Selects(r, j.user)}}
             new == [scan[r] EXCEPT !.state = "scanning", !.todo = found]
  <2>1. found \in SUBSET Users
    BY DEF TableTypes
  <2>2. new \in ScanStates
    BY <1>0, <2>1 DEF ScanStates
  <2>3. scan' = [scan EXCEPT ![r] = new]
    BY <1>1 DEF ScanRange
  <2> HIDE DEF found, new
  <2> QED BY <1>0, <1>1, <2>2, <2>3 DEF ScanRange, ThreadFree, clockVars
<1>2. CASE RangeFails(r)
  <2> DEFINE new == [scan[r] EXCEPT !.state = "failed"]
  <2>1. new \in ScanStates /\ new.state = "failed"
    BY <1>0 DEF ScanStates
  <2>2. scan' = [scan EXCEPT ![r] = new]
    BY <1>2 DEF RangeFails
  <2> HIDE DEF new
  <2> QED BY <1>0, <1>2, <2>1, <2>2 DEF RangeFails, ThreadFree, Fault, clockVars
<1>3. CASE ReadNewest(r)
  <2>1. PICK u \in scan[r].todo :
           IF ItemsOf(u) = {}
           THEN scan' = [scan EXCEPT ![r].todo = @ \ {u}]
           ELSE scan' = [scan EXCEPT ![r].user = u, ![r].newest = Newest(u)]
    BY <1>3 DEF ReadNewest
  <2> DEFINE new == IF ItemsOf(u) = {} THEN [scan[r] EXCEPT !.todo = @ \ {u}]
                    ELSE [scan[r] EXCEPT !.user = u, !.newest = Newest(u)]
  <2>2. u \in Users /\ (ItemsOf(u) # {} => Newest(u) \in Times)
    BY <1>0, NewestIsLatest DEF ScanStates, TableTypes
  <2>3. new \in ScanStates /\ new.state = scan[r].state
    BY <1>0, <2>2 DEF ScanStates
  <2>4. scan' = [scan EXCEPT ![r] = new]
    BY <2>1
  <2> HIDE DEF new
  <2> QED BY <1>0, <1>3, <2>3, <2>4 DEF ReadNewest, Scanning, clockVars
<1>4. CASE DeleteOlder(r)
  <2> DEFINE new == [scan[r] EXCEPT !.todo = @ \ {scan[r].user}, !.user = NoUser, !.newest = 0]
  <2>1. new \in ScanStates /\ new.state = scan[r].state
    BY <1>0 DEF ScanStates
  <2>2. scan' = [scan EXCEPT ![r] = new]
    BY <1>4 DEF DeleteOlder
  <2> HIDE DEF new
  <2> QED BY <1>0, <1>4, <2>1, <2>2 DEF DeleteOlder, Scanning, clockVars
<1>5. CASE UserFails(r)
  <2>1. PICK u \in scan[r].todo :
           scan' = [scan EXCEPT ![r].todo = @ \ {u}, ![r].user = NoUser, ![r].newest = 0]
    BY <1>5 DEF UserFails
  <2> DEFINE new == [scan[r] EXCEPT !.todo = @ \ {u}, !.user = NoUser, !.newest = 0]
  <2>2. new \in ScanStates /\ new.state = scan[r].state
    BY <1>0 DEF ScanStates
  <2>3. scan' = [scan EXCEPT ![r] = new]
    BY <2>1
  <2> HIDE DEF new
  <2> QED BY <1>0, <1>5, <2>2, <2>3 DEF UserFails, Scanning, Fault, clockVars
<1>6. CASE RangeDone(r)
  <2> DEFINE new == [scan[r] EXCEPT !.state = "done"]
  <2>1. new \in ScanStates /\ new.state = "done"
    BY <1>0 DEF ScanStates
  <2>2. scan' = [scan EXCEPT ![r] = new]
    BY <1>6 DEF RangeDone
  <2> HIDE DEF new
  <2> QED BY <1>0, <1>6, <2>1, <2>2 DEF RangeDone, Scanning, clockVars
<1> QED BY <1>1, <1>2, <1>3, <1>4, <1>5, <1>6 DEF RangeStep

\* A thread takes a range only when fewer are in work than there are threads.
LEMMA RangeStepTypes ==
  ASSUME TableTypes, ScanTypes, NEW r \in Ranges, RangeStep(r)
  PROVE  ScanTypes'
<1> DEFINE busy == InState("scanning")
<1>1. PICK new \in ScanStates :
         /\ scan' = [scan EXCEPT ![r] = new]
         /\ new.state = "scanning" => scan[r].state = "scanning" \/ ThreadFree
  BY RangeStepFacts
<1>2. scan' \in [Ranges -> ScanStates]
  BY <1>1 DEF ScanTypes
<1>3. IsFiniteSet(busy)
  BY FinitelyManyRanges, FS_Subset DEF InState
<1>4. Cardinality(busy') <= Parallelism
  <2>1. CASE busy' \subseteq busy
    <3> HIDE DEF busy
    <3>1. Cardinality(busy') <= Cardinality(busy) /\ Cardinality(busy') \in Nat
          /\ Cardinality(busy) \in Nat
      BY <1>3, <2>1, FS_Subset, FS_CardinalityType
    <3> QED BY <3>1, TokenAssumption DEF ScanTypes, busy
  <2>2. CASE ~(busy' \subseteq busy)
    <3>1. r \notin busy /\ new.state = "scanning" /\ busy' = busy \cup {r}
      BY <1>1, <2>2 DEF ScanTypes, InState
    <3>2. Cardinality(busy) < Parallelism
      BY <1>1, <3>1 DEF InState, ThreadFree
    <3> HIDE DEF busy
    <3>3. Cardinality(busy') = Cardinality(busy) + 1 /\ Cardinality(busy) \in Nat
      BY <1>3, <3>1, FS_AddElement, FS_CardinalityType
    <3> QED BY <3>2, <3>3, TokenAssumption
  <2> QED BY <2>1, <2>2
<1>5. cleaning'
  BY RangeStepFacts DEF TableTypes
<1> QED BY <1>2, <1>4, <1>5 DEF ScanTypes

\* The ends of a clean-up: all ranges are through, or it is killed.
CleanupOver == CleanupEnds \/ CleanupKilled

LEMMA UserNext == UserInv /\ [Next]_vars => UserInv'
<1> SUFFICES ASSUME UserInv, [Next]_vars PROVE UserInv'
  OBVIOUS
<1>1. CASE subject = "alternator" /\ OnUserIds(UserIdStep)
  <2>1. subject' = subject /\ now \in Times /\ UserIdStep
    BY <1>1 DEF OnUserIds, UserInv
  <2>2. ASSUME NEW f \in Fakers, FakerStep(f) PROVE UserInv'
    <3>1. FakerTypes' /\ TableTypes' /\ UNCHANGED cleanVars
      BY <2>1, <2>2, FakerStepTypes, FakerStepTable DEF UserInv
    <3>2. now' = now
      BY <2>2 DEF FakerStep, FakerStarts, FakerDeletes, FakerCreates, FakerTakesBatch, FakerPuts,
                  FakerChecks, FakerCounts, FakerDies, Fault, clockVars
    <3> QED BY <2>1, <3>1, <3>2 DEF UserInv, ScanTypes, InState, cleanVars
  <2>3. CASE CqlAlternatorFaker
    <3>1. /\ since' = [f \in Fakers |-> faker[f].next] /\ UNCHANGED <<faker, runs, cleanVars, now>>
          /\ TableTypes'
      BY <2>3 DEF CqlAlternatorFaker, DropTable, Fault, UserInv, TableTypes, cleanVars
    <3>2. ASSUME NEW f \in Fakers
          PROVE  FakerOK(faker[f], faker[f].next)
      <4>1. FakerOK(faker[f], since[f]) /\ faker[f] \in FakerStates
        BY DEF UserInv, FakerTypes
      <4>2. faker[f].next \in Int /\ faker[f].opts.first \in Int
        BY <4>1, CommandTypes DEF FakerStates
      <4> QED BY <4>1, <4>2 DEF FakerOK
    <3>3. FakerTypes'
      BY <3>1, <3>2 DEF FakerTypes, FakerStates, UserInv
    <3> QED BY <2>1, <3>1, <3>3 DEF UserInv, ScanTypes, InState, cleanVars
  <2>4. CASE CleanupStarts \/ CleanupOver
    <3>1. /\ scan' = [r \in Ranges |-> Queued] /\ UNCHANGED <<tableVars, fakerVars, since, now>>
          /\ TableTypes'
      <4>1. CASE CleanupStarts
        BY <4>1, TokenAssumption DEF CleanupStarts, clockVars, UserInv, TableTypes, tableVars,
                                     fakerVars
      <4>2. CASE CleanupOver
        <5>1. PICK result \in {"finished", "failed", "killed"} : EndCleanup(result) /\ now' = now
          BY <4>2 DEF CleanupOver, CleanupEnds, CleanupKilled, Fault, clockVars
        <5> QED BY <5>1 DEF EndCleanup, UserInv, TableTypes, tableVars, fakerVars
      <4> QED BY <2>4, <4>1, <4>2
    <3>2. scan' \in [Ranges -> ScanStates] /\ Cardinality(InState("scanning")') <= Parallelism
      <4>1. InState("scanning")' = {}
        BY <3>1 DEF InState, Queued
      <4>2. Cardinality({}) = 0 /\ 0 <= Parallelism
        BY FS_EmptySet, TokenAssumption
      <4> QED BY <3>1, <4>1, <4>2, QueuedOK
    <3> QED BY <2>1, <3>1, <3>2 DEF UserInv, ScanTypes, FakerTypes, fakerVars
  <2>5. ASSUME NEW r \in Ranges, RangeStep(r) PROVE UserInv'
    <3>1. ScanTypes'
      BY <2>5, RangeStepTypes DEF UserInv
    <3>2. /\ UNCHANGED <<table, counted, fakerVars, since, cleaning, outcome, cleanups, overtaken>>
          /\ items' \subseteq items /\ now' = now /\ quiet' \in {quiet, FALSE}
      BY <2>5, RangeStepFacts DEF UserInv
    <3>3. TableTypes' /\ FakerTypes'
      BY <3>2 DEF UserInv, TableTypes, FakerTypes, fakerVars
    <3> QED BY <2>1, <3>1, <3>2, <3>3 DEF UserInv
  <2> QED BY <2>1, <2>2, <2>3, <2>4, <2>5 DEF UserIdStep, CleanupStep, CleanupOver
<1>2. CASE UNCHANGED userVars /\ (subject' = "alternator" => now' \in Times)
  BY <1>2 DEF UserInv, TableTypes, FakerTypes, ScanTypes, InState, userVars, tableVars, fakerVars,
              cleanVars
<1>3. CASE UNCHANGED userVars /\ subject' = subject /\ subject # "alternator"
  BY <1>2, <1>3
<1>4. CASE Tick /\ UNCHANGED <<userVars, subject>>
  <2>1. subject' = "alternator" => now' \in Times
    BY <1>4, ClockAssumption DEF Tick, Times, UserInv
  <2> QED BY <1>2, <1>4, <2>1
<1>5. CASE UNCHANGED vars
  BY <1>2, <1>5 DEF vars, clockVars, UserInv
<1> QED BY <1>1, <1>3, <1>4, <1>5 DEF Next, OnCqlUsers, OnVnodes, OnJavaUsers

LEMMA UserHolds == Spec => []UserInv
<1>1. Init => UserInv
  <2> SUFFICES ASSUME Init PROVE UserInv
    OBVIOUS
  <2>1. /\ scan = [r \in Ranges |-> Queued] /\ now \in Times
        /\ faker = [f \in Fakers |-> Idle] /\ since = [f \in Fakers |-> 0]
    BY ClockAssumption DEF Init, ClockInit, UserIdInit, Times
  <2>2. InState("scanning") = {} /\ Cardinality({}) = 0 /\ 0 <= Parallelism
    BY <2>1, FS_EmptySet, TokenAssumption DEF InState, Queued
  <2>3. ScanTypes
    BY <2>1, <2>2, QueuedOK DEF ScanTypes
  <2>4. FakerTypes
    <3>1. FakerOK(Idle, 0)
      BY IdleOK
    <3> QED BY <2>1, <3>1 DEF FakerTypes, FakerOK
  <2>5. TableTypes
    <3>1. /\ table = "none" /\ items = {} /\ counted = {} /\ runs = 0 /\ cleanups = 0
          /\ cleaning = FALSE /\ quiet = FALSE /\ overtaken = FALSE /\ outcome = "none"
      BY DEF Init, UserIdInit
    <3>2. 0 \in 0 .. MaxRuns /\ 0 \in 0 .. MaxCleanups
      BY FakerAssumption, TokenAssumption
    <3> QED BY <3>1, <3>2 DEF TableTypes
  <2> QED BY <2>1, <2>3, <2>4, <2>5 DEF UserInv
<1> QED BY <1>1, UserNext, PTL DEF Spec

-----------------------------------------------------------------------------
(* Nothing counted is lost *)

\* A step leaves every user an item; it leaves every user an item as late as the latest.
UsersStay == \A i \in items : \E j \in items' : j.user = i.user
LatestStay == \A i \in items : \E j \in items' : j.user = i.user /\ j.at >= i.at

\* What a filler is past of its batch is in the table: put there, or there already.
PutInv ==
  ~overtaken => \A f \in Fakers : faker[f].pc \in {"put", "write"} =>
                  \A u \in since[f] .. faker[f].next - 1 : ItemsOf(u) # {}
\* A thread is at work on a user of its range that it has not dealt with; the maximum it
\* read is of the table that is there, where an item as late as that has remained.
ScanInv ==
  \A r \in Ranges :
    /\ scan[r].user # NoUser => scan[r].state = "scanning" /\ scan[r].user \in scan[r].todo
    /\ ~overtaken =>
         /\ scan[r].state = "scanning" => table = "range"
         /\ scan[r].user # NoUser => \E j \in ItemsOf(scan[r].user) : j.at >= scan[r].newest

KeepInv == CountedUsersPresent /\ PutInv /\ ScanInv

LEMMA ItemTypes ==
  ASSUME UserInv
  PROVE  /\ \A i \in items : i.user \in Users /\ i.at \in Int
         /\ \A f \in Fakers : faker[f] \in FakerStates /\ faker[f].stamp \in Int
                              /\ faker[f].next \in Int /\ faker[f].end \in Int /\ since[f] \in Int
         /\ \A r \in Ranges : scan[r] \in ScanStates /\ scan[r].newest \in Int
BY DEF UserInv, TableTypes, FakerTypes, ScanTypes, FakerStates, ScanStates, Times

\* A put replaces an item of the same user: in a table with the range key, one with the
\* same LastUpdated.
LEMMA PutKeeps ==
  ASSUME UserInv, NEW f \in Fakers, FakerPuts(f)
  PROVE  /\ UsersStay /\ \E i \in items' : i.user = faker[f].next
         /\ table = "range" => LatestStay
<1> DEFINE new == [user |-> faker[f].next, at |-> faker[f].stamp]
<1>1. items' = (items \ SameKey(f, faker[f].next)) \cup {new}
  BY DEF FakerPuts
<1>2. new \in items' /\ new.user = faker[f].next /\ new.at = faker[f].stamp
  BY <1>1
<1>3. ASSUME NEW i \in items, i \notin items'
      PROVE  i.user = new.user /\ (table = "range" => i.at = new.at)
  BY <1>1, <1>3 DEF SameKey, ItemsOf
<1>4. \A i \in items : i.at \in Int
  BY ItemTypes
<1> HIDE DEF new
<1>5. ASSUME NEW i \in items
      PROVE  \E j \in items' : j.user = i.user /\ (table = "range" => j.at >= i.at)
  <2>1. CASE i \in items'
    BY <1>4, <2>1
  <2>2. CASE i \notin items'
    <3>1. new.user = i.user /\ (table = "range" => new.at >= i.at)
      BY <1>3, <1>4, <2>2
    <3> QED BY <1>2, <3>1
  <2> QED BY <2>1, <2>2
<1> QED BY <1>2, <1>5 DEF UsersStay, LatestStay

\* The clean-up deletes below a maximum that an item of the user still has.
LEMMA DeleteKeeps ==
  ASSUME UserInv, ScanInv, ~overtaken, NEW r \in Ranges, DeleteOlder(r)
  PROVE  LatestStay
<1>1. PICK j \in items : j.user = scan[r].user /\ j.at >= scan[r].newest
  BY DEF ScanInv, DeleteOlder, ItemsOf
<1>2. items' = items \ Older(r) /\ j.at \in Int /\ scan[r].newest \in Int
      /\ \A i \in items : i.at \in Int
  BY ItemTypes DEF DeleteOlder
<1>3. j \in items'
  BY <1>1, <1>2 DEF Older
<1>4. ASSUME NEW i \in items, i \notin items'
      PROVE  i.user = j.user /\ j.at >= i.at
  BY <1>1, <1>2, <1>4 DEF Older, ItemsOf
<1> QED BY <1>2, <1>3, <1>4 DEF LatestStay

\* What a step does to the items of a table that it does not drop.
LEMMA StepKeeps ==
  ASSUME UserInv, ScanInv, ~overtaken,
         (\E f \in Fakers : FakerPuts(f)) \/ (\E r \in Ranges : RangeStep(r)) \/ items' = items
  PROVE  UsersStay /\ (table = "range" => LatestStay)
<1>1. LatestStay => UsersStay
  BY DEF LatestStay, UsersStay
<1>2. CASE items' = items
  BY <1>2, ItemTypes DEF UsersStay, LatestStay
<1>3. ASSUME NEW r \in Ranges, RangeStep(r) PROVE LatestStay \/ items' = items
  BY <1>3, DeleteKeeps DEF RangeStep, ScanRange, RangeFails, ReadNewest, UserFails, RangeDone,
                           tableVars
<1> QED BY <1>1, <1>2, <1>3, PutKeeps

LEMMA CountedStay ==
  ASSUME UserInv, UsersStay
  PROVE  \A u \in Int \cup Users : ItemsOf(u) # {} => ItemsOf(u)' # {}
BY DEF UsersStay, ItemsOf

LEMMA DropInv ==
  ASSUME UserInv, KeepInv, DropTable, UNCHANGED cleanVars,
         \A f \in Fakers : faker'[f].next = faker[f].next
  PROVE  KeepInv'
<1>1. CountedUsersPresent'
  BY DEF DropTable, CountedUsersPresent
<1>2. PutInv'
  BY ItemTypes DEF DropTable, PutInv
<1>3. ScanInv'
  <2>1. overtaken' = cleaning /\ scan' = scan
    BY DEF DropTable, cleanVars
  <2>2. ASSUME ~cleaning, NEW r \in Ranges
        PROVE  scan[r].user = NoUser /\ scan[r].state = "queued"
    BY <2>2 DEF UserInv, ScanTypes, Queued
  <2> QED BY <2>1, <2>2 DEF KeepInv, ScanInv
<1> QED BY <1>1, <1>2, <1>3 DEF KeepInv

LEMMA FakerKeepInv ==
  ASSUME UserInv, UserInv', KeepInv, NEW f \in Fakers, FakerStep(f)
  PROVE  KeepInv'
<1>1. CASE FakerDeletes(f)
  <2>1. \A g \in Fakers : faker'[g].next = faker[g].next
    BY <1>1 DEF FakerDeletes, Goto, UserInv, FakerTypes, FakerStates
  <2> QED BY <1>1, <2>1, DropInv DEF FakerDeletes
<1>2. ASSUME ~FakerDeletes(f)
      PROVE  /\ scan' = scan /\ overtaken' = overtaken
             /\ counted' # counted => FakerCounts(f)
             /\ items' # items => FakerPuts(f)
             /\ table = "range" => table' = "range"
             /\ \A g \in Fakers \ {f} : faker'[g] = faker[g] /\ since'[g] = since[g]
  BY <1>2 DEF FakerStep, FakerStarts, FakerCreates, FakerTakesBatch, FakerPuts,
     FakerChecks, FakerCounts, FakerDies, Goto, UserInv, FakerTypes, tableVars, cleanVars
<1>3. ASSUME ~FakerDeletes(f), ~overtaken
      PROVE  UsersStay /\ (table = "range" => LatestStay)
  BY <1>2, <1>3, StepKeeps DEF KeepInv
<1>4. ASSUME ~FakerDeletes(f) PROVE ScanInv'
  <2>1. ASSUME NEW r \in Ranges, ~overtaken
        PROVE  /\ scan[r].state = "scanning" => table' = "range"
               /\ scan[r].user # NoUser => \E j \in ItemsOf(scan[r].user)' : j.at >= scan[r].newest
    <3>1. scan[r].state = "scanning" => table = "range"
      BY <2>1 DEF KeepInv, ScanInv
    <3>2. ASSUME scan[r].user # NoUser
          PROVE  \E j \in items' : j.user = scan[r].user /\ j.at >= scan[r].newest
      <4>1. PICK i \in items : i.user = scan[r].user /\ i.at >= scan[r].newest
        BY <2>1, <3>2 DEF KeepInv, ScanInv, ItemsOf
      <4>2. LatestStay
        BY <1>3, <1>4, <2>1, <3>1, <3>2 DEF KeepInv, ScanInv
      <4>3. PICK j \in items' : j.user = i.user /\ j.at >= i.at
        BY <4>2 DEF LatestStay
      <4>4. i.at \in Int /\ j.at \in Int /\ scan[r].newest \in Int
        BY ItemTypes, <1>2, <1>4 DEF UserInv, TableTypes, Times
      <4> QED BY <4>1, <4>3, <4>4
    <3> QED BY <1>2, <1>4, <3>1, <3>2 DEF ItemsOf
  <2> QED BY <1>2, <1>4, <2>1 DEF KeepInv, ScanInv, ItemsOf
<1>5. ASSUME ~FakerDeletes(f) PROVE PutInv'
  <2> SUFFICES ASSUME ~overtaken, NEW g \in Fakers, faker'[g].pc \in {"put", "write"},
                      NEW u \in since'[g] .. faker'[g].next - 1
               PROVE  ItemsOf(u)' # {}
    BY <1>2, <1>5 DEF PutInv
  <2>1. faker'[g].next \in Int /\ since'[g] \in Int /\ faker[g].next \in Int /\ since[g] \in Int
        /\ u \in Int /\ faker[g] \in FakerStates
    BY ItemTypes DEF UserInv, FakerTypes, FakerStates
  <2>2. ASSUME faker[g].pc \in {"put", "write"}, u \in since[g] .. faker[g].next - 1
        PROVE  ItemsOf(u)' # {}
    BY <1>3, <1>5, <2>1, <2>2, CountedStay DEF KeepInv, PutInv
  <2>3. CASE g # f
    BY <1>2, <1>5, <2>2, <2>3
  <2>4. CASE g = f
    <3>1. CASE FakerPuts(f)
      <4>1. /\ faker[f].pc \in {"put", "write"} /\ since'[f] = since[f]
            /\ faker'[f].next = faker[f].next + 1
        BY <2>1, <2>4, <3>1 DEF FakerPuts, At, UserInv, FakerTypes, FakerStates
      <4>2. u \in since[f] .. faker[f].next - 1 \/ u = faker[f].next
        BY <2>1, <2>4, <4>1
      <4> QED BY <2>2, <2>4, <3>1, <4>1, <4>2, PutKeeps DEF ItemsOf
    <3>2. CASE FakerChecks(f)
      <4>1. faker[f].pc = "put" /\ since'[f] = since[f] /\ items' = items
        BY <3>2 DEF FakerChecks, At, tableVars
      <4>2. CASE Passes(f, faker[f].next)
        <5>1. faker'[f].next = faker[f].next
          BY <3>2, <4>2 DEF FakerChecks, Goto, UserInv, FakerTypes, FakerStates
        <5> QED BY <2>2, <2>4, <4>1, <5>1
      <4>3. CASE ~Passes(f, faker[f].next)
        <5>1. faker'[f].next = faker[f].next + 1
          BY <3>2, <4>3 DEF FakerChecks, UserInv, FakerTypes, FakerStates
        <5>2. \E i \in items' : i.user = faker[f].next
          BY <4>1, <4>3 DEF Passes, SameKey, ItemsOf
        <5>3. u \in since[f] .. faker[f].next - 1 \/ u = faker[f].next
          BY <2>1, <2>4, <4>1, <5>1
        <5> QED BY <2>2, <2>4, <4>1, <5>2, <5>3 DEF ItemsOf
      <4> QED BY <4>2, <4>3
    <3>3. CASE FakerTakesBatch(f)
      <4>1. since'[f] = faker'[f].next
        BY <3>3 DEF FakerTakesBatch, UserInv, FakerTypes
      <4> QED BY <2>1, <2>4, <4>1
    <3>4. CASE \/ \E o \in FakerOptions[f] : FakerStarts(f, o)
               \/ FakerCreates(f) \/ FakerCounts(f) \/ FakerDies(f)
      <4>1. faker'[f].pc \in {"delete", "create", "batch", "off"}
        <5>1. ASSUME NEW o \in FakerOptions[f], FakerStarts(f, o)
              PROVE  faker'[f].pc \in {"delete", "create"}
          BY <5>1 DEF FakerStarts, Idle, UserInv, FakerTypes
        <5>2. CASE FakerCreates(f) \/ FakerCounts(f)
          BY <5>2 DEF FakerCreates, FakerCounts, Goto, UserInv, FakerTypes, FakerStates
        <5>3. CASE FakerDies(f)
          BY <5>3 DEF FakerDies, Idle, UserInv, FakerTypes
        <5> QED BY <3>4, <5>1, <5>2, <5>3
      <4> QED BY <2>4, <4>1
    <3> QED BY <1>5, <3>1, <3>2, <3>3, <3>4 DEF FakerStep
  <2> QED BY <2>3, <2>4
<1>6. ASSUME ~FakerDeletes(f) PROVE CountedUsersPresent'
  <2> SUFFICES ASSUME ~overtaken, NEW u \in counted' PROVE ItemsOf(u)' # {}
    BY <1>2, <1>6 DEF CountedUsersPresent
  <2>1. CASE u \in counted
    <3>1. u \in Users /\ ItemsOf(u) # {}
      BY <2>1 DEF KeepInv, CountedUsersPresent, UserInv, TableTypes
    <3> QED BY <1>3, <1>6, <3>1, CountedStay
  <2>2. CASE u \notin counted
    <3>1. /\ faker[f].pc = "put" /\ ~(faker[f].next <= faker[f].end)
          /\ u \in since[f] .. faker[f].end
      BY <1>2, <1>6, <2>2 DEF FakerCounts, At, Remaining
    <3>2. u \in since[f] .. faker[f].next - 1 /\ u \in Int
      BY <3>1, ItemTypes
    <3>3. ItemsOf(u) # {}
      BY <3>1, <3>2 DEF KeepInv, PutInv
    <3> QED BY <1>3, <1>6, <3>2, <3>3, CountedStay
  <2> QED BY <2>1, <2>2
<1> QED BY <1>1, <1>4, <1>5, <1>6 DEF KeepInv

\* What the thread of a range keeps to, of the range it has.
LEMMA ThreadOK ==
  ASSUME UserInv, KeepInv, NEW r \in Ranges, RangeStep(r)
  PROVE  /\ scan'[r].user # NoUser => scan'[r].state = "scanning" /\ scan'[r].user \in scan'[r].todo
         /\ scan'[r].state = "scanning" => scan[r].state = "scanning" \/ table = "range"
         /\ scan'[r].user # NoUser /\ ~overtaken =>
              \E j \in items' : j.user = scan'[r].user /\ j.at >= scan'[r].newest
<1>0. /\ scan[r] \in ScanStates /\ scan \in [Ranges -> ScanStates]
      /\ scan[r].user # NoUser => scan[r].state = "scanning" /\ scan[r].user \in scan[r].todo
      /\ scan[r].user # NoUser /\ ~overtaken =>
           \E j \in items : j.user = scan[r].user /\ j.at >= scan[r].newest
  BY DEF UserInv, ScanTypes, KeepInv, ScanInv, ItemsOf
<1>1. CASE ScanRange(r)
  <2>1. scan'[r].user = scan[r].user /\ table = "range" /\ scan[r].state = "queued"
    BY <1>0, <1>1 DEF ScanRange, ScanStates
  <2> QED BY <1>0, <2>1
<1>2. CASE RangeFails(r)
  <2>1. scan'[r].user = scan[r].user /\ scan'[r].state = "failed" /\ scan[r].state = "queued"
    BY <1>0, <1>2 DEF RangeFails, ScanStates
  <2> QED BY <1>0, <2>1
<1>3. CASE ReadNewest(r)
  <2>1. PICK u \in scan[r].todo :
           IF ItemsOf(u) = {}
           THEN scan' = [scan EXCEPT ![r].todo = @ \ {u}]
           ELSE scan' = [scan EXCEPT ![r].user = u, ![r].newest = Newest(u)]
    BY <1>3 DEF ReadNewest
  <2>2. scan[r].user = NoUser /\ scan[r].state = "scanning" /\ items' = items
    BY <1>3 DEF ReadNewest, Scanning, tableVars
  <2>3. CASE ItemsOf(u) = {}
    <3>1. scan'[r].user = NoUser
      BY <1>0, <2>1, <2>2, <2>3 DEF ScanStates
    <3> QED BY <2>2, <3>1
  <2>4. CASE ItemsOf(u) # {}
    <3>1. /\ scan'[r].user = u /\ scan'[r].newest = Newest(u)
          /\ scan'[r].todo = scan[r].todo /\ scan'[r].state = scan[r].state
      BY <1>0, <2>1, <2>4 DEF ScanStates
    <3>2. \E j \in ItemsOf(u) : j.at = Newest(u) /\ j.at \in Int
      BY <2>4, NewestIsLatest DEF UserInv, TableTypes, Times
    <3> QED BY <2>1, <2>2, <3>1, <3>2 DEF ItemsOf
  <2> QED BY <2>3, <2>4
<1>4. CASE DeleteOlder(r)
  <2>1. scan'[r].user = NoUser /\ scan'[r].state = scan[r].state
    BY <1>0, <1>4 DEF DeleteOlder, ScanStates
  <2> QED BY <2>1
<1>5. CASE UserFails(r)
  <2>1. scan'[r].user = NoUser /\ scan'[r].state = scan[r].state
    BY <1>0, <1>5 DEF UserFails, ScanStates
  <2> QED BY <2>1
<1>6. CASE RangeDone(r)
  <2>1. scan'[r].user = scan[r].user /\ scan'[r].state = "done" /\ scan[r].todo = {}
    BY <1>0, <1>6 DEF RangeDone, ScanStates
  <2> QED BY <1>0, <2>1
<1> QED BY <1>1, <1>2, <1>3, <1>4, <1>5, <1>6 DEF RangeStep

LEMMA RangeKeepInv ==
  ASSUME UserInv, UserInv', KeepInv, NEW r \in Ranges, RangeStep(r)
  PROVE  KeepInv'
<1>1. /\ UNCHANGED <<table, counted, faker, since, overtaken>> /\ items' \subseteq items
      /\ \A p \in Ranges \ {r} : scan'[p] = scan[p]
  BY RangeStepFacts DEF UserInv, ScanTypes, fakerVars
<1>2. ~overtaken => UsersStay /\ (table = "range" => LatestStay)
  BY StepKeeps DEF KeepInv
<1>3. CountedUsersPresent'
  <2>1. counted \subseteq Users
    BY DEF UserInv, TableTypes
  <2> QED BY <1>1, <1>2, <2>1, CountedStay DEF KeepInv, CountedUsersPresent
<1>4. PutInv'
  <2> SUFFICES ASSUME ~overtaken, NEW f \in Fakers, faker[f].pc \in {"put", "write"},
                      NEW u \in since[f] .. faker[f].next - 1
               PROVE  ItemsOf(u)' # {}
    BY <1>1 DEF PutInv
  <2>1. ItemsOf(u) # {} /\ u \in Int
    BY ItemTypes DEF KeepInv, PutInv
  <2> QED BY <1>2, <2>1, CountedStay
<1>5. ScanInv'
  <2>1. ASSUME NEW p \in Ranges \ {r}
        PROVE  /\ scan[p].user # NoUser => scan[p].state = "scanning" /\ scan[p].user \in scan[p].todo
               /\ ~overtaken =>
                    /\ scan[p].state = "scanning" => table = "range"
                    /\ scan[p].user # NoUser =>
                         \E j \in items' : j.user = scan[p].user /\ j.at >= scan[p].newest
    <3>1. ASSUME ~overtaken, scan[p].user # NoUser
          PROVE  \E j \in items' : j.user = scan[p].user /\ j.at >= scan[p].newest
      <4>1. table = "range" /\ LatestStay
        BY <1>2, <3>1 DEF KeepInv, ScanInv
      <4>2. PICK i \in items : i.user = scan[p].user /\ i.at >= scan[p].newest
        BY <3>1 DEF KeepInv, ScanInv, ItemsOf
      <4>3. PICK j \in items' : j.user = i.user /\ j.at >= i.at
        BY <4>1 DEF LatestStay
      <4>4. i.at \in Int /\ j.at \in Int /\ scan[p].newest \in Int
        BY <1>1, ItemTypes
      <4> QED BY <4>2, <4>3, <4>4
    <3> QED BY <3>1 DEF KeepInv, ScanInv
  <2>2. ~overtaken => (scan[r].state = "scanning" => table = "range")
    BY DEF KeepInv, ScanInv
  <2> QED BY <1>1, <2>1, <2>2, ThreadOK DEF ScanInv, ItemsOf
<1> QED BY <1>3, <1>4, <1>5 DEF KeepInv

LEMMA KeepNext == UserInv /\ UserInv' /\ KeepInv /\ [Next]_vars => KeepInv'
<1> SUFFICES ASSUME UserInv, UserInv', KeepInv, [Next]_vars PROVE KeepInv'
  OBVIOUS
<1>1. CASE UserIdStep
  <2>1. CASE CqlAlternatorFaker
    <3>1. DropTable /\ UNCHANGED cleanVars /\ \A f \in Fakers : faker'[f].next = faker[f].next
      BY <2>1 DEF CqlAlternatorFaker
    <3> QED BY <3>1, DropInv
  <2>2. CASE CleanupStarts \/ CleanupOver
    <3>1. scan' = [r \in Ranges |-> Queued] /\ UNCHANGED <<tableVars, faker, since, overtaken>>
      BY <2>2 DEF CleanupStarts, CleanupOver, CleanupEnds, CleanupKilled, EndCleanup, fakerVars
    <3>2. ScanInv'
      BY <3>1 DEF ScanInv, Queued
    <3> QED BY <3>1, <3>2 DEF KeepInv, CountedUsersPresent, PutInv, ItemsOf, tableVars
  <2> QED BY <1>1, <2>1, <2>2, FakerKeepInv, RangeKeepInv DEF UserIdStep, CleanupStep, CleanupOver
<1>2. CASE UNCHANGED userVars
  BY <1>2 DEF KeepInv, CountedUsersPresent, PutInv, ScanInv, ItemsOf, userVars, tableVars, fakerVars,
              cleanVars
<1> QED BY <1>1, <1>2 DEF Next, OnUserIds, OnCqlUsers, OnVnodes, OnJavaUsers, vars

LEMMA KeepHolds == Spec => []KeepInv
<1>1. Init => KeepInv
  BY DEF Init, UserIdInit, KeepInv, CountedUsersPresent, PutInv, ScanInv, Idle, Queued
<1> QED BY <1>1, KeepNext, UserHolds, PTL DEF Spec

-----------------------------------------------------------------------------
(* A clean-up that finishes has thinned out every range *)

AtMostOne(u) == \A i, j \in ItemsOf(u) : i = j

\* A thread has thinned out the users of its range that it no longer has to do, and none
\* of the items of the user it is at is later than the maximum it read.
RangeThin(r) ==
  /\ scan[r].state = "done" => \A u \in Users : Selects(r, u) => AtMostOne(u)
  /\ scan[r].state = "scanning" =>
       \A u \in Users : Selects(r, u) => u \in scan[r].todo \/ AtMostOne(u)
  /\ scan[r].user # NoUser => \A i \in ItemsOf(scan[r].user) : i.at <= scan[r].newest

ThinInv ==
  /\ cleaning => outcome = "none"
  /\ cleaning /\ quiet => \A r \in Ranges : RangeThin(r)
  /\ outcome = "finished" /\ quiet => \A u \in Users \ Boundary : AtMostOne(u)

LEMMA FewerItems ==
  ASSUME items' \subseteq items, NEW u, AtMostOne(u)
  PROVE  AtMostOne(u)'
BY DEF AtMostOne, ItemsOf

\* Other threads take items away and put none there.
LEMMA OthersThin ==
  ASSUME items' \subseteq items, NEW r \in Ranges, RangeThin(r), scan'[r] = scan[r]
  PROVE  RangeThin(r)'
<1>1. \A u \in Users : AtMostOne(u) => AtMostOne(u)'
  BY FewerItems
<1>2. ASSUME scan[r].user # NoUser, NEW i \in items', i.user = scan[r].user
      PROVE  i.at <= scan[r].newest
  BY <1>2 DEF RangeThin, ItemsOf
<1> QED BY <1>1, <1>2 DEF RangeThin, ItemsOf

LEMMA ThreadThin ==
  ASSUME UserInv, KeepInv, NEW r \in Ranges, RangeThin(r), RangeStep(r), quiet'
  PROVE  RangeThin(r)'
<1>0. /\ scan[r] \in ScanStates /\ scan \in [Ranges -> ScanStates]
      /\ scan[r].user # NoUser => scan[r].state = "scanning" /\ scan[r].user \in scan[r].todo
  BY DEF UserInv, ScanTypes, KeepInv, ScanInv
<1>1. CASE ScanRange(r)
  <2>1. /\ scan'[r].state = "scanning" /\ scan'[r].user = NoUser /\ items' = items
        /\ scan'[r].todo = {i.user : i \in {j \in items : Selects(r, j.user)}}
    BY <1>0, <1>1 DEF ScanRange, ScanStates, tableVars
  <2>2. ASSUME NEW u \in Users, Selects(r, u), u \notin scan'[r].todo
        PROVE  AtMostOne(u)'
    BY <2>1, <2>2 DEF AtMostOne, ItemsOf
  <2> QED BY <2>1, <2>2 DEF RangeThin
<1>2. CASE RangeFails(r)
  <2>1. scan'[r].user = NoUser /\ scan'[r].state = "failed"
    BY <1>0, <1>2 DEF RangeFails, ScanStates
  <2> QED BY <2>1 DEF RangeThin
<1>3. CASE ReadNewest(r)
  <2>1. PICK u \in scan[r].todo :
           IF ItemsOf(u) = {}
           THEN scan' = [scan EXCEPT ![r].todo = @ \ {u}]
           ELSE scan' = [scan EXCEPT ![r].user = u, ![r].newest = Newest(u)]
    BY <1>3 DEF ReadNewest
  <2>2. scan[r].user = NoUser /\ scan[r].state = "scanning" /\ items' = items
    BY <1>3 DEF ReadNewest, Scanning, tableVars
  <2>3. CASE ItemsOf(u) = {}
    <3>1. /\ scan'[r].user = NoUser /\ scan'[r].todo = scan[r].todo \ {u}
          /\ scan'[r].state = "scanning"
      BY <1>0, <2>1, <2>2, <2>3 DEF ScanStates
    <3>2. AtMostOne(u)
      BY <2>3 DEF AtMostOne
    <3> QED BY <2>2, <3>1, <3>2, FewerItems DEF RangeThin
  <2>4. CASE ItemsOf(u) # {}
    <3>1. /\ scan'[r].user = u /\ scan'[r].newest = Newest(u)
          /\ scan'[r].todo = scan[r].todo /\ scan'[r].state = "scanning"
      BY <1>0, <2>1, <2>2, <2>4 DEF ScanStates
    <3>2. \A i \in ItemsOf(u) : i.at <= Newest(u)
      BY <2>4, NewestIsLatest DEF UserInv, TableTypes
    <3> QED BY <2>2, <3>1, <3>2, FewerItems DEF RangeThin, ItemsOf
  <2> QED BY <2>3, <2>4
<1>4. CASE DeleteOlder(r)
  <2> DEFINE u == scan[r].user
             t == scan[r].newest
  <2>1. /\ scan'[r].user = NoUser /\ scan'[r].state = "scanning" /\ scan[r].state = "scanning"
        /\ scan'[r].todo = scan[r].todo \ {u}
        /\ u # NoUser /\ items' = items \ Older(r)
    BY <1>0, <1>4 DEF DeleteOlder, Scanning, ScanStates
  <2>2. \A i \in items : i.at \in Int /\ i \in [user : Users, at : Times]
    BY DEF UserInv, TableTypes, Times
  <2>3. ASSUME NEW i \in items', i.user = u
        PROVE  i.at = t
    BY <2>1, <2>2, <2>3, ItemTypes DEF RangeThin, Older, ItemsOf
  <2>4. \A i, j \in items' : i.user = u /\ j.user = u => i = j
    BY <2>1, <2>2, <2>3
  <2>5. ASSUME NEW v \in Users, Selects(r, v), v \notin scan'[r].todo
        PROVE  AtMostOne(v)'
    <3>1. CASE v = u
      BY <2>4, <3>1 DEF AtMostOne, ItemsOf
    <3>2. CASE v # u
      BY <2>1, <2>5, <3>2, FewerItems DEF RangeThin
    <3> QED BY <3>1, <3>2
  <2> QED BY <2>1, <2>5 DEF RangeThin
<1>5. CASE UserFails(r)
  BY <1>5 DEF UserFails
<1>6. CASE RangeDone(r)
  <2>1. /\ scan'[r].user = NoUser /\ scan'[r].state = "done" /\ items' = items
        /\ scan[r].state = "scanning" /\ scan[r].todo = {}
    BY <1>0, <1>6 DEF RangeDone, Scanning, ScanStates, tableVars
  <2> QED BY <2>1, FewerItems DEF RangeThin
<1> QED BY <1>1, <1>2, <1>3, <1>4, <1>5, <1>6 DEF RangeStep

LEMMA ThinNext == UserInv /\ KeepInv /\ ThinInv /\ [Next]_vars => ThinInv'
<1> SUFFICES ASSUME UserInv, KeepInv, ThinInv, [Next]_vars PROVE ThinInv'
  OBVIOUS
<1>1. CASE UserIdStep
  <2>1. ASSUME UNCHANGED cleanVars, UNCHANGED <<items, quiet>> \/ ~quiet'
        PROVE  ThinInv'
    BY <2>1 DEF ThinInv, RangeThin, AtMostOne, ItemsOf, cleanVars
  <2>2. ASSUME NEW f \in Fakers, FakerStep(f)
        PROVE  UNCHANGED cleanVars /\ (UNCHANGED <<items, quiet>> \/ ~quiet')
    BY <2>2 DEF FakerStep, FakerStarts, FakerDeletes, FakerCreates, FakerTakesBatch, FakerPuts,
                FakerChecks, FakerCounts, FakerDies, DropTable, tableVars
  <2>3. ASSUME CqlAlternatorFaker
        PROVE  UNCHANGED cleanVars /\ ~quiet'
    BY <2>3 DEF CqlAlternatorFaker, DropTable
  <2>4. CASE CleanupStarts
    BY <2>4 DEF CleanupStarts, ThinInv, RangeThin, Queued
  <2>5. CASE CleanupEnds
    <3>1. /\ ~cleaning' /\ items' = items /\ quiet' = quiet /\ cleaning
          /\ outcome' = "finished" => InState("failed") = {}
      BY <2>5 DEF CleanupEnds, EndCleanup, tableVars
    <3>2. ASSUME outcome' = "finished", quiet, NEW u \in Users \ Boundary
          PROVE  AtMostOne(u)
      <4>1. PICK r \in Ranges : Selects(r, u)
        BY RangesCover
      <4>2. scan[r].state = "done"
        BY <2>5, <3>1, <3>2 DEF CleanupEnds, InState
      <4> QED BY <3>1, <3>2, <4>1, <4>2 DEF ThinInv, RangeThin
    <3> QED BY <3>1, <3>2, FewerItems DEF ThinInv
  <2>6. CASE CleanupKilled
    BY <2>6 DEF CleanupKilled, EndCleanup, ThinInv
  <2>7. ASSUME NEW r \in Ranges, RangeStep(r) PROVE ThinInv'
    <3>1. /\ cleaning /\ UNCHANGED <<cleaning, outcome>> /\ items' \subseteq items
          /\ quiet' \in {quiet, FALSE} /\ \A p \in Ranges \ {r} : scan'[p] = scan[p]
      BY <2>7, RangeStepFacts DEF UserInv, ScanTypes
    <3>2. ASSUME quiet', NEW p \in Ranges PROVE RangeThin(p)'
      <4>1. quiet /\ RangeThin(p) /\ RangeThin(r)
        BY <3>1, <3>2 DEF ThinInv
      <4> QED BY <2>7, <3>1, <3>2, <4>1, ThreadThin, OthersThin
    <3> QED BY <3>1, <3>2 DEF ThinInv
  <2> QED BY <1>1, <2>1, <2>2, <2>3, <2>4, <2>5, <2>6, <2>7 DEF UserIdStep, CleanupStep
<1>2. CASE UNCHANGED userVars
  BY <1>2 DEF ThinInv, RangeThin, AtMostOne, ItemsOf, userVars, tableVars, cleanVars
<1> QED BY <1>1, <1>2 DEF Next, OnUserIds, OnCqlUsers, OnVnodes, OnJavaUsers, vars

LEMMA ThinHolds == Spec => []ThinInv
<1>1. Init => ThinInv
  BY DEF Init, UserIdInit, ThinInv
<1> QED BY <1>1, ThinNext, UserHolds, KeepHolds, PTL DEF Spec

-----------------------------------------------------------------------------
(* Theorems *)

\* Type correctness of the table, its fillers and the clean-up: among them, that the
\* threads of the clean-up never have more ranges in work than there are threads, and
\* that a filler writes no user it was not asked for.
THEOREM UserIdTypesCorrect == Spec => []UserIdTypeOK
<1>1. UserInv => UserIdTypeOK
  BY DEF UserInv, TableTypes, FakerTypes, ScanTypes, UserIdTypeOK, FakerStates, ScanStates
<1> QED BY <1>1, UserHolds, PTL

\* Whatever a filler counts as inserted is in the table, for every table but one made anew
\* under a running clean-up: any number of fillers, conditional or not, interleaved with
\* the clean-up in any way and broken off at any request.
THEOREM CountedUsersStay == Spec => []CountedUsersPresent
<1>1. KeepInv => CountedUsersPresent
  BY DEF KeepInv
<1> QED BY <1>1, KeepHolds, PTL

\* In a table with the range key no step makes a user's latest item older, although a
\* thread deletes below a maximum it read earlier and fillers write meanwhile.
THEOREM LatestItemSurvives == Spec => LatestSurvives
<1>1. UserInv /\ KeepInv /\ [Next]_vars =>
        [table = "range" /\ table' = "range" /\ ~overtaken =>
           \A i \in items : \E j \in items' : j.user = i.user /\ j.at >= i.at]_<<userVars, clockVars>>
  <2> SUFFICES ASSUME UserInv, KeepInv, [Next]_vars, table = "range", table' = "range", ~overtaken
               PROVE  LatestStay
    BY DEF LatestStay
  <2>1. ASSUME UNCHANGED items PROVE LatestStay
    BY <2>1, ItemTypes DEF LatestStay
  <2>2. CASE UserIdStep
    <3>1. ASSUME NEW f \in Fakers, FakerStep(f) PROVE FakerPuts(f) \/ UNCHANGED items
      BY <3>1 DEF FakerStep, FakerStarts, FakerDeletes, FakerCreates, FakerTakesBatch, FakerPuts,
                  FakerChecks, FakerCounts, FakerDies, DropTable, tableVars
    <3>2. CASE CqlAlternatorFaker
      BY <3>2 DEF CqlAlternatorFaker, DropTable
    <3>3. CASE CleanupStarts \/ CleanupOver
      BY <2>1, <3>3 DEF CleanupStarts, CleanupOver, CleanupEnds, CleanupKilled, EndCleanup, tableVars
    <3> QED BY <2>1, <2>2, <3>1, <3>2, <3>3, PutKeeps, StepKeeps
            DEF UserIdStep, CleanupStep, CleanupOver, KeepInv
  <2>3. CASE UNCHANGED userVars
    BY <2>1, <2>3 DEF userVars, tableVars
  <2> QED BY <2>2, <2>3 DEF Next, OnUserIds, OnCqlUsers, OnVnodes, OnJavaUsers, vars
<1> QED BY <1>1, UserHolds, KeepHolds, PTL DEF Spec, LatestSurvives

\* A clean-up that ends with exit status 0, with nobody writing and no user skipped,
\* leaves at most one item of every user whose token is not the start of a range, for
\* every assignment of tokens, width of the ranges and number of threads.
THEOREM CleanupIsComplete == Spec => []CleanupComplete
<1>1. ThinInv => CleanupComplete
  <2> SUFFICES ASSUME ThinInv, outcome = "finished", quiet, NEW u \in Users \ Boundary
               PROVE  Cardinality(ItemsOf(u)) <= 1
    BY DEF CleanupComplete
  <2>1. AtMostOne(u)
    BY DEF ThinInv
  <2>2. CASE ItemsOf(u) = {}
    BY <2>2, FS_EmptySet
  <2>3. CASE ItemsOf(u) # {}
    <3>1. PICK i \in ItemsOf(u) : TRUE
      BY <2>3
    <3>2. ItemsOf(u) = {i}
      BY <2>1, <3>1 DEF AtMostOne
    <3> QED BY <3>2, FS_Singleton
  <2> QED BY <2>2, <2>3
<1> QED BY <1>1, ThinHolds, PTL

\* The ranges of get_token_ranges are as good as they can be but for their starts: a user
\* is selected by exactly one of them, or by none if the token is where a range starts,
\* for every width and every assignment of tokens.
THEOREM RangesSelect ==
  /\ \A u \in Users \ Boundary :
       \E r \in Ranges : Selects(r, u) /\ \A p \in Ranges : Selects(p, u) => p = r
  /\ \A u \in Boundary : \A r \in Ranges : ~Selects(r, u)
<1>1. ASSUME NEW u \in Users \ Boundary
      PROVE  \E r \in Ranges : Selects(r, u) /\ \A p \in Ranges : Selects(p, u) => p = r
  BY RangesCover, RangesDisjoint
<1> QED BY <1>1, BoundaryUnselected
=============================================================================

---------------------------- MODULE MCDemoTables ----------------------------
(* DemoTables for TLC: a ring of eight tokens, users at the edges of its ranges. *)
EXTENDS DemoTables

Filler(n, start, conditional, sorted, dropped) ==
  [first |-> start, count |-> n, conditional |-> conditional, range |-> sorted, delete |-> dropped]

MCFakers == {1, 2}
\* The first fills a table of either key, the second checks what the first has written.
MCFakerOptions ==
  <<{Filler(2, 1, FALSE, TRUE, FALSE), Filler(1, 3, TRUE, FALSE, TRUE)},
    {Filler(2, 1, TRUE, TRUE, FALSE)}>>

\* The ranges are -4 .. -1 and 0 .. 3, without -4 and 0: user 1 is the end of one, user 2
\* the start of the other.
MCMinToken == -4
MCToken == <<-1, 0, 2>>

CqlLoad(n, start, fixed, skewed, dropped) ==
  [first |-> start, count |-> n, timestamp |-> fixed, skew |-> skewed, drop |-> dropped]

MCCqlOptions ==
  {CqlLoad(3, 1, 0, 0, FALSE),      \* two batches of two
   CqlLoad(2, 1, 0, -1, FALSE),     \* an earlier time
   CqlLoad(1, 2, 2, 1, FALSE),      \* a fixed time, skewed
   CqlLoad(2, 1, 1, 0, TRUE)}       \* a fixed time in the past, -d

Ingest(n, size, procs, start, how, dropped) ==
  [row_count |-> n, batch_size |-> size, workers |-> procs, offset |-> start, mode |-> how,
   drop |-> dropped]

MCJavaOptions ==
  {Ingest(3, 2, 2, 0, "unlogged", FALSE),    \* shares 1..2 and 3..3
   Ingest(4, 2, 0, 2, "logged", TRUE),       \* shares 3..4 and 5..6
   Ingest(4, 2, 2, 0, "concurrent", TRUE),
   Ingest(3, 2, 1, 1, "none", FALSE),        \* one share, two batches
   Ingest(1, 0, 2, 0, "unlogged", FALSE)}    \* empty batches

MCSampleViews == [home |-> 2, docs |-> 1]
=============================================================================

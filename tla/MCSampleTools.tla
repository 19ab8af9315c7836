---------------------------- MODULE MCSampleTools ----------------------------
(* SampleTools for TLC: command lines that differ where it matters. *)
EXTENDS SampleTools

Plain == [hosts |-> <<[name |-> "n1", port |-> NoPort]>>, local_only |-> FALSE,
          tls |-> FALSE, mtls |-> FALSE, files |-> TRUE]
Forwarded == [Plain EXCEPT !.hosts = <<[name |-> "127.0.0.1", port |-> 9042]>>]
LocalOnly == [Plain EXCEPT !.local_only = TRUE]
Certificates == [Plain EXCEPT !.mtls = TRUE]
\* Two contact points, a port on each: understood with TLS only.
TwoPorts == [Plain EXCEPT !.hosts = <<[name |-> "n1", port |-> 9042], [name |-> "n2", port |-> 9042]>>]
TwoPortsTls == [TwoPorts EXCEPT !.tls = TRUE]
NoFiles == [TwoPortsTls EXCEPT !.files = FALSE]

Load(n, size, procs, first, parts, dropped, flags) ==
  [row_count |-> n, batch_size |-> size, workers |-> procs, offset |-> first,
   buckets |-> parts, drop |-> dropped, conn |-> flags]

MCLoadOptions ==
  {Load(3, 2, 2, 0, 2, FALSE, Plain),           \* shares 1..2 and 3..3
   Load(3, 1, 2, 4, 3, TRUE, Certificates),     \* other ids, other buckets, -d
   Load(4, 3, 3, 0, 2, FALSE, LocalOnly),       \* shares 1..2, 3..4 and none
   Load(2, 2, 0, -1, 2, FALSE, Forwarded),      \* ids 0 and 1, cpu_count() workers
   Load(0, 2, 2, 0, 2, FALSE, TwoPortsTls),     \* no rows, no jobs
   Load(2, 0, 1, 0, 1, FALSE, Plain),           \* empty batches
   Load(2, 1, 1, 0, 1, TRUE, TwoPorts),         \* the port is no number
   Load(2, 1, 1, 0, 1, TRUE, NoFiles),          \* the TLS files are missing
   Load(2, 1, 1, 0, 0, TRUE, Plain)}            \* no buckets

MCQueryOptions ==
  {[row_count |-> 2, offset |-> 0, buckets |-> 2],
   [row_count |-> 3, offset |-> 4, buckets |-> 3]}
=============================================================================

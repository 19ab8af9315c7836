--------------------------- MODULE MCOkeProvision ---------------------------
(* OkeProvision for TLC. *)
EXTENDS OkeProvision, TLC

CONSTANTS c1, c2, v1, v2

\* Clusters are alike, and so are VCNs; only for runs without liveness.
Alike == Permutations({c1, c2}) \cup Permutations({v1, v2})
=============================================================================

--------------------------- MODULE ScyllaCluster ---------------------------
(***************************************************************************)
(* The ScyllaDB cluster under the operator, as the migration scripts see   *)
(* it: the REST API of every node, the pods behind the nodes, and the      *)
(* storage mode of each node while a vnodes-to-tablets migration is in     *)
(* flight.  None of this is implemented in the repository: every operator  *)
(* is what src/sample_app/convert_to_tablets.py relies on when it calls    *)
(* the REST API or the Kubernetes API, and convert_to_tablets_kubectl.bash *)
(* when it calls nodetool, which uses the same REST API, and kubectl.      *)
(*                                                                         *)
(* Simplifications:                                                        *)
(*  - nodes are 1..N, numbered in the order the scripts visit them;        *)
(*  - the migration state is one value for the whole cluster (ScyllaDB     *)
(*    keeps it in the replicated topology table), so a status request      *)
(*    answers the same through every node whose API is up;                 *)
(*  - the storage mode belongs to a node and covers every keyspace being   *)
(*    migrated, so the per-keyspace rows of a status answer agree.         *)
(***************************************************************************)
EXTENDS Naturals, FiniteSets

CONSTANTS
  N,              \* number of nodes of the cluster
  Keyspaces,      \* keyspaces a run may name
  Addresses,      \* pod IPs Kubernetes hands out, again and again
  MaxDisruptions  \* bound: restarts nobody asked for

ASSUME NAssumption == N \in Nat \ {0}
ASSUME AddressesAssumption == IsFiniteSet(Addresses) /\ Cardinality(Addresses) >= N
ASSUME DisruptionsAssumption == MaxDisruptions \in Nat

VARIABLES
  ksState,        \* keyspace -> what its migration status reports
  current,        \* node -> storage mode its data is in
  intended,       \* node -> storage mode it adopts when it next starts
  life,           \* node -> where its process is between two starts
  addr,           \* node -> address of its pod
  disruptions     \* restarts nobody asked for, so far

modeVars == <<ksState, current, intended>>
podVars == <<life, addr>>
clusterVars == <<ksState, current, intended, life, addr, disruptions>>

Nodes == 1 .. N
Modes == {"vnodes", "tablets"}
KsStates == {"vnodes", "migrating_to_tablets", "tablets"}

\* up: serves CQL, live in gossip.  drained: the process runs and its API
\* answers, nothing else does.  terminating: the pod is being deleted.
\* down: no process, or one that is still resharding.  starting: the API
\* answers, CQL and gossip do not yet.
Lives == {"up", "drained", "terminating", "down", "starting"}

ClusterTypeOK ==
  /\ ksState \in [Keyspaces -> KsStates]
  /\ current \in [Nodes -> Modes]
  /\ intended \in [Nodes -> Modes]
  /\ life \in [Nodes -> Lives]
  /\ addr \in [Nodes -> Addresses]
  /\ disruptions \in 0 .. MaxDisruptions

-----------------------------------------------------------------------------
(* What the REST API answers *)

ApiUp(n) == life[n] # "down"

\* The node, if any, that answers a request sent to address a.
AnswersAt(n, a) == ApiUp(n) /\ addr[n] = a
Answers(a) == \E n \in Nodes : AnswersAt(n, a)

\* /gossiper/endpoint/live, and the addresses on which CQL is served.
LiveAddresses == {addr[n] : n \in {m \in Nodes : life[m] = "up"}}

InFlight == {ks \in Keyspaces : ksState[ks] = "migrating_to_tablets"}

\* "uses <mode>" and "migrating to <mode>" of a node, for one keyspace.  The
\* status of a keyspace that is not being migrated lists no nodes, and then
\* every node is in the mode of the keyspace.
Uses(n, ks, mode) ==
  IF ks \in InFlight THEN current[n] = mode /\ intended[n] = mode
                     ELSE ksState[ks] = mode
MigratingTo(n, ks, mode) ==
  ks \in InFlight /\ intended[n] = mode /\ current[n] # mode

-----------------------------------------------------------------------------
(* What the REST API and the Kubernetes API do when they are called *)

\* POST .../keyspaces/{ks}: refused while some node is marked for tablets
\* ("another migration is in progress").
MayStart(ks) == ksState[ks] = "vnodes" /\ \A n \in Nodes : intended[n] = "vnodes"
StartMigration(ks) ==
  /\ ksState' = [ksState EXCEPT ![ks] = "migrating_to_tablets"]
  /\ UNCHANGED <<current, intended>>

\* PUT .../node/storage_mode on the node that answers at address a.
SetIntended(a, mode) ==
  /\ intended' = [n \in Nodes |-> IF AnswersAt(n, a) THEN mode ELSE intended[n]]
  /\ UNCHANGED <<ksState, current>>

\* POST .../keyspaces/{ks}/finalization: the keyspace takes the mode all the
\* nodes are in, and is refused while they differ.  Once nothing is being
\* migrated any more, finished tablet marks are forgotten; a mark left on a
\* node that is still in vnodes mode is not (the stale
\* intended_storage_mode of convert_to_tablets.py).
AllIn(mode) == \A n \in Nodes : current[n] = mode
MayFinalize(ks) == ks \in InFlight /\ \E mode \in Modes : AllIn(mode)
FinalMode == IF AllIn("tablets") THEN "tablets" ELSE "vnodes"
FinalizeMigration(ks) ==
  /\ ksState' = [ksState EXCEPT ![ks] = FinalMode]
  /\ IF InFlight = {ks} /\ FinalMode = "tablets"
       THEN /\ current' = [n \in Nodes |-> "vnodes"]
            /\ intended' = [n \in Nodes |-> "vnodes"]
       ELSE UNCHANGED <<current, intended>>

\* POST /storage_service/drain on the node that answers at address a.
Drain(a) ==
  /\ life' = [n \in Nodes |-> IF AnswersAt(n, a) /\ life[n] = "up"
                                THEN "drained" ELSE life[n]]
  /\ UNCHANGED addr

\* DELETE of the pod of node n: a pod that has not come up yet is replaced by
\* another that has not.
DeletePod(n) ==
  /\ life' = [life EXCEPT ![n] = IF @ = "down" THEN "down" ELSE "terminating"]
  /\ UNCHANGED addr

-----------------------------------------------------------------------------
(* What the nodes do by themselves *)

FreeFor(n) == Addresses \ {addr[m] : m \in Nodes \ {n}}

\* The process is gone and the StatefulSet has created the replacement pod:
\* on any address nobody holds, the old one included.
PodReplaced(n) ==
  /\ life[n] = "terminating"
  /\ life' = [life EXCEPT ![n] = "down"]
  /\ \E a \in FreeFor(n) : addr' = [addr EXCEPT ![n] = a]
  /\ UNCHANGED <<modeVars, disruptions>>

\* The storage upgrade (or downgrade) runs while the node is offline, before
\* its API answers.
Boot(n) ==
  /\ life[n] = "down"
  /\ life' = [life EXCEPT ![n] = "starting"]
  /\ current' = IF InFlight # {} THEN [current EXCEPT ![n] = intended[n]] ELSE current
  /\ UNCHANGED <<ksState, intended, addr, disruptions>>

Serve(n) ==
  /\ life[n] = "starting"
  /\ life' = [life EXCEPT ![n] = "up"]
  /\ UNCHANGED <<modeVars, addr, disruptions>>

\* A restart nobody asked for: the process dies in place or the pod is
\* rescheduled on another address.
Disrupt(n) ==
  /\ disruptions < MaxDisruptions
  /\ life[n] = "up"
  /\ disruptions' = disruptions + 1
  /\ life' = [life EXCEPT ![n] = "down"]
  /\ \E a \in FreeFor(n) : addr' = [addr EXCEPT ![n] = a]
  /\ UNCHANGED modeVars

NodeStep(n) == PodReplaced(n) \/ Boot(n) \/ Serve(n)

NothingMigrated ==
  /\ ksState = [ks \in Keyspaces |-> "vnodes"]
  /\ current = [n \in Nodes |-> "vnodes"]
  /\ intended = [n \in Nodes |-> "vnodes"]

AllServing ==
  /\ life = [n \in Nodes |-> "up"]
  /\ addr \in [Nodes -> Addresses]
  /\ \A m, n \in Nodes : addr[m] = addr[n] => m = n
  /\ disruptions = 0
=============================================================================

---------------------------- MODULE OciResources ----------------------------
(***************************************************************************)
(* The OCI resources behind one OKE deployment, as the scripts under       *)
(* src/makeK8s_OKE use them: clusters and VCNs found by name, the network  *)
(* resources inside a VCN, the node pools inside a cluster, and the work   *)
(* OCI goes on doing when nobody waits for it any more.  None of it is     *)
(* implemented in the repository.                                          *)
(*                                                                         *)
(* Simplifications: all clusters and VCNs here have the configured name    *)
(* (others are never listed); a VCN that is AVAILABLE is called active, as *)
(* a cluster is; a new record may take over the id of a deleted one; two   *)
(* network resources of the same name are not modelled.                    *)
(***************************************************************************)
EXTENDS Naturals, FiniteSets, Sequences

CONSTANTS
  ClusterIds,     \* OCIDs of clusters
  VcnIds,         \* OCIDs of VCNs
  NoId            \* no OCID

ASSUME IdsAssumption == /\ ClusterIds \cap VcnIds = {}
                        /\ NoId \notin ClusterIds \cup VcnIds

VARIABLES
  parent,         \* cluster or VCN -> what listing by name shows of it
  owned,          \* clusters and VCNs that carry the ownership tag
  home,           \* cluster -> its VCN
  net,            \* VCN -> network resource -> state
  pool,           \* cluster -> node pool -> state
  sized           \* cluster -> pools that have the size configured now

ociVars == <<parent, owned, home, net, pool, sized>>

Parents == ClusterIds \cup VcnIds
Kinds == {"igw", "natgw", "rt_public", "rt_private", "sl_public", "sl_private",
          "subnet_cp", "subnet_workers", "subnet_lb"}
Pools == {"system", "scylla", "application"}

\* lingering: deleted for good, but listed as DELETING for a while longer.
\* deleted: listed as DELETED or TERMINATED until OCI forgets it (none).
ParentStates == {"none", "creating", "active", "failed", "deleting", "lingering", "deleted"}
NetStates == {"none", "creating", "active", "deleting"}

\* stuck: shown as CREATING although its work request has failed.
PoolStates == {"none", "creating", "stuck", "active", "updating", "deleting"}

OciTypeOK ==
  /\ parent \in [Parents -> ParentStates]
  /\ owned \subseteq Parents
  /\ home \in [ClusterIds -> VcnIds \cup {NoId}]
  /\ net \in [VcnIds -> [Kinds -> NetStates]]
  /\ pool \in [ClusterIds -> [Pools -> PoolStates]]
  /\ sized \in [ClusterIds -> SUBSET Pools]

Exists(x) == parent[x] \in {"creating", "active", "failed", "deleting"}

\* What a resource refers to, and must therefore outlive it.
RefersTo(kind) ==
  CASE kind = "rt_public" -> {"igw"}
    [] kind = "rt_private" -> {"natgw"}
    [] kind \in {"subnet_cp", "subnet_lb"} -> {"rt_public", "sl_public"}
    [] kind = "subnet_workers" -> {"rt_private", "sl_private"}
    [] OTHER -> {}
Subnets == {"subnet_cp", "subnet_workers", "subnet_lb"}
ClustersIn(v) == {c \in ClusterIds : Exists(c) /\ home[c] = v}
InUse(v, kind) ==
  \/ \E other \in Kinds : net[v][other] # "none" /\ kind \in RefersTo(other)
  \/ kind \in Subnets /\ ClustersIn(v) # {}
VcnInUse(v) == ClustersIn(v) # {} \/ \E kind \in Kinds : net[v][kind] # "none"

-----------------------------------------------------------------------------
(* Requests *)

\* An OCID nobody will meet again.
Fresh(x) == parent[x] \in {"none", "deleted"}

CreateVcn(v) ==
  /\ Fresh(v)
  /\ parent' = [parent EXCEPT ![v] = "creating"]
  /\ owned' = owned \cup {v}
  /\ UNCHANGED <<home, net, pool, sized>>

CreateCluster(c, v) ==
  /\ Fresh(c)
  /\ parent' = [parent EXCEPT ![c] = "creating"]
  /\ owned' = owned \cup {c}
  /\ home' = [home EXCEPT ![c] = v]
  /\ UNCHANGED <<net, pool, sized>>

CreateNet(v, kind) ==
  /\ net' = [net EXCEPT ![v][kind] = "creating"]
  /\ UNCHANGED <<parent, owned, home, pool, sized>>

CreatePool(c, p) ==
  /\ pool' = [pool EXCEPT ![c][p] = "creating"]
  /\ sized' = [sized EXCEPT ![c] = @ \cup {p}]
  /\ UNCHANGED <<parent, owned, home, net>>

ResizePool(c, p) ==
  /\ pool' = [pool EXCEPT ![c][p] = "updating"]
  /\ sized' = [sized EXCEPT ![c] = @ \cup {p}]
  /\ UNCHANGED <<parent, owned, home, net>>

\* What may be deleted: nothing that is in use, or still being created.
MayDelete(x) == parent[x] \in {"active", "failed"} /\ (x \in VcnIds => ~VcnInUse(x))
MayDeleteNet(v, kind) == net[v][kind] = "active" /\ ~InUse(v, kind)

Delete(x) ==
  /\ parent' = [parent EXCEPT ![x] = "deleting"]
  /\ UNCHANGED <<owned, home, net, pool, sized>>

DeleteNet(v, kind) ==
  /\ net' = [net EXCEPT ![v][kind] = "deleting"]
  /\ UNCHANGED <<parent, owned, home, pool, sized>>

-----------------------------------------------------------------------------
(* What OCI does by itself *)

\* The pools of a cluster go with it.
NextStates(s) ==
  CASE s = "creating" -> "active"
    [] s = "deleting" -> "lingering"
    [] s = "lingering" -> "deleted"
    [] s = "deleted" -> "none"

ParentProgress(x) ==
  /\ parent[x] \in {"creating", "deleting", "lingering", "deleted"}
  /\ parent' = [parent EXCEPT ![x] = NextStates(@)]
  /\ owned' = IF parent[x] = "deleted" THEN owned \ {x} ELSE owned
  /\ IF parent[x] = "deleting" /\ x \in ClusterIds
       THEN /\ pool' = [pool EXCEPT ![x] = [p \in Pools |-> "none"]]
            /\ sized' = [sized EXCEPT ![x] = {}]
       ELSE UNCHANGED <<pool, sized>>
  /\ UNCHANGED <<home, net>>

NetProgress(v, kind) ==
  /\ net[v][kind] \in {"creating", "deleting"}
  /\ net' = [net EXCEPT ![v][kind] = IF @ = "creating" THEN "active" ELSE "none"]
  /\ UNCHANGED <<parent, owned, home, pool, sized>>

\* OCI also reconciles a pool whose work request has failed.
PoolProgress(c, p) ==
  /\ pool[c][p] \in {"creating", "stuck", "updating", "deleting"}
  /\ pool' = [pool EXCEPT ![c][p] = IF @ = "deleting" THEN "none" ELSE "active"]
  /\ UNCHANGED <<parent, owned, home, net, sized>>

\* A work request fails: to create or to delete a cluster, to create a pool.
ClusterFails(c) ==
  /\ parent[c] \in {"creating", "deleting"}
  /\ parent' = [parent EXCEPT ![c] = "failed"]
  /\ UNCHANGED <<owned, home, net, pool, sized>>

PoolFails(c, p) ==
  /\ pool[c][p] = "creating"
  /\ pool' = [pool EXCEPT ![c][p] = "stuck"]
  /\ UNCHANGED <<parent, owned, home, net, sized>>

OciProgress ==
  \/ \E x \in Parents : ParentProgress(x)
  \/ \E v \in VcnIds, kind \in Kinds : NetProgress(v, kind)
  \/ \E c \in ClusterIds, p \in Pools : PoolProgress(c, p)

-----------------------------------------------------------------------------
(* Other people *)

\* Somebody else's cluster or VCN of the same name; a cluster is in a VCN of
\* its own.  Bound: an OCID of the kind is left for the script.
ForeignAppears(x) ==
  /\ parent[x] = "none"
  /\ \E y \in (IF x \in VcnIds THEN VcnIds ELSE ClusterIds) \ {x} : Fresh(y)
  /\ parent' = [parent EXCEPT ![x] = "active"]
  /\ home' = [c \in ClusterIds |-> IF c = x THEN NoId ELSE home[c]]
  /\ UNCHANGED <<owned, net, pool, sized>>

ForeignDeleted(x) ==
  /\ x \notin owned
  /\ parent[x] = "active"
  /\ Delete(x)

\* What the message about a failed pool asks for.
OperatorDeletesPool(c, p) ==
  /\ pool[c][p] = "stuck"
  /\ pool' = [pool EXCEPT ![c][p] = "deleting"]
  /\ UNCHANGED <<parent, owned, home, net, sized>>

OciEmpty ==
  /\ parent = [x \in Parents |-> "none"]
  /\ owned = {}
  /\ home = [c \in ClusterIds |-> NoId]
  /\ net = [v \in VcnIds |-> [kind \in Kinds |-> "none"]]
  /\ pool = [c \in ClusterIds |-> [p \in Pools |-> "none"]]
  /\ sized = [c \in ClusterIds |-> {}]
=============================================================================

---------------------------- MODULE OkeProvision ----------------------------
(***************************************************************************)
(* src/makeK8s_OKE/makeBasicCluster.bash with oke-lifecycle.bash: creating *)
(* an OKE deployment, resuming one that stopped halfway, and tearing one   *)
(* down.  A run is one walk of pc from "idle" back to "idle"; the next one *)
(* finds its place from what OCI lists.  Every request, and every listing  *)
(* that is acted on later, is a step of its own, and OCI moves in between. *)
(*                                                                         *)
(* A run dies where the script calls die; Interrupt stands for a kill, for *)
(* an OCI or kubectl command that fails, and for the checks of images,     *)
(* versions and node readiness, whose data is left out.  --preflight       *)
(* changes nothing and is left out.                                        *)
(*                                                                         *)
(* A definition marked Mutant is a plausible bug in the definition it      *)
(* precedes; no specification uses it.                                     *)
(***************************************************************************)
EXTENDS OciResources

CONSTANTS
  Attempts,       \* OKE_DISCOVERY_RETRY_ATTEMPTS
  MaxFaults       \* bound: kills, failures, strangers, changes of mind

ASSUME AttemptsAssumption == Attempts \in Nat \ {0}
ASSUME FaultsAssumption == MaxFaults \in Nat

VARIABLES
  pc,             \* the next thing the script does
  cmd,            \* "create", "resume" or "delete"
  step,           \* how far the loop over network resources or pools is
  attempt,        \* of the current loop of discovery attempts
  ocid,           \* OKE_CLUSTER_OCID
  vcnOcid,        \* OKE_VCN_OCID
  seen,           \* what a listing showed of each record the teardown selected
  netSeen,        \* what lookup_network_resources showed
  ownedAny,       \* the teardown listed a tagged record, live or not
  outcome,        \* how the last run ended
  compartment,    \* the compartment named after the cluster
  capacity,       \* the limit of the Dense I/O shape leaves room for the pool
  context,        \* the kubeconfig context is there
  tainted,        \* cluster -> pools all of whose nodes carry their taint
  faults          \* kills, failures, strangers and changes of mind, so far

runVars == <<cmd, step, attempt, ocid, vcnOcid, seen, netSeen, ownedAny>>
worldVars == <<compartment, capacity, context, tainted>>
vars == <<ociVars, pc, runVars, outcome, worldVars, faults>>

Labels == {"idle", "compartment", "propagate", "collide", "vcn", "vcn_wait", "net",
           "net_wait", "cluster", "cluster_wait", "select", "network", "pools",
           "pool_wait", "context", "taint", "list_clusters", "del_cluster",
           "del_cluster_wait", "list_vcns", "del_vcn", "del_net", "del_net_wait",
           "del_vcn_last", "del_vcn_wait", "del_context", "verify"}

CreateOrder == <<"igw", "natgw", "rt_public", "rt_private", "sl_public", "sl_private",
                 "subnet_cp", "subnet_workers", "subnet_lb">>
\* Mutant: the gateways go before the route tables that refer to them.
GatewaysFirst == <<"subnet_lb", "subnet_workers", "subnet_cp", "sl_public", "sl_private",
                   "natgw", "igw", "rt_private", "rt_public">>
DeleteOrder == <<"subnet_lb", "subnet_workers", "subnet_cp", "sl_public", "sl_private",
                 "rt_private", "rt_public", "natgw", "igw">>
PoolOrder == <<"system", "scylla", "application">>

TypeOK ==
  /\ OciTypeOK
  /\ pc \in Labels
  /\ cmd \in {"create", "resume", "delete"}
  /\ step \in 1 .. Len(CreateOrder) + 1
  /\ attempt \in 1 .. Attempts
  /\ ocid \in ClusterIds \cup {NoId}
  /\ vcnOcid \in VcnIds \cup {NoId}
  /\ seen \in [Parents -> ParentStates]
  /\ netSeen \in [Kinds -> NetStates]
  /\ ownedAny \in BOOLEAN
  /\ outcome \in {"none", "ready", "gone"}
  /\ compartment \in {"none", "creating", "active"}
  /\ capacity \in BOOLEAN
  /\ context \in BOOLEAN
  /\ tainted \in [ClusterIds -> SUBSET Pools]
  /\ faults \in 0 .. MaxFaults

-----------------------------------------------------------------------------
(* Classification of listed records (oke-lifecycle.bash) *)

IsLive(s) == s \notin {"none", "deleted"}
IsTransitioning(s) == s \in {"deleting", "lingering"}

Live(S) == {x \in S : IsLive(parent[x])}
Transitioning(S) == {x \in S : IsTransitioning(parent[x])}
Owned(S) == S \cap owned
Listed(S) == {x \in S : parent[x] # "none"}

Unseen == [x \in Parents |-> "none"]
NetUnseen == [kind \in Kinds |-> "none"]

\* Mutant: the ownership tag is not looked at.
LookUpAnybodys(S) == [x \in Parents |-> IF x \in Live(S) THEN parent[x] ELSE "none"]

\* The live tagged records of a listing.
LookUp(S) == [x \in Parents |-> IF x \in Owned(Live(S)) THEN parent[x] ELSE "none"]

Goto(label) == pc' = label
Stay == UNCHANGED <<ociVars, worldVars, outcome, faults>>

EndRun ==
  /\ pc' = "idle"
  /\ cmd' = "create"
  /\ step' = 1
  /\ attempt' = 1
  /\ ocid' = NoId
  /\ vcnOcid' = NoId
  /\ seen' = Unseen
  /\ netSeen' = NetUnseen
  /\ ownedAny' = FALSE

Die == EndRun /\ Stay

-----------------------------------------------------------------------------
(* The command line and the compartment *)

Launch(c) ==
  /\ pc = "idle"
  /\ Goto("compartment")
  /\ cmd' = c
  /\ outcome' = "none"
  /\ UNCHANGED <<step, attempt, ocid, vcnOcid, seen, netSeen, ownedAny>>
  /\ UNCHANGED <<ociVars, worldVars>>

FirstLabel == CASE cmd = "create" -> "collide"
                [] cmd = "resume" -> "select"
                [] cmd = "delete" -> "list_clusters"

\* resolve_compartment: only a teardown makes do without a compartment.
ResolveCompartment ==
  /\ pc = "compartment"
  /\ \/ /\ compartment = "active"
        /\ Goto(FirstLabel)
        /\ UNCHANGED runVars
        /\ Stay
     \/ compartment = "creating" /\ Die
     \/ /\ compartment = "none"
        /\ cmd # "delete"
        /\ compartment' = "creating"
        /\ Goto("propagate")
        /\ UNCHANGED <<ociVars, runVars, outcome, capacity, context, tainted, faults>>
     \/ /\ compartment = "none"
        /\ cmd = "delete"
        /\ context' = FALSE
        /\ outcome' = "gone"
        /\ EndRun
        /\ UNCHANGED <<ociVars, compartment, capacity, tainted, faults>>

CompartmentReady ==
  /\ pc = "propagate"
  /\ compartment = "active"
  /\ Goto(FirstLabel)
  /\ UNCHANGED runVars
  /\ Stay

-----------------------------------------------------------------------------
(* Create *)

\* Mutant: a record that is being deleted does not stand in the way.
CheckOnlyLasting ==
  /\ pc = "collide"
  /\ IF context \/ Live(Parents) \ Transitioning(Parents) # {}
       THEN Die
       ELSE Goto("vcn") /\ attempt' = 1
            /\ UNCHANGED <<cmd, step, ocid, vcnOcid, seen, netSeen, ownedAny>> /\ Stay

\* preflight_create and one attempt of oke_check_create_collisions.
CheckCreateCollisions ==
  /\ pc = "collide"
  /\ \/ /\ ~context /\ Live(Parents) = {}
        /\ Goto("vcn")
        /\ attempt' = 1
        /\ UNCHANGED <<cmd, step, ocid, vcnOcid, seen, netSeen, ownedAny>>
        /\ Stay
     \/ /\ ~context /\ Live(Parents) # {}
        /\ Live(Parents) \subseteq Transitioning(Parents)
        /\ attempt < Attempts
        /\ attempt' = attempt + 1
        /\ Goto("collide")
        /\ UNCHANGED <<cmd, step, ocid, vcnOcid, seen, netSeen, ownedAny>>
        /\ Stay
     \/ /\ \/ context
           \/ ~(Live(Parents) \subseteq Transitioning(Parents))
           \/ Live(Parents) # {} /\ attempt = Attempts
        /\ Die

RequestVcn(v) ==
  /\ pc = "vcn"
  /\ CreateVcn(v)
  /\ vcnOcid' = v
  /\ Goto("vcn_wait")
  /\ UNCHANGED <<cmd, step, attempt, ocid, seen, netSeen, ownedAny, outcome, worldVars, faults>>

VcnAvailable ==
  /\ pc = "vcn_wait"
  /\ parent[vcnOcid] = "active"
  /\ Goto("net")
  /\ UNCHANGED runVars
  /\ Stay

RequestNet ==
  /\ pc = "net"
  /\ step <= Len(CreateOrder)
  /\ CreateNet(vcnOcid, CreateOrder[step])
  /\ Goto("net_wait")
  /\ UNCHANGED <<runVars, outcome, worldVars, faults>>

NetAvailable ==
  /\ pc = "net_wait"
  /\ net[vcnOcid][CreateOrder[step]] = "active"
  /\ step' = step + 1
  /\ Goto(IF step = Len(CreateOrder) THEN "cluster" ELSE "net")
  /\ UNCHANGED <<cmd, attempt, ocid, vcnOcid, seen, netSeen, ownedAny>>
  /\ Stay

RequestCluster(c) ==
  /\ pc = "cluster"
  /\ CreateCluster(c, vcnOcid)
  /\ tainted' = [tainted EXCEPT ![c] = {}]
  /\ ocid' = c
  /\ Goto("cluster_wait")
  /\ UNCHANGED <<cmd, step, attempt, vcnOcid, seen, netSeen, ownedAny>>
  /\ UNCHANGED <<outcome, compartment, capacity, context, faults>>

\* The work request ends, and lookup_cluster finds the cluster by its tag.
ClusterCreated ==
  /\ pc = "cluster_wait"
  /\ parent[ocid] # "creating"
  /\ IF parent[ocid] = "active" /\ Owned(Live(ClusterIds)) = {ocid}
       THEN /\ Goto("pools")
            /\ step' = 1
            /\ UNCHANGED <<cmd, attempt, ocid, vcnOcid, seen, netSeen, ownedAny>>
            /\ Stay
       ELSE Die

-----------------------------------------------------------------------------
(* Resume *)

\* oke_select_resume_parents: one live cluster and one live VCN, both tagged,
\* neither in transition.
SelectResumeParents ==
  /\ pc = "select"
  /\ IF /\ Cardinality(Live(ClusterIds)) = 1
        /\ Cardinality(Live(VcnIds)) = 1
        /\ Live(Parents) \subseteq owned
        /\ \A x \in Live(Parents) : parent[x] = "active"
       THEN /\ ocid' \in Live(ClusterIds)
            /\ vcnOcid' \in Live(VcnIds)
            /\ Goto("network")
            /\ UNCHANGED <<cmd, step, attempt, seen, netSeen, ownedAny>>
            /\ Stay
       ELSE Die

\* lookup_network_resources, oke_validate_resume_network and the second look
\* at the cluster.
ValidateResumeNetwork ==
  /\ pc = "network"
  /\ IF (\A kind \in Kinds : net[vcnOcid][kind] = "active") /\ parent[ocid] = "active"
       THEN Goto("pools") /\ UNCHANGED runVars /\ Stay
       ELSE Die

-----------------------------------------------------------------------------
(* Node pools, of both *)

ThisPool == PoolOrder[step]

\* What the script finds of the pool it is at: it is reused, resized (the
\* Scylla pool has a fixed size), refused in any other state, or created.
ReusePool ==
  /\ pc = "pools"
  /\ step <= Len(PoolOrder)
  /\ pool[ocid][ThisPool] = "active"
  /\ ThisPool = "scylla" \/ ThisPool \in sized[ocid]
  /\ step' = step + 1
  /\ Goto("pools")
  /\ UNCHANGED <<cmd, attempt, ocid, vcnOcid, seen, netSeen, ownedAny>>
  /\ Stay

RequestResize ==
  /\ pc = "pools"
  /\ step <= Len(PoolOrder)
  /\ pool[ocid][ThisPool] = "active"
  /\ ThisPool # "scylla" /\ ThisPool \notin sized[ocid]
  /\ ResizePool(ocid, ThisPool)
  /\ tainted' = [tainted EXCEPT ![ocid] = @ \ {ThisPool}]
  /\ Goto("pool_wait")
  /\ UNCHANGED <<runVars, outcome, compartment, capacity, context, faults>>

RefusePool ==
  /\ pc = "pools"
  /\ step <= Len(PoolOrder)
  /\ \/ pool[ocid][ThisPool] \notin {"none", "active"}
     \/ pool[ocid][ThisPool] = "none" /\ ThisPool = "scylla" /\ ~capacity
  /\ Die

RequestPool ==
  /\ pc = "pools"
  /\ step <= Len(PoolOrder)
  /\ pool[ocid][ThisPool] = "none"
  /\ ThisPool = "scylla" => capacity
  /\ CreatePool(ocid, ThisPool)
  /\ tainted' = [tainted EXCEPT ![ocid] = @ \ {ThisPool}]
  /\ Goto("pool_wait")
  /\ UNCHANGED <<runVars, outcome, compartment, capacity, context, faults>>

\* Mutant: a work request that ended is one that succeeded.
PoolSettled ==
  /\ pc = "pool_wait"
  /\ pool[ocid][ThisPool] \in {"active", "stuck"}
  /\ step' = step + 1
  /\ Goto("pools")
  /\ UNCHANGED <<cmd, attempt, ocid, vcnOcid, seen, netSeen, ownedAny>>
  /\ Stay

\* run_oke_work_request and require_active_node_pool.
PoolReady ==
  /\ pc = "pool_wait"
  /\ pool[ocid][ThisPool] \notin {"creating", "updating"}
  /\ IF pool[ocid][ThisPool] = "active"
       THEN /\ step' = step + 1
            /\ Goto("pools")
            /\ UNCHANGED <<cmd, attempt, ocid, vcnOcid, seen, netSeen, ownedAny>>
            /\ Stay
       ELSE Die

PoolsDone ==
  /\ pc = "pools"
  /\ step > Len(PoolOrder)
  /\ Goto("context")
  /\ UNCHANGED runVars
  /\ Stay

\* A resume takes the context that is there; in a create it cannot be there.
CreateContext ==
  /\ pc = "context"
  /\ cmd = "create" => ~context
  /\ context' = TRUE
  /\ Goto("taint")
  /\ UNCHANGED <<ociVars, runVars, outcome, compartment, capacity, tainted, faults>>

\* Taints go by label: to every node a pool has now.
TaintNodes ==
  /\ pc = "taint"
  /\ tainted' = [tainted EXCEPT ![ocid] = {"scylla", "application"}]
  /\ outcome' = "ready"
  /\ EndRun
  /\ UNCHANGED <<ociVars, compartment, capacity, context, faults>>

-----------------------------------------------------------------------------
(* Teardown *)

ListClusters ==
  /\ pc = "list_clusters"
  /\ seen' = LookUp(ClusterIds)
  /\ ownedAny' = (Owned(Listed(ClusterIds)) # {})
  /\ Goto("del_cluster")
  /\ UNCHANGED <<cmd, step, attempt, ocid, vcnOcid, netSeen>>
  /\ Stay

\* Mutant: the delete request is sent and not waited for.
DeleteClusterOnly(c) ==
  /\ pc = "del_cluster"
  /\ IsLive(seen[c])
  /\ ocid' = c
  /\ Goto("del_cluster")
  /\ seen' = [seen EXCEPT ![c] = "none"]
  /\ IF MayDelete(c) THEN Delete(c) ELSE UNCHANGED ociVars
  /\ UNCHANGED <<cmd, step, attempt, vcnOcid, netSeen, ownedAny>>
  /\ UNCHANGED <<outcome, worldVars, faults>>

\* delete_cluster_record, up to its wait.
DeleteClusterRecord(c) ==
  /\ pc = "del_cluster"
  /\ IsLive(seen[c])
  /\ \/ /\ IsTransitioning(seen[c]) \/ MayDelete(c)
        /\ IF IsTransitioning(seen[c]) THEN UNCHANGED ociVars ELSE Delete(c)
        /\ ocid' = c
        /\ Goto("del_cluster_wait")
        /\ UNCHANGED <<cmd, step, attempt, vcnOcid, seen, netSeen, ownedAny>>
        /\ UNCHANGED <<outcome, worldVars, faults>>
     \/ ~IsTransitioning(seen[c]) /\ ~MayDelete(c) /\ Die

\* Deleted, or failed: the wait for a terminal state gives up, the work request
\* reports it.
ClusterDeleted ==
  /\ pc = "del_cluster_wait"
  /\ parent[ocid] # "deleting"
  /\ IF ~Exists(ocid)
       THEN /\ seen' = [seen EXCEPT ![ocid] = "none"]
            /\ Goto("del_cluster")
            /\ UNCHANGED <<cmd, step, attempt, ocid, vcnOcid, netSeen, ownedAny>>
            /\ Stay
       ELSE Die

ClustersDone ==
  /\ pc = "del_cluster"
  /\ seen = Unseen
  /\ Goto("list_vcns")
  /\ UNCHANGED runVars
  /\ Stay

ListVcns ==
  /\ pc = "list_vcns"
  /\ seen' = LookUp(VcnIds)
  /\ ownedAny' = (ownedAny \/ Owned(Listed(VcnIds)) # {})
  /\ Goto("del_vcn")
  /\ UNCHANGED <<cmd, step, attempt, ocid, vcnOcid, netSeen>>
  /\ Stay

\* A VCN that is being deleted has no network resources to delete any more.
PickVcn(v) ==
  /\ pc = "del_vcn"
  /\ IsLive(seen[v])
  /\ vcnOcid' = v
  /\ step' = 1
  /\ IF IsTransitioning(seen[v])
       THEN Goto("del_vcn_wait") /\ netSeen' = netSeen
       ELSE Goto("del_net") /\ netSeen' = net[v]
  /\ UNCHANGED <<cmd, attempt, ocid, seen, ownedAny>>
  /\ Stay

ThisKind == DeleteOrder[step]

SkipNet ==
  /\ pc = "del_net"
  /\ step <= Len(DeleteOrder)
  /\ netSeen[ThisKind] = "none"
  /\ step' = step + 1
  /\ Goto("del_net")
  /\ UNCHANGED <<cmd, attempt, ocid, vcnOcid, seen, netSeen, ownedAny>>
  /\ Stay

\* delete_network_record, up to its wait.
DeleteNetworkRecord ==
  /\ pc = "del_net"
  /\ step <= Len(DeleteOrder)
  /\ netSeen[ThisKind] # "none"
  /\ \/ /\ netSeen[ThisKind] = "deleting" \/ MayDeleteNet(vcnOcid, ThisKind)
        /\ IF netSeen[ThisKind] = "deleting" THEN UNCHANGED ociVars
                                             ELSE DeleteNet(vcnOcid, ThisKind)
        /\ Goto("del_net_wait")
        /\ UNCHANGED <<runVars, outcome, worldVars, faults>>
     \/ netSeen[ThisKind] # "deleting" /\ ~MayDeleteNet(vcnOcid, ThisKind) /\ Die

NetDeleted ==
  /\ pc = "del_net_wait"
  /\ net[vcnOcid][ThisKind] = "none"
  /\ step' = step + 1
  /\ Goto("del_net")
  /\ UNCHANGED <<cmd, attempt, ocid, vcnOcid, seen, netSeen, ownedAny>>
  /\ Stay

NetDone ==
  /\ pc = "del_net"
  /\ step > Len(DeleteOrder)
  /\ Goto("del_vcn_last")
  /\ UNCHANGED runVars
  /\ Stay

DeleteVcnRecord ==
  /\ pc = "del_vcn_last"
  /\ \/ /\ MayDelete(vcnOcid)
        /\ Delete(vcnOcid)
        /\ Goto("del_vcn_wait")
        /\ UNCHANGED <<runVars, outcome, worldVars, faults>>
     \/ ~MayDelete(vcnOcid) /\ Die

VcnDeleted ==
  /\ pc = "del_vcn_wait"
  /\ ~Exists(vcnOcid)
  /\ seen' = [seen EXCEPT ![vcnOcid] = "none"]
  /\ Goto("del_vcn")
  /\ UNCHANGED <<cmd, step, attempt, ocid, vcnOcid, netSeen, ownedAny>>
  /\ Stay

VcnsDone ==
  /\ pc = "del_vcn"
  /\ seen = Unseen
  /\ Goto("del_context")
  /\ UNCHANGED runVars
  /\ Stay

DeleteContext ==
  /\ pc = "del_context"
  /\ context' = IF ownedAny THEN FALSE ELSE context
  /\ Goto("verify")
  /\ UNCHANGED <<ociVars, runVars, outcome, compartment, capacity, tainted, faults>>

\* Mutant: what was deleted is gone.
VerifyNothing ==
  /\ pc = "verify"
  /\ outcome' = "gone"
  /\ EndRun
  /\ UNCHANGED <<ociVars, worldVars, faults>>

\* Mutant: it looks again until they are gone.
VerifyForever ==
  /\ pc = "verify"
  /\ IF Owned(Live(Parents)) = {}
       THEN /\ outcome' = "gone"
            /\ EndRun
            /\ UNCHANGED <<ociVars, worldVars, faults>>
       ELSE /\ attempt' = attempt + 1
            /\ Goto("verify")
            /\ UNCHANGED <<cmd, step, ocid, vcnOcid, seen, netSeen, ownedAny>>
            /\ Stay

\* One attempt of oke_verify_no_live_owned_parents.
VerifyNoLiveOwnedParents ==
  /\ pc = "verify"
  /\ IF Owned(Live(Parents)) = {}
       THEN /\ outcome' = "gone"
            /\ EndRun
            /\ UNCHANGED <<ociVars, worldVars, faults>>
       ELSE IF attempt = Attempts THEN Die
       ELSE /\ attempt' = attempt + 1
            /\ Goto("verify")
            /\ UNCHANGED <<cmd, step, ocid, vcnOcid, seen, netSeen, ownedAny>>
            /\ Stay

-----------------------------------------------------------------------------
(* The world around the script *)

Fault == faults < MaxFaults /\ faults' = faults + 1
ScriptUnchanged == UNCHANGED <<pc, runVars>>

Interrupt ==
  /\ pc # "idle"
  /\ Fault
  /\ EndRun
  /\ UNCHANGED <<ociVars, worldVars, outcome>>

CompartmentProgress ==
  /\ compartment = "creating"
  /\ compartment' = "active"
  /\ ScriptUnchanged
  /\ UNCHANGED <<ociVars, outcome, capacity, context, tainted, faults>>

\* What the last run reported holds until OCI or somebody else moves on.
Oci(change) == change /\ outcome' = "none" /\ ScriptUnchanged /\ UNCHANGED worldVars

OciWorks == Oci(OciProgress) /\ faults' = faults
OciFails ==
  /\ Fault
  /\ Oci(\/ \E c \in ClusterIds : ClusterFails(c)
         \/ \E c \in ClusterIds, p \in Pools : PoolFails(c, p))
StrangerCreates == Fault /\ Oci(\E x \in Parents : ForeignAppears(x))
StrangerDeletes == Oci(\E x \in Parents : ForeignDeleted(x)) /\ faults' = faults
OperatorCleansUp == Oci(\E c \in ClusterIds, p \in Pools : OperatorDeletesPool(c, p)) /\ faults' = faults

LimitChanges ==
  /\ capacity' = ~capacity
  /\ IF capacity THEN Fault ELSE faults' = faults
  /\ ScriptUnchanged
  /\ UNCHANGED <<ociVars, outcome, compartment, context, tainted>>

\* oke.conf asks for another size from now on.
Reconfigure(c, p) ==
  /\ pc = "idle"
  /\ Fault
  /\ p \in sized[c] /\ p # "scylla"
  /\ sized' = [sized EXCEPT ![c] = @ \ {p}]
  /\ outcome' = "none"
  /\ ScriptUnchanged
  /\ UNCHANGED <<parent, owned, home, net, pool, worldVars>>

\* What the message about an existing context asks for.
OperatorRemovesContext ==
  /\ pc = "idle"
  /\ context
  /\ Owned(Live(Parents)) = {}
  /\ context' = FALSE
  /\ ScriptUnchanged
  /\ UNCHANGED <<ociVars, outcome, compartment, capacity, tainted, faults>>

NoRun ==
  /\ pc = "idle"
  /\ cmd = "create"
  /\ step = 1
  /\ attempt = 1
  /\ ocid = NoId
  /\ vcnOcid = NoId
  /\ seen = Unseen
  /\ netSeen = NetUnseen
  /\ ownedAny = FALSE
  /\ outcome = "none"

Init ==
  /\ OciEmpty
  /\ NoRun
  /\ compartment = "none"
  /\ capacity \in BOOLEAN
  /\ context = FALSE
  /\ tainted = [c \in ClusterIds |-> {}]
  /\ faults = 0

ScriptStep ==
  \/ ResolveCompartment
  \/ CompartmentReady
  \/ CheckCreateCollisions
  \/ \E v \in VcnIds : RequestVcn(v)
  \/ VcnAvailable
  \/ RequestNet
  \/ NetAvailable
  \/ \E c \in ClusterIds : RequestCluster(c)
  \/ ClusterCreated
  \/ SelectResumeParents
  \/ ValidateResumeNetwork
  \/ ReusePool
  \/ RequestResize
  \/ RefusePool
  \/ RequestPool
  \/ PoolReady
  \/ PoolsDone
  \/ CreateContext
  \/ TaintNodes
  \/ ListClusters
  \/ \E c \in ClusterIds : DeleteClusterRecord(c)
  \/ ClusterDeleted
  \/ ClustersDone
  \/ ListVcns
  \/ \E v \in VcnIds : PickVcn(v)
  \/ SkipNet
  \/ DeleteNetworkRecord
  \/ NetDeleted
  \/ NetDone
  \/ DeleteVcnRecord
  \/ VcnDeleted
  \/ VcnsDone
  \/ DeleteContext
  \/ VerifyNoLiveOwnedParents

-----------------------------------------------------------------------------
(* The operator, and the whole *)

NetComplete(v) == \A kind \in Kinds : net[v][kind] = "active"

\* What --resume takes up.
Resumable(c, v) ==
  /\ Live(ClusterIds) = {c} /\ Live(VcnIds) = {v}
  /\ {c, v} \subseteq owned
  /\ parent[c] = "active" /\ parent[v] = "active"
  /\ NetComplete(v)

\* The deployment the README promises.
Complete(c, v) ==
  /\ {c, v} \subseteq owned
  /\ parent[c] = "active" /\ parent[v] = "active" /\ home[c] = v
  /\ NetComplete(v)
  /\ \A p \in Pools : pool[c][p] = "active"
  /\ {"system", "application"} \subseteq sized[c]
  /\ {"scylla", "application"} \subseteq tainted[c]
  /\ context
Deployed == \E c \in ClusterIds, v \in VcnIds : Complete(c, v)

\* What the messages of the script tell an operator to do next, who wants the
\* deployment: resume it if it can be resumed, else take it down and start over.
Advised(c) ==
  IF \E cluster \in ClusterIds, v \in VcnIds : Resumable(cluster, v)
    THEN c = "resume"
    ELSE IF Owned(Live(Parents)) # {} THEN c = "delete"
    ELSE c = "create" /\ ~context

\* Any other command, or none needed, is a change of mind.
LaunchAny ==
  \E c \in {"create", "resume", "delete"} :
    /\ Launch(c)
    /\ IF ~Deployed /\ Advised(c) THEN faults' = faults ELSE Fault

LaunchAdvised ==
  /\ ~Deployed
  /\ \E c \in {"create", "resume", "delete"} : Advised(c) /\ Launch(c)
  /\ faults' = faults

Next ==
  \/ LaunchAny
  \/ ScriptStep
  \/ Interrupt
  \/ CompartmentProgress
  \/ OciWorks
  \/ OciFails
  \/ StrangerCreates
  \/ StrangerDeletes
  \/ OperatorCleansUp
  \/ LimitChanges
  \/ \E c \in ClusterIds, p \in Pools : Reconfigure(c, p)
  \/ OperatorRemovesContext

Spec == Init /\ [][Next]_vars

\* A run goes on until it ends, OCI works its requests off, and the operator
\* starts the command advised and removes the context that is in the way.
FairSpec ==
  /\ Spec
  /\ WF_vars(ScriptStep)
  /\ WF_vars(OciWorks)
  /\ WF_vars(CompartmentProgress)
  /\ WF_vars(LaunchAdvised)
  /\ WF_vars(OperatorRemovesContext)

-----------------------------------------------------------------------------
(* Properties *)

\* There is at most one deployment: two live tagged clusters or VCNs of the
\* name would make every later resume refuse and every teardown a guess.
SingleDeployment ==
  /\ Cardinality(Owned(Live(ClusterIds))) <= 1
  /\ Cardinality(Owned(Live(VcnIds))) <= 1

\* The teardown asks for deletions in an order OCI accepts: whatever is still
\* being created when it lists, nothing it deletes is in use by something else.
DeletesUnblocked ==
  /\ pc = "del_net" /\ step <= Len(DeleteOrder) /\ netSeen[ThisKind] # "none"
       => ~InUse(vcnOcid, ThisKind)
  /\ pc = "del_vcn_last" => ~VcnInUse(vcnOcid)

\* "Deleted OKE infrastructure" is the truth: no tagged cluster or VCN is
\* listed as live, and nothing that was inside one is left.
GoneMeansGone ==
  outcome = "gone" =>
    /\ Owned(Live(Parents)) = {}
    /\ \A v \in VcnIds, kind \in Kinds : net[v][kind] = "none"
    /\ \A c \in ClusterIds, p \in Pools : pool[c][p] = "none"

\* "OKE cluster is ready" is the truth, over however many interrupted runs it
\* took: network, pools, sizes, taints and context are all there.
ReadyMeansComplete == outcome = "ready" => Deployed

\* What the README says of -d: it also removes the kubeconfig context.
GoneTakesContext == outcome = "gone" => ~context

\* The script never deletes a cluster or VCN without the ownership tag, nor
\* one that took the tagged one's place after it was listed.
ForeignUntouched ==
  [][\A x \in Parents \ owned :
       parent[x] # "deleting" /\ parent'[x] = "deleting" => pc' = pc]_vars

\* Following the script's own advice leads to the deployment, whatever failed
\* or was killed before, once there is capacity and no stranger in the way.
ProvisionCompletes ==
  <>[](capacity /\ Live(Parents) \subseteq owned) => <>[]Deployed
=============================================================================

------------------------- MODULE OkeProvision_proofs -------------------------
(***************************************************************************)
(* Safety of the OKE provisioning for every set of OCIDs, every number of  *)
(* discovery attempts and every bound on faults.                           *)
(***************************************************************************)
EXTENDS OkeProvision, FiniteSetTheorems, TLAPS

-----------------------------------------------------------------------------
(* Types *)

RunTypeOK ==
  /\ pc \in Labels
  /\ cmd \in {"create", "resume", "delete"}
  /\ step \in 1 .. Len(CreateOrder) + 1
  /\ attempt \in 1 .. Attempts
  /\ ocid \in ClusterIds \cup {NoId}
  /\ vcnOcid \in VcnIds \cup {NoId}
  /\ seen \in [Parents -> ParentStates]
  /\ netSeen \in [Kinds -> NetStates]
  /\ ownedAny \in BOOLEAN

WorldTypeOK ==
  /\ outcome \in {"none", "ready", "gone"}
  /\ compartment \in {"none", "creating", "active"}
  /\ capacity \in BOOLEAN
  /\ context \in BOOLEAN
  /\ tainted \in [ClusterIds -> SUBSET Pools]
  /\ faults \in 0 .. MaxFaults

\* Inside a loop the step is one the loop has.
StepInv ==
  /\ pc = "net_wait" => step <= 9
  /\ pc = "pool_wait" => step <= 3
  /\ pc = "del_net_wait" => step <= 9

TypeInv == OciTypeOK /\ RunTypeOK /\ WorldTypeOK /\ StepInv

LEMMA Lengths == Len(CreateOrder) = 9 /\ Len(DeleteOrder) = 9 /\ Len(PoolOrder) = 3
  BY DEF CreateOrder, DeleteOrder, PoolOrder

LEMMA PoolNames == \A i \in 1 .. 3 : PoolOrder[i] \in Pools
  BY DEF PoolOrder, Pools

\* Updating one entry of a function of functions keeps its type.
LEMMA EntryUpdate ==
  ASSUME NEW A, NEW B, NEW S, NEW f \in [A -> [B -> S]], NEW a, NEW b, NEW s \in S
  PROVE  [f EXCEPT ![a][b] = s] \in [A -> [B -> S]]
<1> DEFINE row == [f[a] EXCEPT ![b] = s]
           g == [f EXCEPT ![a] = row]
<1>1. ASSUME a \in A PROVE row \in [B -> S]
  BY <1>1
<1>2. \A x \in A : g[x] \in [B -> S]
  BY <1>1
<1>3. g \in [A -> [B -> S]]
  BY <1>2
<1> QED BY <1>3

\* The requests a step of the script may send, and what OCI and others do.
OciInside ==
  \/ UNCHANGED ociVars
  \/ \E kind : CreateNet(vcnOcid, kind) \/ DeleteNet(vcnOcid, kind)
  \/ \E p \in Pools : CreatePool(ocid, p) \/ ResizePool(ocid, p)

OciParents ==
  \/ \E v \in VcnIds : RequestVcn(v)
  \/ \E c \in ClusterIds : RequestCluster(c)
  \/ \E c \in ClusterIds : DeleteClusterRecord(c)
  \/ DeleteVcnRecord

OciOrOthers ==
  \/ OciProgress
  \/ \E c \in ClusterIds : ClusterFails(c)
  \/ \E c \in ClusterIds, p \in Pools : PoolFails(c, p) \/ OperatorDeletesPool(c, p)
  \/ \E x \in Parents : ForeignAppears(x) \/ ForeignDeleted(x)

LEMMA ScriptRequests ==
  ASSUME RunTypeOK, ScriptStep
  PROVE  OciInside \/ OciParents
<1> USE DEF OciInside
<1>1. ASSUME RequestResize \/ RequestPool PROVE OciInside
  <2>1. ThisPool \in Pools
    BY <1>1, Lengths, PoolNames DEF RequestResize, RequestPool, ThisPool, RunTypeOK
  <2> QED BY <1>1, <2>1 DEF RequestResize, RequestPool
<1>3. ASSUME DeleteNetworkRecord \/ RequestNet PROVE OciInside
  BY <1>3 DEF DeleteNetworkRecord, RequestNet, Die, Stay
<1>7. CASE ResolveCompartment \/ CompartmentReady \/ CheckCreateCollisions
  BY <1>7 DEF ResolveCompartment, CompartmentReady, CheckCreateCollisions, Die, Stay
<1>8. CASE VcnAvailable \/ NetAvailable \/ ClusterCreated \/ SelectResumeParents
           \/ ValidateResumeNetwork
  BY <1>8 DEF VcnAvailable, NetAvailable, ClusterCreated, SelectResumeParents,
              ValidateResumeNetwork, Die, Stay
<1>9. CASE ReusePool \/ RefusePool \/ PoolReady \/ PoolsDone \/ CreateContext \/ TaintNodes
  BY <1>9 DEF ReusePool, RefusePool, PoolReady, PoolsDone, CreateContext, TaintNodes, Die, Stay
<1>10. CASE \/ ListClusters \/ ClusterDeleted \/ ClustersDone \/ ListVcns
            \/ \E v \in VcnIds : PickVcn(v)
  BY <1>10 DEF ListClusters, ClusterDeleted, ClustersDone, ListVcns, PickVcn, Die, Stay
<1>11. CASE \/ SkipNet \/ NetDeleted \/ NetDone \/ VcnDeleted \/ VcnsDone
            \/ DeleteContext \/ VerifyNoLiveOwnedParents
  BY <1>11 DEF SkipNet, NetDeleted, NetDone, VcnDeleted, VcnsDone, DeleteContext,
               VerifyNoLiveOwnedParents, Die, Stay
<1> QED BY <1>1, <1>3, <1>7, <1>8, <1>9, <1>10, <1>11 DEF ScriptStep, OciParents

\* They keep the types of OCI's records.
LEMMA ScriptOciTypes ==
  ASSUME OciTypeOK, RunTypeOK, OciInside \/ OciParents
  PROVE  OciTypeOK'
<1>1. CASE UNCHANGED ociVars
  BY <1>1 DEF ociVars, OciTypeOK
<1>2. ASSUME NEW v \in VcnIds, RequestVcn(v) PROVE OciTypeOK'
  BY <1>2 DEF RequestVcn, CreateVcn, OciTypeOK, Parents, ParentStates
<1>3. ASSUME NEW c \in ClusterIds, RequestCluster(c) PROVE OciTypeOK'
  BY <1>3 DEF RequestCluster, CreateCluster, OciTypeOK, RunTypeOK, Parents, ParentStates
<1>4. ASSUME NEW kind, CreateNet(vcnOcid, kind) \/ DeleteNet(vcnOcid, kind)
      PROVE  OciTypeOK'
  <2>1. "creating" \in NetStates /\ "deleting" \in NetStates
    BY DEF NetStates
  <2> DEFINE Moved(s) == [net EXCEPT ![vcnOcid][kind] = s]
  <2>2. \A s \in NetStates : Moved(s) \in [VcnIds -> [Kinds -> NetStates]]
    BY EntryUpdate DEF OciTypeOK
  <2>3. net' = Moved("creating") \/ net' = Moved("deleting")
    BY <1>4 DEF CreateNet, DeleteNet
  <2>4. net' \in [VcnIds -> [Kinds -> NetStates]]
    BY <2>1, <2>2, <2>3
  <2> QED BY <1>4, <2>4 DEF CreateNet, DeleteNet, OciTypeOK
<1>5. ASSUME NEW p \in Pools, CreatePool(ocid, p) \/ ResizePool(ocid, p)
      PROVE  OciTypeOK'
  <2>1. pool' \in [ClusterIds -> [Pools -> PoolStates]]
    <3> DEFINE Moved(s) == [pool EXCEPT ![ocid][p] = s]
    <3>1. "creating" \in PoolStates /\ "updating" \in PoolStates
      BY DEF PoolStates
    <3>2. \A s \in PoolStates : Moved(s) \in [ClusterIds -> [Pools -> PoolStates]]
      BY EntryUpdate DEF OciTypeOK
    <3>3. pool' = Moved("creating") \/ pool' = Moved("updating")
      BY <1>5 DEF CreatePool, ResizePool
    <3> QED BY <3>1, <3>2, <3>3
  <2>2. sized' \in [ClusterIds -> SUBSET Pools]
    BY <1>5 DEF CreatePool, ResizePool, OciTypeOK
  <2> QED BY <1>5, <2>1, <2>2 DEF CreatePool, ResizePool, OciTypeOK
<1>6. ASSUME NEW x, Delete(x) PROVE OciTypeOK'
  BY <1>6 DEF Delete, OciTypeOK, ParentStates
<1>7. ASSUME NEW c \in ClusterIds, DeleteClusterRecord(c) PROVE OciTypeOK'
  BY <1>1, <1>6, <1>7 DEF DeleteClusterRecord, Die, Stay
<1>8. CASE DeleteVcnRecord
  BY <1>1, <1>6, <1>8 DEF DeleteVcnRecord, Die, Stay
<1> QED BY <1>1, <1>2, <1>3, <1>4, <1>5, <1>7, <1>8 DEF OciInside, OciParents

LEMMA OciOrOthersTypes ==
  ASSUME OciTypeOK, OciOrOthers
  PROVE  OciTypeOK'
<1>1. ASSUME NEW x \in Parents, ParentProgress(x) PROVE OciTypeOK'
  <2>1. parent' \in [Parents -> ParentStates]
    BY <1>1 DEF ParentProgress, OciTypeOK, ParentStates, NextStates
  <2>2. owned' \subseteq Parents
    BY <1>1 DEF ParentProgress, OciTypeOK
  <2>3. pool' \in [ClusterIds -> [Pools -> PoolStates]]
    BY <1>1 DEF ParentProgress, OciTypeOK, PoolStates
  <2>4. sized' \in [ClusterIds -> SUBSET Pools]
    BY <1>1 DEF ParentProgress, OciTypeOK
  <2> QED BY <1>1, <2>1, <2>2, <2>3, <2>4 DEF ParentProgress, OciTypeOK
<1>2. ASSUME NEW v \in VcnIds, NEW kind \in Kinds, NetProgress(v, kind) PROVE OciTypeOK'
  BY <1>2 DEF NetProgress, OciTypeOK, NetStates
<1>3. ASSUME NEW c \in ClusterIds, NEW p \in Pools,
             PoolProgress(c, p) \/ PoolFails(c, p) \/ OperatorDeletesPool(c, p)
      PROVE  OciTypeOK'
  <2> DEFINE Moved(s) == [pool EXCEPT ![c][p] = s]
  <2>1. \A s \in PoolStates : Moved(s) \in [ClusterIds -> [Pools -> PoolStates]]
    BY EntryUpdate DEF OciTypeOK
  <2>2. \E s \in PoolStates : pool' = Moved(s)
    BY <1>3 DEF PoolProgress, PoolFails, OperatorDeletesPool, PoolStates, OciTypeOK
  <2> QED BY <1>3, <2>1, <2>2
          DEF PoolProgress, PoolFails, OperatorDeletesPool, OciTypeOK
<1>4. ASSUME NEW c \in ClusterIds, ClusterFails(c) PROVE OciTypeOK'
  BY <1>4 DEF ClusterFails, OciTypeOK, ParentStates
<1>5. ASSUME NEW x \in Parents, ForeignAppears(x) PROVE OciTypeOK'
  BY <1>5 DEF ForeignAppears, OciTypeOK, ParentStates
<1>6. ASSUME NEW x \in Parents, ForeignDeleted(x) PROVE OciTypeOK'
  BY <1>6 DEF ForeignDeleted, Delete, OciTypeOK, ParentStates
<1> QED BY <1>1, <1>2, <1>3, <1>4, <1>5, <1>6 DEF OciProgress, OciOrOthers

LEMMA ListingTypes ==
  ASSUME OciTypeOK, NEW S
  PROVE  LookUp(S) \in [Parents -> ParentStates]
BY DEF LookUp, OciTypeOK, ParentStates

\* A run that has ended has forgotten everything.
LEMMA EndRunTypes ==
  ASSUME EndRun
  PROVE  RunTypeOK' /\ StepInv'
<1>1. pc' \in Labels /\ 1 \in 1 .. 10 /\ 1 \in 1 .. Attempts
  BY AttemptsAssumption DEF EndRun, Labels
<1>2. Unseen \in [Parents -> ParentStates] /\ NetUnseen \in [Kinds -> NetStates]
  BY DEF Unseen, NetUnseen, ParentStates, NetStates
<1>3. RunTypeOK'
  <2>1. step' \in 1 .. Len(CreateOrder) + 1
    BY <1>1, Lengths DEF EndRun
  <2>2. seen' \in [Parents -> ParentStates] /\ netSeen' \in [Kinds -> NetStates]
    BY <1>2 DEF EndRun
  <2>3. attempt' \in 1 .. Attempts /\ ownedAny' \in BOOLEAN
    BY <1>1 DEF EndRun
  <2> QED BY <1>1, <2>1, <2>2, <2>3 DEF EndRun, RunTypeOK
<1>4. StepInv'
  BY DEF EndRun, StepInv
<1> QED BY <1>3, <1>4

\* The three groups of labels a step of the script may be in.
CreateStep ==
  \/ ResolveCompartment \/ CompartmentReady \/ CheckCreateCollisions
  \/ \E v \in VcnIds : RequestVcn(v)
  \/ VcnAvailable \/ RequestNet \/ NetAvailable
  \/ \E c \in ClusterIds : RequestCluster(c)
  \/ ClusterCreated \/ SelectResumeParents \/ ValidateResumeNetwork

PoolStep ==
  \/ ReusePool \/ RequestResize \/ RefusePool \/ RequestPool \/ PoolReady
  \/ PoolsDone \/ CreateContext \/ TaintNodes

DeleteStep ==
  \/ ListClusters \/ \E c \in ClusterIds : DeleteClusterRecord(c)
  \/ ClusterDeleted \/ ClustersDone \/ ListVcns
  \/ \E v \in VcnIds : PickVcn(v)
  \/ SkipNet \/ DeleteNetworkRecord \/ NetDeleted \/ NetDone
  \/ DeleteVcnRecord \/ VcnDeleted \/ VcnsDone \/ DeleteContext
  \/ VerifyNoLiveOwnedParents

\* The variables of the run, one group of labels after the other.
LEMMA CreateRunTypes ==
  ASSUME TypeInv, CreateStep
  PROVE  RunTypeOK' /\ StepInv'
<1> USE Lengths, AttemptsAssumption DEF TypeInv, RunTypeOK, StepInv, Labels, runVars
<1>1. CASE EndRun
  BY <1>1, EndRunTypes
<1>2. CASE ResolveCompartment
  BY <1>1, <1>2 DEF ResolveCompartment, Die, Goto, FirstLabel
<1>3. CASE CompartmentReady
  BY <1>3 DEF CompartmentReady, Goto, FirstLabel
<1>4. CASE CheckCreateCollisions
  BY <1>1, <1>4 DEF CheckCreateCollisions, Die, Goto
<1>5. ASSUME NEW v \in VcnIds, RequestVcn(v) PROVE RunTypeOK' /\ StepInv'
  BY <1>5 DEF RequestVcn, Goto
<1>6. CASE VcnAvailable \/ RequestNet
  BY <1>6 DEF VcnAvailable, RequestNet, Goto
<1>7. CASE NetAvailable
  BY <1>7 DEF NetAvailable, Goto
<1>8. ASSUME NEW c \in ClusterIds, RequestCluster(c) PROVE RunTypeOK' /\ StepInv'
  BY <1>8 DEF RequestCluster, Goto
<1>9. CASE ClusterCreated
  BY <1>1, <1>9 DEF ClusterCreated, Die, Goto
<1>10. CASE SelectResumeParents
  BY <1>1, <1>10 DEF SelectResumeParents, Die, Goto, Live
<1>11. CASE ValidateResumeNetwork
  BY <1>1, <1>11 DEF ValidateResumeNetwork, Die, Goto
<1> QED BY <1>2, <1>3, <1>4, <1>5, <1>6, <1>7, <1>8, <1>9, <1>10, <1>11 DEF CreateStep

LEMMA PoolRunTypes ==
  ASSUME TypeInv, PoolStep
  PROVE  RunTypeOK' /\ StepInv'
<1> USE Lengths DEF TypeInv, RunTypeOK, StepInv, Labels, runVars
<1>1. CASE EndRun
  BY <1>1, EndRunTypes
<1>2. CASE ReusePool
  BY <1>2 DEF ReusePool, Goto
<1>3. CASE RequestResize \/ RequestPool
  BY <1>3 DEF RequestResize, RequestPool, Goto
<1>4. CASE RefusePool \/ TaintNodes
  BY <1>1, <1>4 DEF RefusePool, TaintNodes, Die
<1>5. CASE PoolReady
  BY <1>1, <1>5 DEF PoolReady, Die, Goto
<1>6. CASE PoolsDone \/ CreateContext
  BY <1>6 DEF PoolsDone, CreateContext, Goto
<1> QED BY <1>2, <1>3, <1>4, <1>5, <1>6 DEF PoolStep

LEMMA DeleteRunTypes ==
  ASSUME TypeInv, DeleteStep
  PROVE  RunTypeOK' /\ StepInv'
<1> USE Lengths, AttemptsAssumption DEF TypeInv, RunTypeOK, StepInv, Labels, runVars
<1>1. CASE EndRun
  BY <1>1, EndRunTypes
<1>2. CASE ListClusters
  BY <1>2, ListingTypes DEF ListClusters, Goto
<1>3. ASSUME NEW c \in ClusterIds, DeleteClusterRecord(c) PROVE RunTypeOK' /\ StepInv'
  BY <1>1, <1>3 DEF DeleteClusterRecord, Die, Goto
<1>4. CASE ClusterDeleted
  BY <1>1, <1>4 DEF ClusterDeleted, Die, Goto, ParentStates
<1>5. CASE ListVcns
  BY <1>5, ListingTypes DEF ListVcns, Goto
<1>6. ASSUME NEW v \in VcnIds, PickVcn(v) PROVE RunTypeOK' /\ StepInv'
  BY <1>6 DEF PickVcn, Goto, OciTypeOK
<1>7. CASE SkipNet \/ NetDeleted
  BY <1>7 DEF SkipNet, NetDeleted, Goto
<1>8. CASE DeleteNetworkRecord
  BY <1>1, <1>8 DEF DeleteNetworkRecord, Die, Goto
<1>9. CASE DeleteVcnRecord
  BY <1>1, <1>9 DEF DeleteVcnRecord, Die, Goto
<1>10. CASE VcnDeleted
  BY <1>10 DEF VcnDeleted, Goto, ParentStates
<1>11. CASE ClustersDone \/ NetDone \/ VcnsDone \/ DeleteContext
  BY <1>11 DEF ClustersDone, NetDone, VcnsDone, DeleteContext, Goto
<1>12. CASE VerifyNoLiveOwnedParents
  BY <1>1, <1>12 DEF VerifyNoLiveOwnedParents, Die, Goto
<1> QED BY <1>2, <1>3, <1>4, <1>5, <1>6, <1>7, <1>8, <1>9, <1>10, <1>11, <1>12 DEF DeleteStep

\* Steps beside the script leave its variables alone, or end the run.
LEMMA WorldRunTypes ==
  ASSUME TypeInv, UNCHANGED <<pc, runVars>>
  PROVE  RunTypeOK' /\ StepInv'
BY DEF TypeInv, RunTypeOK, StepInv, runVars

LEMMA LaunchTypes ==
  ASSUME TypeInv, NEW c \in {"create", "resume", "delete"}, Launch(c)
  PROVE  RunTypeOK' /\ StepInv'
BY DEF TypeInv, RunTypeOK, StepInv, Launch, Goto, Labels

\* What a fault may add to the count.
LEMMA FaultTypes ==
  ASSUME WorldTypeOK, Fault \/ faults' = faults
  PROVE  faults' \in 0 .. MaxFaults
BY FaultsAssumption DEF WorldTypeOK, Fault

\* Every step of the script keeps the types of what is beside it.
LEMMA ScriptWorldTypes ==
  ASSUME WorldTypeOK, ScriptStep
  PROVE  WorldTypeOK'
<1> USE DEF WorldTypeOK, worldVars
<1>1. CASE UNCHANGED <<worldVars, outcome, faults>>
  BY <1>1
<1>2. CASE ResolveCompartment
  BY <1>1, <1>2 DEF ResolveCompartment, Die, Stay
<1>3. ASSUME NEW c \in ClusterIds, RequestCluster(c) PROVE WorldTypeOK'
  BY <1>3 DEF RequestCluster
<1>4. CASE RequestResize \/ RequestPool \/ TaintNodes
  BY <1>4 DEF RequestResize, RequestPool, TaintNodes, Pools
<1>5. CASE CreateContext \/ DeleteContext
  BY <1>5 DEF CreateContext, DeleteContext
<1>6. CASE VerifyNoLiveOwnedParents
  BY <1>1, <1>6 DEF VerifyNoLiveOwnedParents, Die, Stay
<1>7. CASE \/ CompartmentReady \/ CheckCreateCollisions \/ \E v \in VcnIds : RequestVcn(v)
           \/ VcnAvailable \/ RequestNet \/ NetAvailable \/ ClusterCreated
           \/ SelectResumeParents \/ ValidateResumeNetwork
  BY <1>1, <1>7 DEF CompartmentReady, CheckCreateCollisions, RequestVcn, VcnAvailable,
     RequestNet, NetAvailable, ClusterCreated, SelectResumeParents, ValidateResumeNetwork,
     Die, Stay
<1>8. CASE \/ ReusePool \/ RefusePool \/ PoolReady \/ PoolsDone
           \/ ListClusters \/ \E c \in ClusterIds : DeleteClusterRecord(c)
           \/ ClusterDeleted \/ ClustersDone \/ ListVcns
  BY <1>1, <1>8 DEF ReusePool, RefusePool, PoolReady, PoolsDone, ListClusters,
     DeleteClusterRecord, ClusterDeleted, ClustersDone, ListVcns, Die, Stay
<1>9. CASE \/ \E v \in VcnIds : PickVcn(v)
           \/ SkipNet \/ DeleteNetworkRecord \/ NetDeleted \/ NetDone
           \/ DeleteVcnRecord \/ VcnDeleted \/ VcnsDone
  BY <1>1, <1>9 DEF PickVcn, SkipNet, DeleteNetworkRecord, NetDeleted, NetDone,
     DeleteVcnRecord, VcnDeleted, VcnsDone, Die, Stay
<1> QED BY <1>2, <1>3, <1>4, <1>5, <1>6, <1>7, <1>8, <1>9 DEF ScriptStep

\* What moves beside the script: OCI, others, and the operator's settings.
Settings ==
  \/ CompartmentProgress \/ LimitChanges \/ OperatorRemovesContext
  \/ \E c \in ClusterIds, p \in Pools : Reconfigure(c, p)

LEMMA OciOrOthersStep ==
  ASSUME OciWorks \/ OciFails \/ StrangerCreates \/ StrangerDeletes \/ OperatorCleansUp
  PROVE  /\ OciOrOthers /\ (Fault \/ faults' = faults)
         /\ outcome' = "none" /\ UNCHANGED <<pc, runVars, worldVars>>
BY DEF OciWorks, OciFails, StrangerCreates, StrangerDeletes, OperatorCleansUp, Oci,
       OciOrOthers, ScriptUnchanged

LEMMA SettingsTypes ==
  ASSUME TypeInv, Settings
  PROVE  TypeInv'
<1>1. UNCHANGED <<pc, runVars>>
  BY DEF Settings, CompartmentProgress, LimitChanges, OperatorRemovesContext, Reconfigure,
         ScriptUnchanged
<1>2. faults' \in 0 .. MaxFaults
  BY FaultTypes DEF Settings, CompartmentProgress, LimitChanges, OperatorRemovesContext,
     Reconfigure, TypeInv
<1>3. WorldTypeOK'
  BY <1>2 DEF Settings, CompartmentProgress, LimitChanges, OperatorRemovesContext,
     Reconfigure, TypeInv, WorldTypeOK, worldVars
<1>4. OciTypeOK'
  BY DEF Settings, CompartmentProgress, LimitChanges, OperatorRemovesContext,
     Reconfigure, TypeInv, OciTypeOK, ociVars
<1> QED BY <1>1, <1>3, <1>4, WorldRunTypes DEF TypeInv

LEMMA TypeStep ==
  ASSUME TypeInv, [Next]_vars
  PROVE  TypeInv'
<1>1. CASE LaunchAny
  <2>1. PICK c \in {"create", "resume", "delete"} :
          Launch(c) /\ (Fault \/ faults' = faults)
    BY <1>1 DEF LaunchAny
  <2>2. WorldTypeOK'
    BY <2>1, FaultTypes DEF Launch, TypeInv, WorldTypeOK, worldVars
  <2>3. OciTypeOK'
    BY <2>1 DEF Launch, TypeInv, OciTypeOK, ociVars
  <2> QED BY <2>1, <2>2, <2>3, LaunchTypes DEF TypeInv
<1>2. CASE ScriptStep
  <2>1. OciTypeOK' /\ WorldTypeOK'
    BY <1>2, ScriptRequests, ScriptOciTypes, ScriptWorldTypes DEF TypeInv
  <2>2. RunTypeOK' /\ StepInv'
    <3>1. CreateStep \/ PoolStep \/ DeleteStep
      BY <1>2, Zenon DEF ScriptStep, CreateStep, PoolStep, DeleteStep
    <3> QED BY <3>1, CreateRunTypes, PoolRunTypes, DeleteRunTypes, Zenon
  <2> QED BY <2>1, <2>2 DEF TypeInv
<1>3. CASE Interrupt
  <2>1. faults' \in 0 .. MaxFaults
    BY <1>3, FaultTypes DEF Interrupt, TypeInv
  <2>2. WorldTypeOK'
    BY <1>3, <2>1 DEF Interrupt, TypeInv, WorldTypeOK, worldVars
  <2>3. OciTypeOK'
    BY <1>3 DEF Interrupt, TypeInv, OciTypeOK, ociVars
  <2> QED BY <1>3, <2>2, <2>3, EndRunTypes DEF Interrupt, TypeInv
<1>4. CASE OciWorks \/ OciFails \/ StrangerCreates \/ StrangerDeletes \/ OperatorCleansUp
  <2>0. /\ OciOrOthers /\ (Fault \/ faults' = faults)
        /\ outcome' = "none" /\ UNCHANGED <<pc, runVars, worldVars>>
    BY <1>4, OciOrOthersStep, Zenon
  <2>1. OciTypeOK'
    BY <2>0, OciOrOthersTypes DEF TypeInv
  <2>2. WorldTypeOK'
    BY <2>0, FaultTypes DEF TypeInv, WorldTypeOK, worldVars
  <2> QED BY <2>0, <2>1, <2>2, WorldRunTypes DEF TypeInv
<1>5. CASE Settings
  BY <1>5, SettingsTypes
<1>6. CASE UNCHANGED vars
  <2>1. OciTypeOK' /\ WorldTypeOK'
    BY <1>6 DEF vars, TypeInv, OciTypeOK, WorldTypeOK, ociVars, worldVars
  <2> QED BY <1>6, <2>1, WorldRunTypes DEF vars, TypeInv
<1> QED BY <1>1, <1>2, <1>3, <1>4, <1>5, <1>6 DEF Next, Settings

LEMMA TypeInit ==
  ASSUME Init
  PROVE  TypeInv
<1>1. OciTypeOK
  <2>1. "none" \in ParentStates /\ "none" \in NetStates /\ "none" \in PoolStates
    BY DEF ParentStates, NetStates, PoolStates
  <2>2. parent \in [Parents -> ParentStates] /\ home \in [ClusterIds -> VcnIds \cup {NoId}]
    BY <2>1 DEF Init, OciEmpty
  <2>3. net \in [VcnIds -> [Kinds -> NetStates]]
    BY <2>1 DEF Init, OciEmpty
  <2>4. pool \in [ClusterIds -> [Pools -> PoolStates]]
    BY <2>1 DEF Init, OciEmpty
  <2>5. owned \subseteq Parents /\ sized \in [ClusterIds -> SUBSET Pools]
    BY DEF Init, OciEmpty
  <2> QED BY <2>2, <2>3, <2>4, <2>5 DEF OciTypeOK
<1>2. WorldTypeOK
  <2>1. faults \in 0 .. MaxFaults
    BY FaultsAssumption DEF Init
  <2>2. tainted \in [ClusterIds -> SUBSET Pools]
    BY DEF Init
  <2> QED BY <2>1, <2>2 DEF Init, NoRun, WorldTypeOK
<1>3. Unseen \in [Parents -> ParentStates] /\ NetUnseen \in [Kinds -> NetStates]
  BY DEF Unseen, NetUnseen, ParentStates, NetStates
<1>4. RunTypeOK
  <2>1. step \in 1 .. Len(CreateOrder) + 1
    BY Lengths DEF Init, NoRun
  <2>2. attempt \in 1 .. Attempts
    BY AttemptsAssumption DEF Init, NoRun
  <2>3. pc \in Labels
    BY DEF Init, NoRun, Labels
  <2> QED BY <1>3, <2>1, <2>2, <2>3 DEF Init, NoRun, RunTypeOK
<1>5. StepInv
  BY DEF Init, NoRun, StepInv
<1> QED BY <1>1, <1>2, <1>4, <1>5 DEF TypeInv

LEMMA TypesHold == Spec => []TypeInv
<1>1. Init => TypeInv
  BY TypeInit
<1>2. TypeInv /\ [Next]_vars => TypeInv'
  BY TypeStep
<1> QED BY <1>1, <1>2, PTL DEF Spec

-----------------------------------------------------------------------------
(* One deployment *)

OwnedLive == Owned(Live(Parents))

\* A record that is gone carries no tag.
TagInv == \A x \in owned : parent[x] # "none"

\* Between the collision check and the request for the cluster nothing of the
\* deployment is live but the VCN this run has created.
Creating == {"vcn_wait", "net", "net_wait", "cluster"}
CreateInv ==
  /\ pc = "vcn" => OwnedLive = {}
  /\ pc \in Creating => OwnedLive \subseteq {vcnOcid} \cap VcnIds

Unique ==
  /\ \A c, d \in OwnedLive \cap ClusterIds : c = d
  /\ \A v, w \in OwnedLive \cap VcnIds : v = w

OwnInv == TagInv /\ CreateInv /\ Unique

\* A step that makes nothing live and owned that was not.
Quiet == TagInv' /\ OwnedLive' \subseteq OwnedLive

LEMMA SameIsQuiet ==
  ASSUME OciTypeOK, TagInv, UNCHANGED <<parent, owned>>
  PROVE  Quiet
BY DEF Quiet, TagInv, OwnedLive, Owned, Live, IsLive

LEMMA DeleteIsQuiet ==
  ASSUME OciTypeOK, OciTypeOK', TagInv, NEW x, Delete(x), parent[x] \in {"active", "failed"}
  PROVE  Quiet
<1>1. OwnedLive' \subseteq OwnedLive
  BY DEF Delete, OciTypeOK, OwnedLive, Owned, Live, IsLive
<1>2. TagInv'
  BY DEF Delete, OciTypeOK, TagInv
<1> QED BY <1>1, <1>2 DEF Quiet

LEMMA OthersAreQuiet ==
  ASSUME OciTypeOK, TagInv, OciOrOthers
  PROVE  Quiet
<1> USE DEF Quiet, TagInv, OwnedLive, Owned, Live, IsLive, OciTypeOK
<1>1. ASSUME NEW x \in Parents, ParentProgress(x) PROVE Quiet
  BY <1>1 DEF ParentProgress, NextStates
<1>2. ASSUME NEW c \in ClusterIds, ClusterFails(c) PROVE Quiet
  BY <1>2 DEF ClusterFails, Parents
<1>3. ASSUME NEW x \in Parents, ForeignAppears(x) PROVE Quiet
  BY <1>3 DEF ForeignAppears
<1>4. ASSUME NEW x \in Parents, ForeignDeleted(x) PROVE Quiet
  BY <1>4 DEF ForeignDeleted, Delete
<1>5. CASE UNCHANGED <<parent, owned>>
  BY <1>5, SameIsQuiet
<1> QED BY <1>1, <1>2, <1>3, <1>4, <1>5
        DEF OciOrOthers, OciProgress, NetProgress, PoolProgress, PoolFails, OperatorDeletesPool

\* What the script does apart from its two requests for something new.
LEMMA ScriptIsQuiet ==
  ASSUME TypeInv, TagInv, ScriptStep
  PROVE  \/ Quiet
         \/ \E v \in VcnIds : RequestVcn(v)
         \/ \E c \in ClusterIds : RequestCluster(c)
<1>1. OciTypeOK /\ OciTypeOK'
  BY ScriptRequests, ScriptOciTypes DEF TypeInv
<1>2. CASE OciInside
  BY <1>1, <1>2, SameIsQuiet DEF OciInside, ociVars, CreateNet, DeleteNet, CreatePool, ResizePool
<1>3. ASSUME NEW c \in ClusterIds, DeleteClusterRecord(c) PROVE Quiet
  BY <1>1, <1>3, SameIsQuiet, DeleteIsQuiet DEF DeleteClusterRecord, MayDelete, Die, Stay, ociVars
<1>4. CASE DeleteVcnRecord
  BY <1>1, <1>4, SameIsQuiet, DeleteIsQuiet DEF DeleteVcnRecord, MayDelete, Die, Stay, ociVars
<1> QED BY <1>2, <1>3, <1>4, ScriptRequests DEF OciParents, TypeInv

\* How the script gets to the requests: through the collision check, which saw
\* nothing live, and through the request for the VCN.
LEMMA CreateFlow ==
  ASSUME TypeInv, ScriptStep
  PROVE  /\ pc' = "vcn" => Live(Parents) = {} /\ UNCHANGED <<parent, owned>>
         /\ pc' \in Creating => \/ pc \in Creating /\ vcnOcid' = vcnOcid
                                \/ \E v \in VcnIds : RequestVcn(v)
<1> USE DEF Creating, Goto, Die, EndRun, runVars
<1>1. CASE ResolveCompartment \/ CompartmentReady
  BY <1>1 DEF ResolveCompartment, CompartmentReady, FirstLabel, TypeInv, RunTypeOK
<1>2. CASE CheckCreateCollisions
  BY <1>2 DEF CheckCreateCollisions, Stay, ociVars
<1>3. CASE VcnAvailable \/ RequestNet \/ NetAvailable \/ \E c \in ClusterIds : RequestCluster(c)
  BY <1>3 DEF VcnAvailable, RequestNet, NetAvailable, RequestCluster
<1>4. CASE ClusterCreated \/ SelectResumeParents \/ ValidateResumeNetwork
  BY <1>4 DEF ClusterCreated, SelectResumeParents, ValidateResumeNetwork
<1>5. CASE PoolStep
  BY <1>5 DEF PoolStep, ReusePool, RequestResize, RefusePool, RequestPool, PoolReady, PoolsDone,
     CreateContext, TaintNodes
<1>6. CASE \/ ListClusters \/ \E c \in ClusterIds : DeleteClusterRecord(c)
           \/ ClusterDeleted \/ ClustersDone \/ ListVcns \/ \E v \in VcnIds : PickVcn(v)
  BY <1>6 DEF ListClusters, DeleteClusterRecord, ClusterDeleted, ClustersDone, ListVcns, PickVcn
<1>7. CASE \/ SkipNet \/ DeleteNetworkRecord \/ NetDeleted \/ NetDone
           \/ DeleteVcnRecord \/ VcnDeleted \/ VcnsDone \/ DeleteContext
           \/ VerifyNoLiveOwnedParents
  BY <1>7 DEF SkipNet, DeleteNetworkRecord, NetDeleted, NetDone, DeleteVcnRecord, VcnDeleted,
     VcnsDone, DeleteContext, VerifyNoLiveOwnedParents
<1>8. ASSUME NEW v \in VcnIds, RequestVcn(v) PROVE pc' = "vcn_wait"
  BY <1>8 DEF RequestVcn
<1> QED BY <1>1, <1>2, <1>3, <1>4, <1>5, <1>6, <1>7, <1>8 DEF ScriptStep, PoolStep

LEMMA RequestVcnOwn ==
  ASSUME TypeInv, OwnInv, NEW v \in VcnIds, RequestVcn(v)
  PROVE  OwnInv'
<1>1. OwnedLive = {}
  BY DEF RequestVcn, OwnInv, CreateInv
<1>2. OwnedLive' \subseteq {v}
  BY <1>1 DEF RequestVcn, CreateVcn, OwnedLive, Owned, Live, IsLive, TypeInv, OciTypeOK
<1>3. TagInv'
  BY DEF RequestVcn, CreateVcn, OwnInv, TagInv, TypeInv, OciTypeOK, Parents
<1>4. CreateInv'
  BY <1>2 DEF RequestVcn, Goto, CreateInv, Creating
<1> QED BY <1>2, <1>3, <1>4 DEF OwnInv, Unique

LEMMA RequestClusterOwn ==
  ASSUME TypeInv, OwnInv, NEW c \in ClusterIds, RequestCluster(c)
  PROVE  OwnInv'
<1>1. OwnedLive \subseteq {vcnOcid} \cap VcnIds
  BY DEF RequestCluster, OwnInv, CreateInv, Creating
<1>2. OwnedLive' \subseteq OwnedLive \cup {c}
  BY DEF RequestCluster, CreateCluster, OwnedLive, Owned, Live, IsLive, TypeInv, OciTypeOK
<1>3. TagInv'
  BY DEF RequestCluster, CreateCluster, OwnInv, TagInv, TypeInv, OciTypeOK, Parents
<1>4. CreateInv'
  BY DEF RequestCluster, Goto, CreateInv, Creating
<1>5. Unique'
  BY <1>1, <1>2, IdsAssumption DEF Unique
<1> QED BY <1>3, <1>4, <1>5 DEF OwnInv

LEMMA OwnStep ==
  ASSUME TypeInv, OwnInv, [Next]_vars
  PROVE  OwnInv'
<1>1. ASSUME Quiet, CreateInv' PROVE OwnInv'
  BY <1>1 DEF OwnInv, Quiet, Unique
<1>2. CASE ScriptStep
  <2>1. CASE \E v \in VcnIds : RequestVcn(v)
    BY <2>1, RequestVcnOwn
  <2>2. CASE \E c \in ClusterIds : RequestCluster(c)
    BY <2>2, RequestClusterOwn
  <2>3. CASE Quiet /\ ~\E v \in VcnIds : RequestVcn(v)
    <3>1. pc' = "vcn" => OwnedLive' = {}
      BY <1>2, <2>3, CreateFlow DEF Quiet, OwnedLive, Owned
    <3>2. pc' \in Creating => OwnedLive' \subseteq {vcnOcid'} \cap VcnIds
      BY <1>2, <2>3, CreateFlow DEF Quiet, OwnInv, CreateInv
    <3> QED BY <1>1, <2>3, <3>1, <3>2 DEF CreateInv
  <2> QED BY <1>2, <2>1, <2>2, <2>3, ScriptIsQuiet DEF OwnInv
<1>3. ASSUME Quiet, UNCHANGED <<pc, runVars>> PROVE OwnInv'
  BY <1>1, <1>3 DEF OwnInv, CreateInv, Quiet, runVars
<1>4. ASSUME Quiet, pc' \in {"idle", "compartment"} PROVE OwnInv'
  BY <1>1, <1>4 DEF CreateInv, Creating
<1>5. CASE OciWorks \/ OciFails \/ StrangerCreates \/ StrangerDeletes \/ OperatorCleansUp
  <2>1. Quiet
    BY <1>5, OciOrOthersStep, OthersAreQuiet DEF OwnInv, TypeInv
  <2> QED BY <1>3, <1>5, <2>1, OciOrOthersStep
<1>6. CASE LaunchAny \/ Interrupt \/ Settings \/ UNCHANGED vars
  <2>1. Quiet
    BY <1>6, SameIsQuiet DEF OwnInv, TypeInv, LaunchAny, Launch, Interrupt, Settings,
       CompartmentProgress, LimitChanges, OperatorRemovesContext, Reconfigure, vars, ociVars
  <2>2. CASE LaunchAny \/ Interrupt
    BY <1>4, <2>1, <2>2 DEF LaunchAny, Launch, Goto, Interrupt, EndRun
  <2>3. CASE Settings \/ UNCHANGED vars
    BY <1>3, <2>1, <2>3 DEF Settings, CompartmentProgress, LimitChanges, OperatorRemovesContext,
       Reconfigure, ScriptUnchanged, vars
  <2> QED BY <1>6, <2>2, <2>3
<1> QED BY <1>2, <1>5, <1>6 DEF Next, Settings

LEMMA OwnershipHolds == Spec => [](TypeInv /\ OwnInv)
<1>1. Init => OwnInv
  BY DEF Init, OciEmpty, NoRun, OwnInv, TagInv, CreateInv, Creating, Unique, OwnedLive, Owned
<1>2. TypeInv /\ OwnInv /\ [Next]_vars => OwnInv'
  BY OwnStep
<1> QED BY <1>1, <1>2, TypesHold, PTL DEF Spec

-----------------------------------------------------------------------------
(* Nothing of anybody else's is deleted *)

\* A record the listing showed as there to stay.  Its id stays with it: only
\* this run deletes a tagged record.
Lasting == {"creating", "active", "failed"}
Awaited(x) == \/ pc = "del_cluster_wait" /\ x = ocid
              \/ pc = "del_vcn_wait" /\ x = vcnOcid
SeenInv ==
  /\ \A x \in Parents : seen[x] \in Lasting /\ ~Awaited(x) => x \in owned /\ parent[x] \in Lasting
  /\ pc \in {"del_net", "del_net_wait", "del_vcn_last"} =>
       vcnOcid \in VcnIds /\ seen[vcnOcid] \in Lasting

\* What lasts and is tagged goes on to last, unless the script deletes it.
Lasts(x) == x \in owned /\ parent[x] \in Lasting => x \in owned' /\ parent'[x] \in Lasting

LEMMA OthersLetLast ==
  ASSUME OciTypeOK, OciOrOthers, NEW y \in Parents
  PROVE  Lasts(y)
<1> USE DEF Lasts, Lasting, OciTypeOK
<1>1. ASSUME NEW x \in Parents, ParentProgress(x) PROVE Lasts(y)
  BY <1>1 DEF ParentProgress, NextStates
<1>2. ASSUME NEW c \in ClusterIds, ClusterFails(c) PROVE Lasts(y)
  BY <1>2 DEF ClusterFails
<1>3. ASSUME NEW x \in Parents, ForeignAppears(x) PROVE Lasts(y)
  BY <1>3 DEF ForeignAppears
<1>4. ASSUME NEW x \in Parents, ForeignDeleted(x) PROVE Lasts(y)
  BY <1>4 DEF ForeignDeleted, Delete
<1>5. CASE UNCHANGED <<parent, owned>>
  BY <1>5
<1> QED BY <1>1, <1>2, <1>3, <1>4, <1>5
        DEF OciOrOthers, OciProgress, NetProgress, PoolProgress, PoolFails, OperatorDeletesPool

\* A listing shows tagged records only.
LEMMA ListingLasts ==
  ASSUME OciTypeOK, NEW S, NEW x \in Parents, LookUp(S)[x] \in Lasting
  PROVE  x \in owned /\ parent[x] \in Lasting
BY DEF LookUp, Owned, Live, Lasting

LEMMA EndRunSeen ==
  ASSUME EndRun
  PROVE  SeenInv'
BY DEF EndRun, SeenInv, Unseen, Lasting

\* The steps that leave the listing and OCI's clusters and VCNs alone.
LEMMA SameSeen ==
  ASSUME SeenInv, UNCHANGED <<parent, owned, seen, ocid, vcnOcid>>,
         pc \notin {"del_cluster_wait", "del_vcn_wait"},
         \/ pc' \notin {"del_net", "del_net_wait", "del_vcn_last"}
         \/ pc \in {"del_net", "del_net_wait", "del_vcn_last"}
  PROVE  SeenInv'
BY DEF SeenInv, Awaited, Lasting

LEMMA CreateSeen ==
  ASSUME TypeInv, OwnInv, SeenInv, CreateStep \/ PoolStep
  PROVE  SeenInv'
<1> DEFINE Deleting == {"del_cluster_wait", "del_vcn_wait", "del_net", "del_net_wait", "del_vcn_last"}
<1>1. CASE EndRun
  BY <1>1, EndRunSeen
<1>2. ASSUME pc \notin Deleting, pc' \notin Deleting, seen' = seen,
             \A x \in Parents : Lasts(x)
      PROVE  SeenInv'
  BY <1>2 DEF SeenInv, Awaited, Lasts
<1>3. ASSUME UNCHANGED <<parent, owned>> PROVE \A x \in Parents : Lasts(x)
  BY <1>3 DEF Lasts
<1>4. CASE ResolveCompartment \/ CompartmentReady
  BY <1>1, <1>2, <1>3, <1>4 DEF ResolveCompartment, CompartmentReady, FirstLabel, TypeInv,
     RunTypeOK, runVars, Goto, Die, Stay, ociVars
<1>5. CASE CheckCreateCollisions
  BY <1>1, <1>2, <1>3, <1>5 DEF CheckCreateCollisions, Goto, Die, Stay, ociVars
<1>6. ASSUME NEW v \in VcnIds, RequestVcn(v) PROVE SeenInv'
  <2>1. \A x \in Parents : Lasts(x)
    BY <1>6 DEF RequestVcn, CreateVcn, Fresh, Lasts, Lasting, TypeInv, OciTypeOK
  <2> QED BY <1>2, <1>6, <2>1 DEF RequestVcn, Goto
<1>7. ASSUME NEW c \in ClusterIds, RequestCluster(c) PROVE SeenInv'
  <2>1. \A x \in Parents : Lasts(x)
    BY <1>7 DEF RequestCluster, CreateCluster, Fresh, Lasts, Lasting, TypeInv, OciTypeOK
  <2> QED BY <1>2, <1>7, <2>1 DEF RequestCluster, Goto
<1>8. CASE VcnAvailable \/ RequestNet \/ NetAvailable \/ ClusterCreated
  BY <1>1, <1>2, <1>3, <1>8 DEF VcnAvailable, RequestNet, CreateNet, NetAvailable, ClusterCreated,
     runVars, Goto, Die, Stay, ociVars
<1>9. CASE SelectResumeParents \/ ValidateResumeNetwork
  BY <1>1, <1>2, <1>3, <1>9 DEF SelectResumeParents, ValidateResumeNetwork, runVars, Goto, Die,
     Stay, ociVars
<1>10. CASE PoolStep
  BY <1>1, <1>2, <1>3, <1>10 DEF PoolStep, ReusePool, RequestResize, ResizePool, RefusePool,
     RequestPool, CreatePool, PoolReady, PoolsDone, CreateContext, TaintNodes, runVars, Goto,
     Die, Stay, ociVars
<1> QED BY <1>4, <1>5, <1>6, <1>7, <1>8, <1>9, <1>10 DEF CreateStep

LEMMA DeleteSeen ==
  ASSUME TypeInv, SeenInv, DeleteStep
  PROVE  SeenInv'
<1> USE DEF runVars, Goto, Stay, ociVars
<1>1. CASE EndRun
  BY <1>1, EndRunSeen
<1>2. CASE ListClusters \/ ListVcns
  BY <1>2, ListingLasts DEF ListClusters, ListVcns, SeenInv, Awaited, TypeInv
<1>3. ASSUME NEW c \in ClusterIds, DeleteClusterRecord(c) PROVE SeenInv'
  BY <1>1, <1>3 DEF DeleteClusterRecord, Die, SeenInv, Awaited, Delete, TypeInv, OciTypeOK
<1>4. CASE ClusterDeleted
  BY <1>1, <1>4 DEF ClusterDeleted, Die, SeenInv, Awaited, Lasting, TypeInv, RunTypeOK
<1>5. ASSUME NEW v \in VcnIds, PickVcn(v) PROVE SeenInv'
  <2>1. seen[v] \in Lasting \/ IsTransitioning(seen[v])
    BY <1>5 DEF PickVcn, IsLive, IsTransitioning, Lasting, TypeInv, RunTypeOK, ParentStates, Parents
  <2> QED BY <1>5, <2>1 DEF PickVcn, SeenInv, Awaited
<1>6. CASE SkipNet \/ NetDeleted \/ NetDone \/ ClustersDone \/ VcnsDone \/ DeleteContext
  BY <1>6, SameSeen DEF SkipNet, NetDeleted, NetDone, ClustersDone, VcnsDone, DeleteContext
<1>7. CASE DeleteNetworkRecord
  BY <1>1, <1>7, SameSeen DEF DeleteNetworkRecord, DeleteNet, Die
<1>8. CASE DeleteVcnRecord
  BY <1>1, <1>8 DEF DeleteVcnRecord, Die, SeenInv, Awaited, Delete, TypeInv, OciTypeOK
<1>9. CASE VcnDeleted
  BY <1>9 DEF VcnDeleted, SeenInv, Awaited, Lasting, TypeInv, RunTypeOK
<1>10. CASE VerifyNoLiveOwnedParents
  BY <1>1, <1>10, SameSeen DEF VerifyNoLiveOwnedParents, Die
<1> QED BY <1>2, <1>3, <1>4, <1>5, <1>6, <1>7, <1>8, <1>9, <1>10 DEF DeleteStep

LEMMA SeenStep ==
  ASSUME TypeInv, OwnInv, SeenInv, [Next]_vars
  PROVE  SeenInv'
<1>1. ASSUME UNCHANGED <<pc, runVars>>, \A x \in Parents : Lasts(x) PROVE SeenInv'
  BY <1>1 DEF SeenInv, Awaited, Lasts, runVars
<1>2. CASE ScriptStep
  <2>1. CreateStep \/ PoolStep \/ DeleteStep
    BY <1>2, Zenon DEF ScriptStep, CreateStep, PoolStep, DeleteStep
  <2> QED BY <2>1, CreateSeen, DeleteSeen, Zenon
<1>3. CASE OciWorks \/ OciFails \/ StrangerCreates \/ StrangerDeletes \/ OperatorCleansUp
  <2>1. OciOrOthers /\ UNCHANGED <<pc, runVars>>
    BY <1>3, OciOrOthersStep
  <2> QED BY <1>1, <2>1, OthersLetLast DEF TypeInv
<1>4. CASE Settings \/ UNCHANGED vars
  BY <1>1, <1>4 DEF Settings, CompartmentProgress, LimitChanges, OperatorRemovesContext,
     Reconfigure, ScriptUnchanged, vars, ociVars, Lasts
<1>5. CASE Interrupt
  BY <1>5, EndRunSeen DEF Interrupt
<1>6. CASE LaunchAny
  BY <1>6, SameSeen DEF LaunchAny, Launch, Goto, ociVars
<1> QED BY <1>2, <1>3, <1>4, <1>5, <1>6 DEF Next, Settings

\* A step of the script that begins a deletion begins that of a tagged record.
LEMMA DeletesOwned ==
  ASSUME TypeInv, OwnInv, SeenInv, ScriptStep, NEW x \in Parents \ owned,
         parent[x] # "deleting"
  PROVE  parent'[x] # "deleting"
<1> USE DEF TypeInv, OciTypeOK
<1>1. CASE UNCHANGED parent
  BY <1>1
<1>2. CASE OciInside
  BY <1>2 DEF OciInside, ociVars, CreateNet, DeleteNet, CreatePool, ResizePool
<1>3. ASSUME NEW v \in VcnIds, RequestVcn(v) PROVE parent'[x] # "deleting"
  BY <1>3 DEF RequestVcn, CreateVcn
<1>4. ASSUME NEW c \in ClusterIds, RequestCluster(c) PROVE parent'[x] # "deleting"
  BY <1>4 DEF RequestCluster, CreateCluster
<1>5. ASSUME NEW c \in ClusterIds, DeleteClusterRecord(c) PROVE parent'[x] # "deleting"
  <2>1. CASE Delete(c) /\ pc = "del_cluster" /\ IsLive(seen[c]) /\ ~IsTransitioning(seen[c])
    <3>1. c \in owned
      BY <2>1 DEF SeenInv, Awaited, IsLive, IsTransitioning, Lasting, RunTypeOK, ParentStates, Parents
    <3> QED BY <2>1, <3>1 DEF Delete
  <2> QED BY <1>1, <1>5, <2>1 DEF DeleteClusterRecord, Die, Stay, ociVars
<1>6. CASE DeleteVcnRecord
  <2>1. vcnOcid \in owned
    BY <1>6 DEF DeleteVcnRecord, SeenInv, Awaited, Parents
  <2> QED BY <1>1, <1>6, <2>1 DEF DeleteVcnRecord, Delete, Die, Stay, ociVars
<1> QED BY <1>2, <1>3, <1>4, <1>5, <1>6, ScriptRequests DEF OciParents

-----------------------------------------------------------------------------
(* What a deployment consists of, and who is inside whom *)

\* The outcome of the last run is forgotten when the next one begins.
OutcomeInv == pc # "idle" => outcome = "none"

\* Until the compartment is there, nothing is requested.
CompartmentInv ==
  compartment # "active" => pc \in {"idle", "compartment", "propagate"} /\ owned = {}

\* What is inside a tagged cluster or VCN, and nobody else's is looked into.
\* A cluster outlives neither its tag nor its VCN.
InsideInv ==
  /\ \A v \in VcnIds, kind \in Kinds : net[v][kind] # "none" => v \in owned /\ parent[v] = "active"
  /\ \A c \in ClusterIds, p \in Pools :
       pool[c][p] # "none" => c \in owned /\ parent[c] \in {"active", "failed", "deleting"}
  /\ \A c \in ClusterIds : Exists(c) =>
       IF c \in owned THEN home[c] \in VcnIds /\ home[c] \in owned /\ parent[home[c]] = "active"
                      ELSE home[c] = NoId

Settled(x) == x \in owned /\ parent[x] = "active"

\* The loops begin at their first step.
StartInv ==
  pc \in {"idle", "compartment", "propagate", "collide", "vcn", "vcn_wait", "select", "network"} =>
    step = 1

\* The VCN of a run, and the part of its network the run has seen through.
WithVcn == {"net", "net_wait", "cluster", "cluster_wait", "network", "pools", "pool_wait",
            "context", "taint"}
WithNet == {"cluster", "cluster_wait", "pools", "pool_wait", "context", "taint"}
VcnInv ==
  /\ pc = "vcn_wait" => vcnOcid \in VcnIds /\ vcnOcid \in owned /\ parent[vcnOcid] \in {"creating", "active"}
  /\ pc \in WithVcn => vcnOcid \in VcnIds /\ Settled(vcnOcid)
  /\ pc \in {"net", "net_wait"} =>
       \A i \in 1 .. 9 : i < step => net[vcnOcid][CreateOrder[i]] = "active"
  /\ pc \in WithNet => NetComplete(vcnOcid)

\* Its cluster, and the pools the run has seen through.
WithCluster == {"network", "pools", "pool_wait", "context", "taint"}
HasSize(p) == p = "scylla" \/ p \in sized[ocid]
PoolInv ==
  /\ pc \in WithCluster \cup {"cluster_wait"} => ocid \in ClusterIds /\ ocid \in owned /\ home[ocid] = vcnOcid
  /\ pc = "cluster_wait" => parent[ocid] \in {"creating", "active", "failed"}
  /\ pc \in WithCluster => parent[ocid] = "active"
  /\ pc \in {"pools", "pool_wait"} =>
       \A i \in 1 .. 3 : i < step => pool[ocid][PoolOrder[i]] = "active" /\ HasSize(PoolOrder[i])
  /\ pc = "pool_wait" => HasSize(ThisPool)
  /\ pc \in {"context", "taint"} => \A p \in Pools : pool[ocid][p] = "active" /\ HasSize(p)
  /\ pc = "taint" => context

\* A teardown goes on to the VCNs when no cluster is left, and to a VCN when
\* nothing is left inside.
NoClusters == {"list_vcns", "del_vcn", "del_net", "del_net_wait", "del_vcn_last",
               "del_vcn_wait", "del_context", "verify"}
TeardownInv ==
  /\ pc \in {"del_cluster", "del_cluster_wait"} =>
       \A c \in ClusterIds \cap owned : Exists(c) => IsLive(seen[c])
  /\ pc \in NoClusters => \A c \in ClusterIds \cap owned : ~Exists(c)
  /\ pc \in {"del_net", "del_net_wait"} =>
       /\ \A i \in 1 .. 9 : i < step => net[vcnOcid][DeleteOrder[i]] = "none"
       /\ \A kind \in Kinds : netSeen[kind] = "none" => net[vcnOcid][kind] = "none"
  /\ pc = "del_vcn_last" => \A kind \in Kinds : net[vcnOcid][kind] = "none"

LoopsInv == StartInv /\ VcnInv /\ PoolInv /\ TeardownInv
DeployInv == OutcomeInv /\ CompartmentInv /\ InsideInv /\ LoopsInv

\* The loops over the network go through every kind once.
LEMMA CreateOrderFacts ==
  /\ \A i \in 1 .. 9 : CreateOrder[i] \in Kinds
  /\ \A kind \in Kinds : \E i \in 1 .. 9 : CreateOrder[i] = kind
  /\ \A i, j \in 1 .. 9 : CreateOrder[i] = CreateOrder[j] => i = j
<1>1. /\ CreateOrder[1] = "igw" /\ CreateOrder[2] = "natgw" /\ CreateOrder[3] = "rt_public"
      /\ CreateOrder[4] = "rt_private" /\ CreateOrder[5] = "sl_public"
      /\ CreateOrder[6] = "sl_private" /\ CreateOrder[7] = "subnet_cp"
      /\ CreateOrder[8] = "subnet_workers" /\ CreateOrder[9] = "subnet_lb"
  BY DEF CreateOrder
<1>2. \A i \in 1 .. 9 : i \in {1, 2, 3, 4, 5, 6, 7, 8, 9}
  OBVIOUS
<1> QED BY <1>1, <1>2 DEF Kinds

LEMMA DeleteOrderNames ==
  /\ DeleteOrder[1] = "subnet_lb" /\ DeleteOrder[2] = "subnet_workers"
  /\ DeleteOrder[3] = "subnet_cp" /\ DeleteOrder[4] = "sl_public"
  /\ DeleteOrder[5] = "sl_private" /\ DeleteOrder[6] = "rt_private"
  /\ DeleteOrder[7] = "rt_public" /\ DeleteOrder[8] = "natgw" /\ DeleteOrder[9] = "igw"
BY DEF DeleteOrder

LEMMA DeleteOrderFacts ==
  /\ \A i \in 1 .. 9 : DeleteOrder[i] \in Kinds
  /\ \A kind \in Kinds : \E i \in 1 .. 9 : DeleteOrder[i] = kind
<1>1. \A i \in 1 .. 9 : i \in {1, 2, 3, 4, 5, 6, 7, 8, 9}
  OBVIOUS
<1> QED BY <1>1, DeleteOrderNames DEF Kinds

\* What refers to a network resource is deleted before it.
LEMMA RefersEarlier ==
  ASSUME NEW s \in 1 .. 9, NEW other \in Kinds, DeleteOrder[s] \in RefersTo(other)
  PROVE  \E i \in 1 .. 9 : i < s /\ DeleteOrder[i] = other
<1>1. CASE other \in {"igw", "natgw", "sl_public", "sl_private"}
  BY <1>1 DEF RefersTo
<1>2. CASE other \in {"rt_public", "rt_private"}
  <2>1. DeleteOrder[s] \in {"igw", "natgw"}
    BY <1>2 DEF RefersTo
  <2>2. s \in {8, 9}
    BY <2>1, DeleteOrderNames
  <2> QED BY <1>2, <2>2, DeleteOrderNames
<1>3. CASE other \in Subnets
  <2>1. DeleteOrder[s] \in {"rt_public", "sl_public", "rt_private", "sl_private"}
    BY <1>3 DEF RefersTo, Subnets
  <2>2. s \in {4, 5, 6, 7}
    BY <2>1, DeleteOrderNames
  <2> QED BY <1>3, <2>2, DeleteOrderNames DEF Subnets
<1> QED BY <1>1, <1>2, <1>3 DEF Kinds, Subnets

LEMMA PoolOrderFacts ==
  /\ \A p \in Pools : \E i \in 1 .. 3 : PoolOrder[i] = p
  /\ \A i, j \in 1 .. 3 : PoolOrder[i] = PoolOrder[j] => i = j
<1>1. PoolOrder[1] = "system" /\ PoolOrder[2] = "scylla" /\ PoolOrder[3] = "application"
  BY DEF PoolOrder
<1>2. \A i \in 1 .. 3 : i \in {1, 2, 3}
  OBVIOUS
<1> QED BY <1>1, <1>2 DEF Pools

-----------------------------------------------------------------------------
(* What OCI and others do to a deployment behind the back of a run *)

\* Tagged records and what is inside them stay as they are once they are there,
\* and nothing new is tagged.
Spared ==
  /\ \A x \in Parents : Settled(x) => Settled(x)'
  /\ \A v \in VcnIds : v \in owned /\ parent[v] = "creating" =>
       v \in owned' /\ parent'[v] \in {"creating", "active"}
  /\ \A c \in ClusterIds : c \in owned /\ parent[c] \in {"creating", "active", "failed"} =>
       c \in owned' /\ parent'[c] \in {"creating", "active", "failed"}
  /\ \A x \in Parents : x \in owned' /\ Exists(x)' => x \in owned /\ Exists(x)
  /\ \A c \in ClusterIds : c \in owned => home'[c] = home[c]
  /\ \A v \in VcnIds, kind \in Kinds :
       /\ net[v][kind] = "active" => net'[v][kind] = "active"
       /\ net[v][kind] = "none" => net'[v][kind] = "none"
  /\ \A c \in ClusterIds : parent[c] = "active" =>
       /\ \A p \in Pools : pool[c][p] = "active" => pool'[c][p] = "active"
       /\ sized'[c] = sized[c]

LEMMA ProgressSpares ==
  ASSUME OciTypeOK, NEW x \in Parents, ParentProgress(x)
  PROVE  Spared /\ (InsideInv => InsideInv')
<1> USE IdsAssumption DEF ParentProgress, OciTypeOK, Parents, NextStates
<1>1. /\ \A y \in Parents \ {x} : parent'[y] = parent[y] /\ (y \in owned' <=> y \in owned)
      /\ parent[x] = "creating" => parent'[x] = "active" /\ owned' = owned
      /\ parent[x] # "creating" => parent'[x] \in {"lingering", "deleted", "none"}
      /\ parent[x] \in {"creating", "deleting", "lingering", "deleted"}
      /\ owned' \subseteq owned
  OBVIOUS
<1>2. \A c \in ClusterIds \ {x} : pool'[c] = pool[c] /\ sized'[c] = sized[c]
  OBVIOUS
<1>3. Spared
  BY <1>1, <1>2 DEF Spared, Settled, Exists
<1>4. ASSUME InsideInv PROVE InsideInv'
  <2>1. \A v \in VcnIds, kind \in Kinds : net'[v][kind] # "none" => v \in owned' /\ parent'[v] = "active"
    BY <1>1, <1>4 DEF InsideInv
  <2>2. ASSUME NEW c \in ClusterIds, NEW p \in Pools, pool'[c][p] # "none"
        PROVE  c \in owned' /\ parent'[c] \in {"active", "failed", "deleting"}
    <3>1. CASE c = x
      <4>1. pool'[x][p] # "none" => pool' = pool /\ parent[x] # "deleting"
        BY <3>1
      <4> QED BY <1>1, <1>4, <2>2, <3>1, <4>1 DEF InsideInv
    <3>2. CASE c # x
      BY <1>1, <1>2, <1>4, <2>2, <3>2 DEF InsideInv
    <3> QED BY <3>1, <3>2
  <2>3. ASSUME NEW c \in ClusterIds, Exists(c)'
        PROVE  IF c \in owned' THEN home'[c] \in VcnIds /\ home'[c] \in owned' /\ parent'[home'[c]] = "active"
                               ELSE home'[c] = NoId
    <3>1. Exists(c) /\ (c \in owned' <=> c \in owned) /\ home' = home
      BY <1>1, <2>3 DEF Exists
    <3>2. c \in owned => home[c] # x
      BY <1>1, <1>4, <3>1 DEF InsideInv
    <3> QED BY <1>1, <1>4, <3>1, <3>2 DEF InsideInv
  <2> QED BY <2>1, <2>2, <2>3 DEF InsideInv
<1> QED BY <1>3, <1>4

LEMMA ClusterFailsSpares ==
  ASSUME OciTypeOK, NEW c \in ClusterIds, ClusterFails(c)
  PROVE  Spared /\ (InsideInv => InsideInv')
<1> USE IdsAssumption DEF ClusterFails, OciTypeOK, Parents
<1>1. /\ parent[c] \in {"creating", "deleting"} /\ parent'[c] = "failed"
      /\ \A y \in Parents \ {c} : parent'[y] = parent[y]
      /\ UNCHANGED <<owned, home, net, pool, sized>>
  OBVIOUS
<1>2. Spared
  BY <1>1 DEF Spared, Settled, Exists
<1>3. ASSUME InsideInv PROVE InsideInv'
  BY <1>1, <1>3 DEF InsideInv, Exists
<1> QED BY <1>2, <1>3

LEMMA StrangersSpare ==
  ASSUME OciTypeOK, TagInv, NEW x \in Parents, ForeignAppears(x) \/ ForeignDeleted(x)
  PROVE  Spared /\ (InsideInv => InsideInv')
<1> USE IdsAssumption DEF OciTypeOK, Parents
<1>1. /\ x \notin owned /\ parent[x] \in {"none", "active"} /\ parent'[x] \in {"active", "deleting"}
      /\ \A y \in Parents \ {x} : parent'[y] = parent[y]
      /\ UNCHANGED <<owned, net, pool, sized>>
      /\ \A c \in ClusterIds \ {x} : home'[c] = home[c]
      /\ x \in ClusterIds => home'[x] = NoId \/ (home'[x] = home[x] /\ Exists(x))
  BY DEF ForeignAppears, ForeignDeleted, Delete, TagInv, Exists
<1>2. Spared
  BY <1>1 DEF Spared, Settled, Exists
<1>3. ASSUME InsideInv PROVE InsideInv'
  <2>1. \A v \in VcnIds, kind \in Kinds : net'[v][kind] # "none" => v \in owned' /\ parent'[v] = "active"
    BY <1>1, <1>3 DEF InsideInv
  <2>2. \A c \in ClusterIds, p \in Pools :
          pool'[c][p] # "none" => c \in owned' /\ parent'[c] \in {"active", "failed", "deleting"}
    BY <1>1, <1>3 DEF InsideInv
  <2>3. ASSUME NEW c \in ClusterIds, Exists(c)'
        PROVE  IF c \in owned' THEN home'[c] \in VcnIds /\ home'[c] \in owned' /\ parent'[home'[c]] = "active"
                               ELSE home'[c] = NoId
    <3>1. CASE c = x
      BY <1>1, <1>3, <2>3, <3>1 DEF InsideInv
    <3>2. CASE c # x
      BY <1>1, <1>3, <2>3, <3>2 DEF InsideInv, Exists
    <3> QED BY <3>1, <3>2
  <2> QED BY <2>1, <2>2, <2>3 DEF InsideInv
<1> QED BY <1>2, <1>3

LEMMA InnerProgressSpares ==
  ASSUME OciTypeOK, UNCHANGED <<parent, owned, home>>,
         \/ \E v \in VcnIds, kind \in Kinds : NetProgress(v, kind)
         \/ \E c \in ClusterIds, p \in Pools :
              PoolProgress(c, p) \/ PoolFails(c, p) \/ OperatorDeletesPool(c, p)
  PROVE  Spared /\ (InsideInv => InsideInv')
<1> USE DEF OciTypeOK, NetStates
<1>1. /\ \A v \in VcnIds, kind \in Kinds :
           /\ net'[v][kind] # "none" => net[v][kind] # "none"
           /\ net[v][kind] = "active" => net'[v][kind] = "active"
  BY DEF NetProgress, PoolProgress, PoolFails, OperatorDeletesPool
<1>2. /\ \A c \in ClusterIds, p \in Pools :
           /\ pool'[c][p] # "none" => pool[c][p] # "none"
           /\ pool[c][p] = "active" => pool'[c][p] = "active"
      /\ sized' = sized
  BY DEF NetProgress, PoolProgress, PoolFails, OperatorDeletesPool
<1>3. Spared
  BY <1>1, <1>2 DEF Spared, Settled, Exists
<1>4. InsideInv => InsideInv'
  BY <1>1, <1>2 DEF InsideInv, Exists
<1> QED BY <1>3, <1>4

LEMMA OthersSpare ==
  ASSUME OciTypeOK, TagInv, OciOrOthers
  PROVE  Spared /\ (InsideInv => InsideInv')
<1>1. CASE \/ \E v \in VcnIds, kind \in Kinds : NetProgress(v, kind)
           \/ \E c \in ClusterIds, p \in Pools :
                PoolProgress(c, p) \/ PoolFails(c, p) \/ OperatorDeletesPool(c, p)
  BY <1>1, InnerProgressSpares DEF NetProgress, PoolProgress, PoolFails, OperatorDeletesPool
<1> QED BY <1>1, ProgressSpares, ClusterFailsSpares, StrangersSpare DEF OciOrOthers, OciProgress

-----------------------------------------------------------------------------
(* What the requests of a run do to a deployment *)

LEMMA RequestVcnInside ==
  ASSUME OciTypeOK, InsideInv, NEW v \in VcnIds, RequestVcn(v)
  PROVE  InsideInv'
<1> USE IdsAssumption DEF OciTypeOK, Parents
<1>1. /\ parent[v] \in {"none", "deleted"}
      /\ \A y \in Parents \ {v} : parent'[y] = parent[y] /\ (y \in owned' <=> y \in owned)
      /\ UNCHANGED <<home, net, pool, sized>>
  BY DEF RequestVcn, CreateVcn, Fresh
<1>2. \A w \in VcnIds, kind \in Kinds : net'[w][kind] # "none" => w \in owned' /\ parent'[w] = "active"
  BY <1>1 DEF InsideInv
<1>3. \A d \in ClusterIds, p \in Pools :
        pool'[d][p] # "none" => d \in owned' /\ parent'[d] \in {"active", "failed", "deleting"}
  BY <1>1 DEF InsideInv
<1>4. ASSUME NEW d \in ClusterIds, Exists(d)'
      PROVE  IF d \in owned' THEN home'[d] \in VcnIds /\ home'[d] \in owned' /\ parent'[home'[d]] = "active"
                             ELSE home'[d] = NoId
  BY <1>1, <1>4 DEF InsideInv, Exists
<1> QED BY <1>2, <1>3, <1>4 DEF InsideInv

LEMMA RequestClusterInside ==
  ASSUME OciTypeOK, InsideInv, NEW c \in ClusterIds, RequestCluster(c),
         vcnOcid \in VcnIds, Settled(vcnOcid)
  PROVE  InsideInv'
<1> USE IdsAssumption DEF OciTypeOK, Parents
<1>1. /\ parent[c] \in {"none", "deleted"} /\ c \in owned' /\ home'[c] = vcnOcid
      /\ \A y \in Parents \ {c} : parent'[y] = parent[y] /\ (y \in owned' <=> y \in owned)
      /\ \A d \in ClusterIds \ {c} : home'[d] = home[d]
      /\ UNCHANGED <<net, pool, sized>>
  BY DEF RequestCluster, CreateCluster, Fresh
<1>2. \A v \in VcnIds, kind \in Kinds : net'[v][kind] # "none" => v \in owned' /\ parent'[v] = "active"
  BY <1>1 DEF InsideInv
<1>3. \A d \in ClusterIds, p \in Pools :
        pool'[d][p] # "none" => d \in owned' /\ parent'[d] \in {"active", "failed", "deleting"}
  BY <1>1 DEF InsideInv
<1>4. ASSUME NEW d \in ClusterIds, Exists(d)'
      PROVE  IF d \in owned' THEN home'[d] \in VcnIds /\ home'[d] \in owned' /\ parent'[home'[d]] = "active"
                             ELSE home'[d] = NoId
  BY <1>1, <1>4 DEF InsideInv, Exists, Settled
<1> QED BY <1>2, <1>3, <1>4 DEF InsideInv

LEMMA DeleteClusterInside ==
  ASSUME OciTypeOK, InsideInv, NEW c \in ClusterIds, Delete(c), MayDelete(c)
  PROVE  InsideInv'
<1> USE IdsAssumption DEF OciTypeOK, Parents
<1>1. /\ parent[c] \in {"active", "failed"} /\ parent'[c] = "deleting"
      /\ \A y \in Parents \ {c} : parent'[y] = parent[y]
      /\ UNCHANGED <<owned, home, net, pool, sized>>
  BY DEF Delete, MayDelete
<1>2. \A w \in VcnIds, kind \in Kinds : net'[w][kind] # "none" => w \in owned' /\ parent'[w] = "active"
  BY <1>1 DEF InsideInv
<1>3. \A d \in ClusterIds, p \in Pools :
        pool'[d][p] # "none" => d \in owned' /\ parent'[d] \in {"active", "failed", "deleting"}
  BY <1>1 DEF InsideInv
<1>4. ASSUME NEW d \in ClusterIds, Exists(d)'
      PROVE  IF d \in owned' THEN home'[d] \in VcnIds /\ home'[d] \in owned' /\ parent'[home'[d]] = "active"
                             ELSE home'[d] = NoId
  <2>1. Exists(d)
    BY <1>1, <1>4 DEF Exists
  <2>2. d \in owned => home[d] \in Parents \ {c}
    BY <2>1 DEF InsideInv
  <2> QED BY <1>1, <2>1, <2>2 DEF InsideInv
<1> QED BY <1>2, <1>3, <1>4 DEF InsideInv

\* OCI refuses to delete a VCN that anything is inside of.
LEMMA DeleteVcnInside ==
  ASSUME OciTypeOK, InsideInv, NEW v \in VcnIds, Delete(v), MayDelete(v)
  PROVE  InsideInv'
<1> USE IdsAssumption DEF OciTypeOK, Parents
<1>1. /\ \A y \in Parents \ {v} : parent'[y] = parent[y]
      /\ UNCHANGED <<owned, home, net, pool, sized>>
      /\ \A kind \in Kinds : net[v][kind] = "none"
      /\ \A c \in ClusterIds : Exists(c) => home[c] # v
  BY DEF Delete, MayDelete, VcnInUse, ClustersIn
<1>2. \A w \in VcnIds, kind \in Kinds : net'[w][kind] # "none" => w \in owned' /\ parent'[w] = "active"
  BY <1>1 DEF InsideInv
<1>3. \A d \in ClusterIds, p \in Pools :
        pool'[d][p] # "none" => d \in owned' /\ parent'[d] \in {"active", "failed", "deleting"}
  BY <1>1 DEF InsideInv
<1>4. ASSUME NEW d \in ClusterIds, Exists(d)'
      PROVE  IF d \in owned' THEN home'[d] \in VcnIds /\ home'[d] \in owned' /\ parent'[home'[d]] = "active"
                             ELSE home'[d] = NoId
  BY <1>1, <1>4 DEF InsideInv, Exists
<1> QED BY <1>2, <1>3, <1>4 DEF InsideInv

LEMMA NetRequestInside ==
  ASSUME OciTypeOK, InsideInv, NEW kind \in Kinds, vcnOcid \in VcnIds,
         \/ CreateNet(vcnOcid, kind) /\ Settled(vcnOcid)
         \/ DeleteNet(vcnOcid, kind) /\ MayDeleteNet(vcnOcid, kind)
  PROVE  InsideInv'
<1>1. /\ \A v \in VcnIds, k \in Kinds :
           net'[v][k] # "none" => net[v][k] # "none" \/ (v = vcnOcid /\ Settled(vcnOcid))
      /\ UNCHANGED <<parent, owned, home, pool, sized>>
  BY DEF CreateNet, DeleteNet, MayDeleteNet, OciTypeOK
<1> QED BY <1>1 DEF InsideInv, Exists, Settled

LEMMA PoolRequestInside ==
  ASSUME OciTypeOK, InsideInv, NEW p \in Pools, ocid \in ClusterIds, Settled(ocid),
         CreatePool(ocid, p) \/ ResizePool(ocid, p)
  PROVE  InsideInv'
<1>1. /\ \A c \in ClusterIds, q \in Pools :
           pool'[c][q] # "none" => pool[c][q] # "none" \/ c = ocid
      /\ UNCHANGED <<parent, owned, home, net>>
  BY DEF CreatePool, ResizePool, OciTypeOK
<1> QED BY <1>1 DEF InsideInv, Exists, Settled

LEMMA ScriptInside ==
  ASSUME TypeInv, SeenInv, InsideInv, VcnInv, PoolInv, ScriptStep
  PROVE  InsideInv'
<1> USE DEF TypeInv
<1>1. CASE UNCHANGED ociVars
  BY <1>1 DEF ociVars, InsideInv, Exists
<1>2. ASSUME NEW c \in ClusterIds, RequestCluster(c) PROVE InsideInv'
  BY <1>2, RequestClusterInside DEF RequestCluster, VcnInv, WithVcn
<1>3. CASE RequestNet
  BY <1>3, NetRequestInside, Lengths, CreateOrderFacts DEF RequestNet, VcnInv, WithVcn, RunTypeOK
<1>4. CASE DeleteNetworkRecord
  <2>1. ThisKind \in Kinds /\ vcnOcid \in VcnIds
    BY <1>4, Lengths, DeleteOrderFacts DEF DeleteNetworkRecord, ThisKind, RunTypeOK, SeenInv
  <2> QED BY <1>1, <1>4, <2>1, NetRequestInside DEF DeleteNetworkRecord, Die, Stay
<1>5. CASE RequestPool \/ RequestResize
  <2>1. ThisPool \in Pools
    BY <1>5, Lengths, PoolNames DEF RequestResize, RequestPool, ThisPool, RunTypeOK
  <2> QED BY <1>5, <2>1, PoolRequestInside
        DEF RequestPool, RequestResize, PoolInv, WithCluster, Settled
<1>6. ASSUME NEW c \in ClusterIds, DeleteClusterRecord(c) PROVE InsideInv'
  BY <1>1, <1>6, DeleteClusterInside DEF DeleteClusterRecord, Die, Stay
<1>7. CASE DeleteVcnRecord
  BY <1>1, <1>7, DeleteVcnInside DEF DeleteVcnRecord, Die, Stay, SeenInv
<1>8. CASE \/ ResolveCompartment \/ CompartmentReady \/ CheckCreateCollisions
           \/ VcnAvailable \/ NetAvailable \/ ClusterCreated \/ SelectResumeParents
           \/ ValidateResumeNetwork
  BY <1>1, <1>8 DEF ResolveCompartment, CompartmentReady, CheckCreateCollisions, VcnAvailable,
     NetAvailable, ClusterCreated, SelectResumeParents, ValidateResumeNetwork, Die, Stay
<1>9. CASE ReusePool \/ RefusePool \/ PoolReady \/ PoolsDone \/ CreateContext \/ TaintNodes
  BY <1>1, <1>9 DEF ReusePool, RefusePool, PoolReady, PoolsDone, CreateContext, TaintNodes, Die, Stay
<1>10. CASE \/ ListClusters \/ ClusterDeleted \/ ClustersDone \/ ListVcns
            \/ \E v \in VcnIds : PickVcn(v)
  BY <1>1, <1>10 DEF ListClusters, ClusterDeleted, ClustersDone, ListVcns, PickVcn, Die, Stay
<1>11. CASE \/ SkipNet \/ NetDeleted \/ NetDone \/ VcnDeleted \/ VcnsDone
            \/ DeleteContext \/ VerifyNoLiveOwnedParents
  BY <1>1, <1>11 DEF SkipNet, NetDeleted, NetDone, VcnDeleted, VcnsDone, DeleteContext,
     VerifyNoLiveOwnedParents, Die, Stay
<1> QED BY <1>2, <1>3, <1>4, <1>5, <1>6, <1>7, <1>8, <1>9, <1>10, <1>11, RequestVcnInside
        DEF ScriptStep

-----------------------------------------------------------------------------
(* How far a run has come: creating the network and the cluster *)

LEMMA EndRunLoops ==
  ASSUME EndRun
  PROVE  LoopsInv'
BY DEF EndRun, LoopsInv, StartInv, VcnInv, WithVcn, WithNet, PoolInv, WithCluster, TeardownInv,
       NoClusters

LEMMA CreateLoops ==
  ASSUME TypeInv, OwnInv, InsideInv, LoopsInv, CreateStep
  PROVE  LoopsInv'
<1> USE Lengths, IdsAssumption DEF TypeInv, LoopsInv, Goto, runVars, Stay, ociVars, Parents
<1> USE DEF WithVcn, WithNet, WithCluster, NoClusters
<1>1. CASE EndRun
  BY <1>1, EndRunLoops
<1>2. CASE ResolveCompartment \/ CompartmentReady
  BY <1>1, <1>2 DEF ResolveCompartment, CompartmentReady, FirstLabel, Die, RunTypeOK, StartInv,
     VcnInv, PoolInv, TeardownInv
<1>3. CASE CheckCreateCollisions
  BY <1>1, <1>3 DEF CheckCreateCollisions, Die, StartInv, VcnInv, PoolInv, TeardownInv
<1>4. ASSUME NEW v \in VcnIds, RequestVcn(v) PROVE LoopsInv'
  <2>1. pc' = "vcn_wait" /\ step' = 1 /\ vcnOcid' = v /\ v \in owned' /\ parent'[v] = "creating"
    BY <1>4 DEF RequestVcn, CreateVcn, OciTypeOK, StartInv
  <2> QED BY <2>1 DEF StartInv, VcnInv, PoolInv, TeardownInv
<1>5. CASE VcnAvailable
  BY <1>5 DEF VcnAvailable, StartInv, VcnInv, PoolInv, TeardownInv, Settled
<1>6. CASE RequestNet
  <2>1. /\ pc' = "net_wait" /\ UNCHANGED <<step, vcnOcid, parent, owned>>
        /\ step \in 1 .. 9
        /\ vcnOcid \in VcnIds /\ Settled(vcnOcid)
        /\ \A i \in 1 .. 9 : i < step => net[vcnOcid][CreateOrder[i]] = "active"
    BY <1>6 DEF RequestNet, CreateNet, RunTypeOK, VcnInv
  <2>2. \A i \in 1 .. 9 : i < step => net'[vcnOcid][CreateOrder[i]] = "active"
    BY <1>6, <2>1, CreateOrderFacts DEF RequestNet, CreateNet, OciTypeOK
  <2> QED BY <2>1, <2>2 DEF StartInv, VcnInv, PoolInv, TeardownInv, Settled
<1>7. CASE NetAvailable
  <2>1. /\ UNCHANGED <<vcnOcid, net, parent, owned>> /\ step' = step + 1 /\ step \in 1 .. 9
        /\ pc' = (IF step = 9 THEN "cluster" ELSE "net")
        /\ vcnOcid \in VcnIds /\ Settled(vcnOcid)
        /\ \A i \in 1 .. 9 : i < step + 1 => net[vcnOcid][CreateOrder[i]] = "active"
    BY <1>7 DEF NetAvailable, RunTypeOK, StepInv, VcnInv
  <2>2. step = 9 => NetComplete(vcnOcid)
    BY <2>1, CreateOrderFacts DEF NetComplete
  <2> QED BY <2>1, <2>2 DEF StartInv, VcnInv, PoolInv, TeardownInv, Settled, NetComplete
<1>8. ASSUME NEW c \in ClusterIds, RequestCluster(c) PROVE LoopsInv'
  <2>1. /\ pc' = "cluster_wait" /\ ocid' = c /\ UNCHANGED <<vcnOcid, net>>
        /\ c \in owned' /\ parent'[c] = "creating" /\ home'[c] = vcnOcid
        /\ vcnOcid \in VcnIds /\ Settled(vcnOcid) /\ NetComplete(vcnOcid)
        /\ owned' = owned \cup {c} /\ parent'[vcnOcid] = parent[vcnOcid]
    BY <1>8 DEF RequestCluster, CreateCluster, OciTypeOK, VcnInv
  <2> QED BY <2>1 DEF StartInv, VcnInv, PoolInv, TeardownInv, Settled, NetComplete
<1>9. CASE ClusterCreated
  BY <1>1, <1>9 DEF ClusterCreated, Die, StartInv, VcnInv, PoolInv, TeardownInv, Settled, NetComplete
<1>10. CASE SelectResumeParents
  <2>1. CASE ~EndRun
    <3>1. /\ ocid' \in Live(ClusterIds) /\ vcnOcid' \in Live(VcnIds) /\ pc' = "network"
          /\ Live(Parents) \subseteq owned
          /\ \A x \in Live(Parents) : parent[x] = "active"
          /\ step' = 1 /\ UNCHANGED <<parent, owned, home>>
      BY <1>10, <2>1 DEF SelectResumeParents, Die, StartInv
    <3>2. /\ ocid' \in ClusterIds /\ vcnOcid' \in VcnIds
          /\ Settled(ocid') /\ Settled(vcnOcid')
      BY <3>1 DEF Live, Settled
    <3>3. home[ocid'] \in VcnIds /\ Settled(home[ocid'])
      BY <3>2 DEF InsideInv, Settled, Exists
    <3>4. home[ocid'] = vcnOcid'
      BY <3>2, <3>3 DEF OwnInv, Unique, OwnedLive, Owned, Live, IsLive, Settled
    <3> QED BY <3>1, <3>2, <3>4 DEF StartInv, VcnInv, PoolInv, TeardownInv, Settled
  <2> QED BY <1>1, <2>1
<1>11. CASE ValidateResumeNetwork
  BY <1>1, <1>11 DEF ValidateResumeNetwork, Die, StartInv, VcnInv, PoolInv, TeardownInv, Settled,
     NetComplete, RunTypeOK
<1> QED BY <1>2, <1>3, <1>4, <1>5, <1>6, <1>7, <1>8, <1>9, <1>10, <1>11 DEF CreateStep

-----------------------------------------------------------------------------
(* How far a run has come: the pools *)

\* A step that keeps the network and the parents, from one label of the pools to
\* another.
LEMMA OnPools ==
  ASSUME LoopsInv, UNCHANGED <<parent, owned, home, net, ocid, vcnOcid>>,
         pc \in {"pools", "pool_wait", "context"},
         pc' \in {"pools", "pool_wait", "context", "taint"},
         pc' \in {"pools", "pool_wait"} =>
           \A i \in 1 .. 3 : i < step' => pool'[ocid][PoolOrder[i]] = "active" /\ HasSize(PoolOrder[i])',
         pc' = "pool_wait" => HasSize(ThisPool)',
         pc' \in {"context", "taint"} => \A p \in Pools : pool'[ocid][p] = "active" /\ HasSize(p)',
         pc' = "taint" => context'
  PROVE  LoopsInv'
BY DEF LoopsInv, StartInv, VcnInv, PoolInv, TeardownInv, WithVcn, WithNet, WithCluster, NoClusters,
       Settled, NetComplete

LEMMA PoolLoops ==
  ASSUME TypeInv, LoopsInv, PoolStep
  PROVE  LoopsInv'
<1> USE Lengths DEF TypeInv, Goto, runVars, Stay, ociVars
<1>1. CASE EndRun
  BY <1>1, EndRunLoops
<1>2. CASE ReusePool
  <2>1. \A i \in 1 .. 3 : i < step => pool[ocid][PoolOrder[i]] = "active" /\ HasSize(PoolOrder[i])
    BY <1>2 DEF ReusePool, LoopsInv, PoolInv
  <2>2. pool[ocid][PoolOrder[step]] = "active" /\ HasSize(PoolOrder[step])
    BY <1>2 DEF ReusePool, HasSize, ThisPool
  <2>3. step' = step + 1 /\ step \in Nat /\ pc = "pools" /\ pc' = "pools"
        /\ UNCHANGED <<ociVars, ocid, vcnOcid>>
    BY <1>2 DEF ReusePool, RunTypeOK
  <2>4. \A i \in 1 .. 3 : i < step' => pool'[ocid][PoolOrder[i]] = "active" /\ HasSize(PoolOrder[i])'
    BY <2>1, <2>2, <2>3 DEF HasSize
  <2> QED BY <2>3, <2>4, OnPools
<1>3. CASE RequestResize \/ RequestPool
  <2>1. /\ pc = "pools" /\ pc' = "pool_wait" /\ step \in 1 .. 3
        /\ UNCHANGED <<step, ocid, vcnOcid, parent, owned, home, net>>
        /\ \A i \in 1 .. 3 : i < step => pool[ocid][PoolOrder[i]] = "active" /\ HasSize(PoolOrder[i])
        /\ ocid \in ClusterIds /\ ThisPool \in Pools
    BY <1>3, PoolNames DEF RequestResize, RequestPool, ResizePool, CreatePool, RunTypeOK, LoopsInv,
       PoolInv, WithCluster, ThisPool
  <2>2. /\ \A p \in Pools : p # ThisPool => pool'[ocid][p] = pool[ocid][p]
        /\ sized'[ocid] = sized[ocid] \cup {ThisPool}
    BY <1>3, <2>1 DEF RequestResize, RequestPool, ResizePool, CreatePool, OciTypeOK
  <2>3. \A i \in 1 .. 3 : i < step => pool'[ocid][PoolOrder[i]] = "active" /\ HasSize(PoolOrder[i])'
    BY <2>1, <2>2, PoolNames, PoolOrderFacts DEF ThisPool, HasSize
  <2>4. HasSize(ThisPool)'
    BY <2>1, <2>2 DEF HasSize, ThisPool
  <2> QED BY <2>1, <2>3, <2>4, OnPools
<1>4. CASE RefusePool \/ TaintNodes
  BY <1>1, <1>4 DEF RefusePool, TaintNodes, Die
<1>5. CASE PoolReady
  <2>1. CASE ~EndRun
    <3>1. /\ step' = step + 1 /\ step \in Nat /\ pc = "pool_wait" /\ pc' = "pools"
          /\ UNCHANGED <<ociVars, ocid, vcnOcid>> /\ pool[ocid][PoolOrder[step]] = "active"
      BY <1>5, <2>1 DEF PoolReady, Die, RunTypeOK, ThisPool
    <3>2. /\ \A i \in 1 .. 3 : i < step => pool[ocid][PoolOrder[i]] = "active" /\ HasSize(PoolOrder[i])
          /\ HasSize(PoolOrder[step])
      BY <3>1 DEF LoopsInv, PoolInv, ThisPool
    <3>3. \A i \in 1 .. 3 : i < step' => pool'[ocid][PoolOrder[i]] = "active" /\ HasSize(PoolOrder[i])'
      BY <3>1, <3>2 DEF HasSize
    <3> QED BY <3>1, <3>3, OnPools
  <2> QED BY <1>1, <2>1
<1>6. CASE PoolsDone
  <2>1. /\ pc = "pools" /\ pc' = "context" /\ UNCHANGED <<ociVars, ocid, vcnOcid>>
        /\ \A i \in 1 .. 3 : pool[ocid][PoolOrder[i]] = "active" /\ HasSize(PoolOrder[i])
    BY <1>6 DEF PoolsDone, LoopsInv, PoolInv, RunTypeOK
  <2>2. \A p \in Pools : pool'[ocid][p] = "active" /\ HasSize(p)'
    BY <2>1, PoolOrderFacts DEF HasSize
  <2> QED BY <2>1, <2>2, OnPools
<1>7. CASE CreateContext
  <2>1. /\ pc = "context" /\ pc' = "taint" /\ UNCHANGED <<ociVars, ocid, vcnOcid>> /\ context'
        /\ \A p \in Pools : pool[ocid][p] = "active" /\ HasSize(p)
    BY <1>7 DEF CreateContext, LoopsInv, PoolInv
  <2>2. \A p \in Pools : pool'[ocid][p] = "active" /\ HasSize(p)'
    BY <2>1 DEF HasSize
  <2> QED BY <2>1, <2>2, OnPools
<1> QED BY <1>2, <1>3, <1>4, <1>5, <1>6, <1>7 DEF PoolStep

-----------------------------------------------------------------------------
(* How far a run has come: the teardown *)

\* Tagged clusters that are there may go, none may come.
NoneCome == \A c \in ClusterIds \cap owned' : Exists(c)' => c \in owned /\ Exists(c)

\* On its way to and between the VCNs, a teardown has no cluster left.
LEMMA ToVcns ==
  ASSUME LoopsInv, NoneCome, pc \in NoClusters,
         pc' \in NoClusters \ {"del_net", "del_net_wait", "del_vcn_last"}
  PROVE  LoopsInv'
BY DEF LoopsInv, NoneCome, StartInv, VcnInv, WithVcn, WithNet, PoolInv, WithCluster, TeardownInv,
       NoClusters

\* Inside a VCN it works down the order, and nothing comes up behind it.
LEMMA InVcn ==
  ASSUME LoopsInv, NoneCome, pc \in NoClusters, pc' \in {"del_net", "del_net_wait"},
         \A i \in 1 .. 9 : i < step' => net'[vcnOcid'][DeleteOrder[i]] = "none",
         \A kind \in Kinds : netSeen'[kind] = "none" => net'[vcnOcid'][kind] = "none"
  PROVE  LoopsInv'
BY DEF LoopsInv, NoneCome, StartInv, VcnInv, WithVcn, WithNet, PoolInv, WithCluster, TeardownInv,
       NoClusters

LEMMA DeleteLoops ==
  ASSUME TypeInv, SeenInv, LoopsInv, DeleteStep
  PROVE  LoopsInv'
<1> USE Lengths DEF TypeInv, Goto, runVars, Stay, ociVars
<1>1. CASE EndRun
  BY <1>1, EndRunLoops
<1>2. ASSUME UNCHANGED <<parent, owned>> PROVE NoneCome
  BY <1>2 DEF NoneCome, Exists
<1>3. ASSUME NEW x, Delete(x), MayDelete(x) PROVE NoneCome
  BY <1>3 DEF NoneCome, Exists, Delete, MayDelete, OciTypeOK
<1>4. ASSUME pc' \in {"del_cluster", "del_cluster_wait"},
             \A c \in ClusterIds \cap owned' : Exists(c)' => IsLive(seen'[c])
      PROVE  LoopsInv'
  BY <1>4 DEF LoopsInv, StartInv, VcnInv, WithVcn, WithNet, PoolInv, WithCluster, TeardownInv,
     NoClusters
<1>5. CASE ListClusters
  BY <1>4, <1>5 DEF ListClusters, LookUp, Owned, Live, IsLive, Exists, Parents
<1>6. ASSUME NEW c \in ClusterIds, DeleteClusterRecord(c) PROVE LoopsInv'
  <2>1. CASE ~EndRun
    <3>1. NoneCome /\ seen' = seen /\ pc = "del_cluster" /\ pc' = "del_cluster_wait"
      BY <1>2, <1>3, <1>6, <2>1 DEF DeleteClusterRecord, Die
    <3> QED BY <1>4, <3>1 DEF NoneCome, LoopsInv, TeardownInv
  <2> QED BY <1>1, <2>1
<1>7. CASE ClusterDeleted
  <2>1. CASE ~EndRun
    <3>1. /\ UNCHANGED <<parent, owned>> /\ pc = "del_cluster_wait" /\ pc' = "del_cluster"
          /\ ~Exists(ocid) /\ seen' = [seen EXCEPT ![ocid] = "none"]
      BY <1>7, <2>1 DEF ClusterDeleted, Die
    <3>2. \A c \in ClusterIds \cap owned' : Exists(c)' => IsLive(seen'[c])
      BY <3>1 DEF Exists, LoopsInv, TeardownInv, RunTypeOK, Parents
    <3> QED BY <1>4, <3>1, <3>2
  <2> QED BY <1>1, <2>1
<1>8. CASE ClustersDone
  <2>1. \A c \in ClusterIds \cap owned : ~Exists(c)
    BY <1>8 DEF ClustersDone, Unseen, IsLive, Parents, LoopsInv, TeardownInv
  <2> QED BY <1>8, <2>1 DEF ClustersDone, Exists, LoopsInv, StartInv, VcnInv, WithVcn, WithNet,
          PoolInv, WithCluster, TeardownInv, NoClusters
<1>9. CASE ListVcns \/ VcnsDone \/ DeleteContext \/ VcnDeleted
  BY <1>2, <1>9, ToVcns DEF ListVcns, VcnsDone, DeleteContext, VcnDeleted, NoClusters
<1>10. ASSUME NEW v \in VcnIds, PickVcn(v) PROVE LoopsInv'
  <2>1. NoneCome /\ pc = "del_vcn" /\ vcnOcid' = v /\ step' = 1 /\ net' = net
    BY <1>2, <1>10 DEF PickVcn
  <2>2. CASE pc' = "del_vcn_wait"
    BY <2>1, <2>2, ToVcns DEF NoClusters
  <2>3. CASE pc' = "del_net" /\ netSeen' = net[v]
    BY <2>1, <2>3, InVcn DEF NoClusters
  <2> QED BY <1>10, <2>2, <2>3 DEF PickVcn
<1>11. CASE SkipNet \/ NetDeleted
  <2>1. /\ NoneCome /\ step' = step + 1 /\ step \in 1 .. 9 /\ UNCHANGED <<net, vcnOcid, netSeen>>
        /\ pc \in {"del_net", "del_net_wait"} /\ pc' = "del_net"
        /\ netSeen[DeleteOrder[step]] = "none" \/ net[vcnOcid][DeleteOrder[step]] = "none"
    BY <1>2, <1>11 DEF SkipNet, NetDeleted, RunTypeOK, ThisKind, StepInv
  <2>2. /\ \A i \in 1 .. 9 : i < step => net[vcnOcid][DeleteOrder[i]] = "none"
        /\ \A kind \in Kinds : netSeen[kind] = "none" => net[vcnOcid][kind] = "none"
    BY <2>1 DEF LoopsInv, TeardownInv
  <2>3. \A i \in 1 .. 9 : i < step' => net'[vcnOcid'][DeleteOrder[i]] = "none"
    BY <2>1, <2>2, DeleteOrderFacts
  <2> QED BY <2>1, <2>2, <2>3, InVcn DEF NoClusters
<1>12. CASE DeleteNetworkRecord
  <2>1. CASE ~EndRun
    <3>1. /\ NoneCome /\ UNCHANGED <<step, vcnOcid, netSeen>>
          /\ pc = "del_net" /\ pc' = "del_net_wait"
          /\ net' = net \/ (DeleteNet(vcnOcid, ThisKind) /\ net[vcnOcid][ThisKind] = "active")
      BY <1>2, <1>12, <2>1 DEF DeleteNetworkRecord, Die, DeleteNet, MayDeleteNet
    <3>2. \A kind \in Kinds : net[vcnOcid][kind] = "none" => net'[vcnOcid][kind] = "none"
      BY <3>1 DEF DeleteNet, OciTypeOK, SeenInv
    <3>3. /\ \A i \in 1 .. 9 : i < step => net[vcnOcid][DeleteOrder[i]] = "none"
          /\ \A kind \in Kinds : netSeen[kind] = "none" => net[vcnOcid][kind] = "none"
      BY <3>1 DEF LoopsInv, TeardownInv
    <3> QED BY <3>1, <3>2, <3>3, InVcn, DeleteOrderFacts DEF NoClusters
  <2> QED BY <1>1, <2>1
<1>13. CASE NetDone
  <2>1. /\ NoneCome /\ UNCHANGED <<net, vcnOcid>> /\ pc = "del_net" /\ pc' = "del_vcn_last"
        /\ \A i \in 1 .. 9 : net[vcnOcid][DeleteOrder[i]] = "none"
    BY <1>2, <1>13 DEF NetDone, LoopsInv, TeardownInv, RunTypeOK
  <2>2. \A kind \in Kinds : net'[vcnOcid'][kind] = "none"
    BY <2>1, DeleteOrderFacts
  <2> QED BY <2>1, <2>2 DEF NoneCome, LoopsInv, StartInv, VcnInv, WithVcn, WithNet, PoolInv,
          WithCluster, TeardownInv, NoClusters
<1>14. CASE DeleteVcnRecord
  BY <1>1, <1>3, <1>14, ToVcns DEF DeleteVcnRecord, Die, NoClusters
<1>15. CASE VerifyNoLiveOwnedParents
  BY <1>1, <1>2, <1>15, ToVcns DEF VerifyNoLiveOwnedParents, Die, NoClusters
<1> QED BY <1>5, <1>6, <1>7, <1>8, <1>9, <1>10, <1>11, <1>12, <1>13, <1>14, <1>15 DEF DeleteStep

-----------------------------------------------------------------------------
(* The whole invariant *)

\* A run that goes on has not reported anything, and has its compartment.
LEMMA ScriptReports ==
  ASSUME TypeInv, OutcomeInv, CompartmentInv, ScriptStep
  PROVE  OutcomeInv' /\ CompartmentInv'
<1> USE DEF OutcomeInv, CompartmentInv, Die, EndRun, Stay, Goto, worldVars, ociVars, runVars
<1>1. CASE ResolveCompartment
  BY <1>1 DEF ResolveCompartment
<1>2. CASE CompartmentReady \/ CheckCreateCollisions
  BY <1>2 DEF CompartmentReady, CheckCreateCollisions
<1>3. ASSUME compartment = "active",
             UNCHANGED <<compartment, outcome>> \/ (UNCHANGED compartment /\ pc' = "idle"),
             pc # "idle"
      PROVE  OutcomeInv' /\ CompartmentInv'
  BY <1>3
<1>4. CASE \/ \E v \in VcnIds : RequestVcn(v)
           \/ VcnAvailable \/ RequestNet \/ NetAvailable
           \/ \E c \in ClusterIds : RequestCluster(c)
           \/ ClusterCreated \/ SelectResumeParents \/ ValidateResumeNetwork
  BY <1>3, <1>4 DEF RequestVcn, VcnAvailable, RequestNet, NetAvailable, RequestCluster,
     ClusterCreated, SelectResumeParents, ValidateResumeNetwork
<1>5. CASE PoolStep
  BY <1>3, <1>5 DEF PoolStep, ReusePool, RequestResize, RefusePool, RequestPool, PoolReady,
     PoolsDone, CreateContext, TaintNodes
<1>6. CASE \/ ListClusters \/ \E c \in ClusterIds : DeleteClusterRecord(c)
           \/ ClusterDeleted \/ ClustersDone \/ ListVcns \/ \E v \in VcnIds : PickVcn(v)
  BY <1>3, <1>6 DEF ListClusters, DeleteClusterRecord, ClusterDeleted, ClustersDone, ListVcns, PickVcn
<1>7. CASE \/ SkipNet \/ DeleteNetworkRecord \/ NetDeleted \/ NetDone
           \/ DeleteVcnRecord \/ VcnDeleted \/ VcnsDone \/ DeleteContext
           \/ VerifyNoLiveOwnedParents
  BY <1>3, <1>7 DEF SkipNet, DeleteNetworkRecord, NetDeleted, NetDone, DeleteVcnRecord, VcnDeleted,
     VcnsDone, DeleteContext, VerifyNoLiveOwnedParents
<1> QED BY <1>1, <1>2, <1>4, <1>5, <1>6, <1>7 DEF ScriptStep, PoolStep

\* Steps beside the script that spare the deployment leave a run where it is.
LEMMA SparedLoops ==
  ASSUME TypeInv, SeenInv, LoopsInv, Spared, UNCHANGED <<pc, runVars>>, context => context'
  PROVE  LoopsInv'
<1> USE DEF runVars, LoopsInv, Parents
<1>1. StartInv'
  BY DEF StartInv
<1>2. VcnInv'
  <2>1. pc = "vcn_wait" =>
          vcnOcid \in owned' /\ parent'[vcnOcid] \in {"creating", "active"}
    BY DEF VcnInv, Spared, Settled
  <2>2. pc \in WithVcn => Settled(vcnOcid)'
    BY DEF VcnInv, Spared, Settled
  <2>3. pc \in {"net", "net_wait"} =>
          \A i \in 1 .. 9 : i < step => net'[vcnOcid][CreateOrder[i]] = "active"
    BY CreateOrderFacts DEF VcnInv, Spared, WithVcn
  <2>4. pc \in WithNet => NetComplete(vcnOcid)'
    BY DEF VcnInv, Spared, NetComplete, WithNet, WithVcn
  <2> QED BY <2>1, <2>2, <2>3, <2>4 DEF VcnInv
<1>3. PoolInv'
  <2>1. pc \in WithCluster \cup {"cluster_wait"} =>
          ocid \in ClusterIds /\ ocid \in owned' /\ home'[ocid] = vcnOcid
    BY DEF PoolInv, Spared, WithCluster, Settled
  <2>2. pc = "cluster_wait" => parent'[ocid] \in {"creating", "active", "failed"}
    BY DEF PoolInv, Spared
  <2>3. pc \in WithCluster => parent'[ocid] = "active" /\ sized'[ocid] = sized[ocid]
    BY DEF PoolInv, Spared, Settled
  <2>4. pc \in WithCluster => \A p \in Pools : pool[ocid][p] = "active" => pool'[ocid][p] = "active"
    BY DEF PoolInv, Spared
  <2> QED BY <2>1, <2>2, <2>3, <2>4, PoolNames DEF PoolInv, WithCluster, HasSize, ThisPool
<1>4. TeardownInv'
  <2>1. \A c \in ClusterIds \cap owned' : Exists(c)' => c \in owned /\ Exists(c)
    BY DEF Spared
  <2>2. pc \in {"del_net", "del_net_wait", "del_vcn_last"} =>
          \A kind \in Kinds : net[vcnOcid][kind] = "none" => net'[vcnOcid][kind] = "none"
    BY DEF Spared, SeenInv
  <2> QED BY <2>1, <2>2, DeleteOrderFacts DEF TeardownInv
<1> QED BY <1>1, <1>2, <1>3, <1>4

LEMMA DeployStep ==
  ASSUME TypeInv, OwnInv, SeenInv, DeployInv, [Next]_vars
  PROVE  DeployInv'
<1> USE DEF DeployInv
<1>1. CASE ScriptStep
  <2>1. CreateStep \/ PoolStep \/ DeleteStep
    BY <1>1, Zenon DEF ScriptStep, CreateStep, PoolStep, DeleteStep
  <2>2. LoopsInv'
    BY <2>1, CreateLoops, PoolLoops, DeleteLoops, Zenon
  <2>3. InsideInv'
    BY <1>1, ScriptInside DEF LoopsInv
  <2> QED BY <1>1, <2>2, <2>3, ScriptReports
<1>2. CASE OciWorks \/ OciFails \/ StrangerCreates \/ StrangerDeletes \/ OperatorCleansUp
  <2>1. OciOrOthers /\ outcome' = "none" /\ UNCHANGED <<pc, runVars, worldVars>>
    BY <1>2, OciOrOthersStep
  <2>2. Spared /\ InsideInv'
    BY <2>1, OthersSpare DEF TypeInv, OwnInv
  <2>3. OutcomeInv' /\ LoopsInv'
    BY <2>1, <2>2, SparedLoops DEF OutcomeInv, worldVars
  <2>4. CompartmentInv'
    <3>1. owned = {} => owned' = {}
      BY <2>1 DEF OciOrOthers, OciProgress, ParentProgress, NetProgress, PoolProgress, ClusterFails,
         PoolFails, OperatorDeletesPool, ForeignAppears, ForeignDeleted, Delete
    <3> QED BY <2>1, <3>1 DEF CompartmentInv, worldVars
  <2> QED BY <2>2, <2>3, <2>4
<1>3. ASSUME UNCHANGED <<parent, owned, home, net, pool>> PROVE InsideInv'
  BY <1>3 DEF InsideInv, Exists
<1>4. CASE LaunchAny
  <2>1. /\ pc = "idle" /\ pc' = "compartment" /\ outcome' = "none" /\ step' = step
        /\ UNCHANGED <<ociVars, worldVars>>
    BY <1>4 DEF LaunchAny, Launch, Goto
  <2>2. LoopsInv'
    BY <2>1 DEF LoopsInv, StartInv, VcnInv, WithVcn, WithNet, PoolInv, WithCluster, TeardownInv,
       NoClusters
  <2> QED BY <1>3, <2>1, <2>2 DEF OutcomeInv, CompartmentInv, ociVars, worldVars
<1>5. CASE Interrupt
  <2>1. pc # "idle" /\ EndRun /\ pc' = "idle" /\ UNCHANGED <<ociVars, worldVars, outcome>>
    BY <1>5 DEF Interrupt, EndRun
  <2> QED BY <1>3, <2>1, EndRunLoops DEF OutcomeInv, CompartmentInv, ociVars, worldVars
<1>6. CASE CompartmentProgress \/ LimitChanges \/ UNCHANGED vars
  <2>1. /\ UNCHANGED <<ociVars, pc, runVars, outcome, context>>
        /\ compartment' \in {compartment, "active"}
    BY <1>6 DEF CompartmentProgress, LimitChanges, ScriptUnchanged, vars, worldVars
  <2>2. Spared
    BY <2>1 DEF ociVars, Spared, Settled, Exists
  <2>3. LoopsInv'
    BY <2>1, <2>2, SparedLoops
  <2> QED BY <1>3, <2>1, <2>3 DEF OutcomeInv, CompartmentInv, ociVars
<1>7. CASE OperatorRemovesContext \/ \E c \in ClusterIds, p \in Pools : Reconfigure(c, p)
  <2>1. /\ pc = "idle" /\ pc' = "idle" /\ step' = step
        /\ UNCHANGED <<parent, owned, home, net, pool, compartment>>
    BY <1>7 DEF OperatorRemovesContext, Reconfigure, ScriptUnchanged, ociVars, worldVars, runVars
  <2>2. LoopsInv'
    BY <2>1 DEF LoopsInv, StartInv, VcnInv, WithVcn, WithNet, PoolInv, WithCluster, TeardownInv,
       NoClusters
  <2> QED BY <1>3, <2>1, <2>2 DEF OutcomeInv, CompartmentInv
<1> QED BY <1>1, <1>2, <1>4, <1>5, <1>6, <1>7 DEF Next

LEMMA DeployInit ==
  ASSUME Init
  PROVE  DeployInv
<1>1. pc = "idle" /\ step = 1 /\ outcome = "none" /\ owned = {}
  BY DEF Init, NoRun, OciEmpty
<1>2. InsideInv
  BY DEF Init, OciEmpty, InsideInv, Exists, Parents
<1> QED BY <1>1, <1>2 DEF DeployInv, OutcomeInv, CompartmentInv, LoopsInv, StartInv, VcnInv, WithVcn,
        WithNet, PoolInv, WithCluster, TeardownInv, NoClusters

LEMMA SeenHolds == Spec => [](TypeInv /\ OwnInv /\ SeenInv)
<1>1. Init => SeenInv
  BY DEF Init, NoRun, SeenInv, Unseen, Lasting
<1>2. TypeInv /\ OwnInv /\ SeenInv /\ [Next]_vars => SeenInv'
  BY SeenStep
<1> QED BY <1>1, <1>2, OwnershipHolds, PTL DEF Spec

LEMMA DeployHolds == Spec => []DeployInv
<1>1. Init => DeployInv
  BY DeployInit
<1>2. TypeInv /\ OwnInv /\ SeenInv /\ DeployInv /\ [Next]_vars => DeployInv'
  BY DeployStep
<1> QED BY <1>1, <1>2, SeenHolds, PTL DEF Spec

-----------------------------------------------------------------------------
(* What a run reports *)

\* Nothing of a deployment is left.
NothingLeft ==
  /\ Owned(Live(Parents)) = {}
  /\ \A v \in VcnIds, kind \in Kinds : net[v][kind] = "none"
  /\ \A c \in ClusterIds, p \in Pools : pool[c][p] = "none"

\* With no tagged cluster or VCN there is nothing inside one.
LEMMA NothingInside ==
  ASSUME InsideInv, Owned(Live(Parents)) = {}
  PROVE  NothingLeft
BY DEF InsideInv, NothingLeft, Owned, Live, IsLive, Parents

ReportInv == GoneMeansGone /\ ReadyMeansComplete

\* What was reported stays true while nobody touches it.
LEMMA ReportStands ==
  ASSUME ReportInv, UNCHANGED <<ociVars, outcome, tainted>>, context => context'
  PROVE  ReportInv'
BY DEF ReportInv, GoneMeansGone, ReadyMeansComplete, Deployed, Complete, NetComplete, Owned, Live,
       ociVars

LEMMA ReportStep ==
  ASSUME TypeInv, OwnInv, DeployInv, ReportInv, [Next]_vars
  PROVE  ReportInv'
<1>1. ASSUME outcome' = "none" PROVE ReportInv'
  BY <1>1 DEF ReportInv, GoneMeansGone, ReadyMeansComplete
<1>2. ASSUME outcome' = outcome, pc # "idle" PROVE ReportInv'
  BY <1>1, <1>2 DEF DeployInv, OutcomeInv
<1>3. ASSUME NothingLeft', outcome' = "gone" PROVE ReportInv'
  BY <1>3 DEF ReportInv, GoneMeansGone, ReadyMeansComplete, NothingLeft
<1>4. CASE ScriptStep
  <2>1. CASE ResolveCompartment
    <3>1. CASE outcome' = "gone" /\ compartment = "none" /\ UNCHANGED ociVars
      <4>1. owned = {}
        BY <3>1 DEF DeployInv, CompartmentInv
      <4>2. NothingLeft
        BY <4>1, NothingInside DEF DeployInv, Owned
      <4> QED BY <1>3, <3>1, <4>2 DEF NothingLeft, Owned, Live, ociVars
    <3>2. CASE outcome' = outcome
      BY <1>2, <2>1, <3>2 DEF ResolveCompartment
    <3> QED BY <2>1, <3>1, <3>2 DEF ResolveCompartment, Die, Stay
  <2>2. CASE VerifyNoLiveOwnedParents
    <3>1. CASE outcome' = "gone" /\ Owned(Live(Parents)) = {} /\ UNCHANGED ociVars
      <4>1. NothingLeft
        BY <3>1, NothingInside DEF DeployInv
      <4> QED BY <1>3, <3>1, <4>1 DEF NothingLeft, Owned, Live, ociVars
    <3>2. CASE outcome' = outcome
      BY <1>2, <2>2, <3>2 DEF VerifyNoLiveOwnedParents
    <3> QED BY <2>2, <3>1, <3>2 DEF VerifyNoLiveOwnedParents, Die, Stay
  <2>3. CASE TaintNodes
    <3>1. /\ ocid \in ClusterIds /\ Settled(ocid) /\ home[ocid] = vcnOcid
          /\ vcnOcid \in VcnIds /\ Settled(vcnOcid) /\ NetComplete(vcnOcid)
          /\ \A p \in Pools : pool[ocid][p] = "active" /\ HasSize(p)
          /\ context
      BY <2>3 DEF TaintNodes, DeployInv, LoopsInv, VcnInv, PoolInv, WithVcn, WithNet, WithCluster,
         Settled
    <3>2. /\ UNCHANGED <<ociVars, context>> /\ outcome' = "ready"
          /\ tainted'[ocid] = {"scylla", "application"}
      BY <2>3, <3>1 DEF TaintNodes, TypeInv, WorldTypeOK
    <3>3. {"system", "application"} \subseteq sized[ocid]
      BY <3>1 DEF HasSize, Pools
    <3>4. ASSUME NEW c, NEW v, c = ocid, v = vcnOcid PROVE Complete(c, v)'
      BY <3>1, <3>2, <3>3, <3>4 DEF Complete, NetComplete, Settled, ociVars
    <3>5. PICK c \in ClusterIds, v \in VcnIds : c = ocid /\ v = vcnOcid
      BY <3>1
    <3>6. Complete(c, v)'
      BY <3>4, <3>5
    <3> QED BY <3>2, <3>6 DEF ReportInv, GoneMeansGone, ReadyMeansComplete, Deployed
  <2>4. CASE ~ResolveCompartment /\ ~VerifyNoLiveOwnedParents /\ ~TaintNodes
    <3>1. pc # "idle"
      BY <1>4 DEF ScriptStep, ResolveCompartment, CompartmentReady, CheckCreateCollisions,
         RequestVcn, VcnAvailable, RequestNet, NetAvailable, RequestCluster, ClusterCreated,
         SelectResumeParents, ValidateResumeNetwork, ReusePool, RequestResize, RefusePool,
         RequestPool, PoolReady, PoolsDone, CreateContext, TaintNodes, ListClusters,
         DeleteClusterRecord, ClusterDeleted, ClustersDone, ListVcns, PickVcn, SkipNet,
         DeleteNetworkRecord, NetDeleted, NetDone, DeleteVcnRecord, VcnDeleted, VcnsDone,
         DeleteContext, VerifyNoLiveOwnedParents
    <3>2. outcome' = outcome
      BY <1>4, <2>4 DEF ScriptStep, CompartmentReady, CheckCreateCollisions,
         RequestVcn, VcnAvailable, RequestNet, NetAvailable, RequestCluster, ClusterCreated,
         SelectResumeParents, ValidateResumeNetwork, ReusePool, RequestResize, RefusePool,
         RequestPool, PoolReady, PoolsDone, CreateContext, ListClusters,
         DeleteClusterRecord, ClusterDeleted, ClustersDone, ListVcns, PickVcn, SkipNet,
         DeleteNetworkRecord, NetDeleted, NetDone, DeleteVcnRecord, VcnDeleted, VcnsDone,
         DeleteContext, Die, Stay
    <3> QED BY <1>2, <3>1, <3>2
  <2> QED BY <2>1, <2>2, <2>3, <2>4
<1>5. CASE OciWorks \/ OciFails \/ StrangerCreates \/ StrangerDeletes \/ OperatorCleansUp
  BY <1>1, <1>5, OciOrOthersStep
<1>6. CASE LaunchAny \/ \E c \in ClusterIds, p \in Pools : Reconfigure(c, p)
  BY <1>1, <1>6 DEF LaunchAny, Launch, Reconfigure
<1>7. CASE Interrupt
  BY <1>2, <1>7 DEF Interrupt
<1>8. CASE CompartmentProgress \/ LimitChanges \/ UNCHANGED vars
  BY <1>8, ReportStands DEF CompartmentProgress, LimitChanges, vars, worldVars
<1>9. CASE OperatorRemovesContext
  \* A deployment stands and keeps its context, or nothing does.
  <2>1. ~Deployed
    BY <1>9 DEF OperatorRemovesContext, Deployed, Complete, Owned, Live, IsLive, Parents
  <2>2. UNCHANGED <<ociVars, outcome>> /\ outcome # "ready"
    BY <1>9, <2>1 DEF OperatorRemovesContext, ReportInv, ReadyMeansComplete
  <2> QED BY <2>2 DEF ReportInv, GoneMeansGone, ReadyMeansComplete, Owned, Live, ociVars
<1> QED BY <1>4, <1>5, <1>6, <1>7, <1>8, <1>9 DEF Next

LEMMA ReportHolds == Spec => []ReportInv
<1>1. Init => ReportInv
  BY DEF Init, NoRun, ReportInv, GoneMeansGone, ReadyMeansComplete
<1>2. TypeInv /\ OwnInv /\ DeployInv /\ ReportInv /\ [Next]_vars => ReportInv'
  BY ReportStep
<1> QED BY <1>1, <1>2, DeployHolds, OwnershipHolds, PTL DEF Spec

-----------------------------------------------------------------------------
(* Theorems *)

\* Type correctness of the provisioning and of the OCI records behind it.
THEOREM ProvisionTypeCorrect == Spec => []TypeOK
<1>1. TypeInv => TypeOK
  BY DEF TypeInv, TypeOK, RunTypeOK, WorldTypeOK
<1> QED BY <1>1, TypesHold, PTL

\* There is never more than one live deployment with the ownership tag, in
\* whatever way earlier runs ended: a create asks for a cluster only after it
\* saw that nothing was live.
THEOREM OneDeployment == Spec => []SingleDeployment
<1>1. TypeInv /\ OwnInv => SingleDeployment
  <2> SUFFICES ASSUME TypeInv, OwnInv PROVE SingleDeployment
    OBVIOUS
  <2>1. ASSUME NEW S \in SUBSET Parents, \A x, y \in Owned(Live(S)) : x = y
        PROVE  Cardinality(Owned(Live(S))) <= 1
    <3>1. CASE Owned(Live(S)) = {}
      BY <3>1, FS_EmptySet
    <3>2. CASE Owned(Live(S)) # {}
      <4>1. PICK x : Owned(Live(S)) = {x}
        BY <2>1, <3>2
      <4> QED BY <4>1, FS_Singleton
    <3> QED BY <3>1, <3>2
  <2>2. /\ Owned(Live(ClusterIds)) \subseteq OwnedLive \cap ClusterIds
        /\ Owned(Live(VcnIds)) \subseteq OwnedLive \cap VcnIds
    BY DEF OwnedLive, Owned, Live, Parents
  <2> QED BY <2>1, <2>2 DEF SingleDeployment, OwnInv, Unique, Parents
<1> QED BY <1>1, OwnershipHolds, PTL

\* A teardown never deletes a cluster or VCN without the tag, although it works
\* through a listing that may be out of date.
THEOREM OthersUntouched == Spec => ForeignUntouched
<1> DEFINE Untouched ==
      \A x \in Parents \ owned : parent[x] # "deleting" /\ parent'[x] = "deleting" => pc' = pc
<1>1. TypeInv /\ OwnInv /\ SeenInv /\ [Next]_vars => [Untouched]_vars
  <2> SUFFICES ASSUME TypeInv, OwnInv, SeenInv, Next PROVE Untouched
    OBVIOUS
  <2>1. CASE ScriptStep
    BY <2>1, DeletesOwned
  <2>2. CASE UNCHANGED parent
    BY <2>2
  <2>3. CASE LaunchAny \/ Interrupt
    BY <2>2, <2>3 DEF LaunchAny, Launch, Interrupt, ociVars
  <2>4. CASE OciWorks \/ OciFails \/ StrangerCreates \/ StrangerDeletes \/ OperatorCleansUp
    BY <2>4, OciOrOthersStep
  <2>5. CASE Settings
    BY <2>5 DEF Settings, CompartmentProgress, LimitChanges, OperatorRemovesContext,
       Reconfigure, ScriptUnchanged
  <2> QED BY <2>1, <2>3, <2>4, <2>5 DEF Next, Settings
<1> QED BY <1>1, SeenHolds, PTL DEF Spec, ForeignUntouched

\* Whatever was still being created when the teardown listed the VCN, it asks
\* for no deletion that OCI would refuse because something else is in the way.
THEOREM TeardownUnblocked == Spec => []DeletesUnblocked
<1>1. TypeInv /\ SeenInv /\ DeployInv => DeletesUnblocked
  <2> SUFFICES ASSUME TypeInv, SeenInv, DeployInv PROVE DeletesUnblocked
    OBVIOUS
  <2>1. ASSUME pc \in NoClusters, NEW v \in VcnIds PROVE ClustersIn(v) = {}
    BY <2>1, IdsAssumption DEF ClustersIn, DeployInv, InsideInv, LoopsInv, TeardownInv
  <2>2. ASSUME pc = "del_net", step <= 9, netSeen[ThisKind] # "none",
               InUse(vcnOcid, ThisKind)
        PROVE  FALSE
    <3>1. step \in 1 .. 9 /\ vcnOcid \in VcnIds
      BY <2>2, Lengths DEF TypeInv, RunTypeOK, SeenInv
    <3>2. PICK other \in Kinds : net[vcnOcid][other] # "none" /\ DeleteOrder[step] \in RefersTo(other)
      BY <2>1, <2>2, <3>1 DEF InUse, NoClusters, ThisKind
    <3>3. PICK i \in 1 .. 9 : i < step /\ DeleteOrder[i] = other
      BY <3>1, <3>2, RefersEarlier
    <3> QED BY <2>2, <3>2, <3>3 DEF DeployInv, LoopsInv, TeardownInv
  <2>3. ASSUME pc = "del_vcn_last" PROVE ~VcnInUse(vcnOcid)
    BY <2>1, <2>3 DEF VcnInUse, NoClusters, SeenInv, DeployInv, LoopsInv, TeardownInv
  <2> QED BY <2>2, <2>3, Lengths DEF DeletesUnblocked
<1> QED BY <1>1, SeenHolds, DeployHolds, PTL

\* A teardown that reports the deployment gone leaves nothing of it, wherever
\* the runs before it were killed.
THEOREM TeardownComplete == Spec => []GoneMeansGone
<1>1. ReportInv => GoneMeansGone
  BY DEF ReportInv
<1> QED BY <1>1, ReportHolds, PTL

\* A create or resume that reports the cluster ready has all of it, over however
\* many interrupted runs it took.
THEOREM DeploymentComplete == Spec => []ReadyMeansComplete
<1>1. ReportInv => ReadyMeansComplete
  BY DEF ReportInv
<1> QED BY <1>1, ReportHolds, PTL
=============================================================================

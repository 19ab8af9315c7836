------------------- MODULE ConvertToTabletsKubectl_proofs -------------------
(***************************************************************************)
(* Safety of the kubectl migration script, and its refinement of           *)
(* RollingMigration, for every number of pods, every set of keyspaces and  *)
(* addresses, and every bound on faults and disruptions.                   *)
(***************************************************************************)
EXTENDS ConvertToTabletsKubectl, TLAPS

-----------------------------------------------------------------------------
(* The inductive invariant *)

Settles(n, m) == current[n] = m /\ intended[n] = m

Early == {"idle", "host_ids", "cluster_up", "classify"}
BeforeLoop == Early \cup {"confirm", "prepare", "prepared"}
PerPod == {"needs_restart", "drain", "delete", "wait_gone", "wait_ready", "wait_state"}
LoopLabels == {"next_pod"} \cup PerPod
AfterLoop == {"confirm_final", "finalize", "finalized"}

\* Where the loops over keyspaces and pods stand.
LoopInv ==
  /\ pc \in Early => todo = {}
  /\ pc \in BeforeLoop => pod = 1
  /\ pc \in PerPod => pod <= N
  /\ pc \in AfterLoop => pod = N + 1
  /\ pc # "idle" => args # {}

\* A started keyspace stays in flight until the run finalizes it.
FlightInv ==
  /\ pc \in {"confirm", "prepare", "prepared"} => args \ todo \subseteq InFlight
  /\ pc \in LoopLabels \cup {"confirm_final"} => args \subseteq InFlight
  /\ pc \in {"finalize", "finalized"} => todo \subseteq InFlight
  /\ pc = "finalize" => todo # {}

\* The pods the loop has passed are where the run wants them, for as long as there is
\* something left to finalize.
PassedInv ==
  pc \in LoopLabels \cup {"confirm_final", "finalize"} \/ (pc = "finalized" /\ todo # {}) =>
    \A n \in Nodes : n < pod => Settles(n, Wanted)

IInv == TypeOK /\ LoopInv /\ FlightInv /\ PassedInv

-----------------------------------------------------------------------------
(* Facts about operators *)

\* A pod that reports the mode for a keyspace in flight has settled in it.
LEMMA UsesSettles ==
  ASSUME NEW n \in Nodes, NEW m \in Modes, args # {}, UsesForAll(n, m)
  PROVE  Settles(n, m)
<1>1. PICK ks \in args : ReportsUses(n, ks, m)
  BY DEF UsesForAll
<1> QED BY <1>1 DEF ReportsUses, Settles

\* The end of a run satisfies the invariant whatever the cluster is left in.
LEMMA ExitIInv ==
  ASSUME ClusterTypeOK', faults' \in 0 .. MaxFaults, plain' \in BOOLEAN, Exit
  PROVE  IInv'
<1> USE NAssumption DEF Exit
<1>1. TypeOK'
  <2>1. pc' \in Labels /\ 1 \in Nodes /\ 1 \in 1 .. N + 1
    BY DEF Labels, Nodes
  <2>2. first_pod' \in Nodes /\ pod' \in 1 .. N + 1
    BY <2>1
  <2> QED BY <2>1, <2>2 DEF TypeOK
<1>2. LoopInv' /\ FlightInv' /\ PassedInv'
  BY DEF LoopInv, FlightInv, PassedInv, Early, BeforeLoop, PerPod, LoopLabels, AfterLoop
<1> QED BY <1>1, <1>2 DEF IInv

\* A step that leaves the cluster alone.
LEMMA StillFacts ==
  ASSUME TypeOK, UNCHANGED clusterVars
  PROVE  /\ ClusterTypeOK' /\ InFlight' = InFlight
         /\ \A n, m : Settles(n, m)' <=> Settles(n, m)
  BY DEF TypeOK, ClusterTypeOK, clusterVars, InFlight, Settles

\* A step of the cluster keeps what a run has achieved: a node that boots takes the mode
\* it is in already.
LEMMA ClusterIInv ==
  ASSUME IInv, ClusterTypeOK', UNCHANGED <<scriptVars, faults, plain, ksState, intended>>,
         \A n \in Nodes : current'[n] \in {current[n], intended[n]}
  PROVE  IInv'
<1> USE DEF IInv, scriptVars
<1>1. TypeOK'
  BY DEF TypeOK
<1>2. InFlight' = InFlight
  BY DEF InFlight
<1>3. LoopInv' /\ FlightInv'
  BY <1>2 DEF LoopInv, FlightInv
<1>4. PassedInv'
  BY DEF PassedInv, Settles, Wanted
<1> QED BY <1>1, <1>3, <1>4

\* A replaced pod gets an address nobody holds.
LEMMA FreeAddresses ==
  ASSUME NEW n \in Nodes, NEW a \in FreeFor(n), TypeOK, addr' = [addr EXCEPT ![n] = a]
  PROVE  addr' \in [Nodes -> Addresses]
  BY DEF TypeOK, ClusterTypeOK, FreeFor

\* <command> || die
LEMMA OrDieIInv ==
  ASSUME IInv, NEW b \in BOOLEAN, NEW l \in Labels, OrDie(b, l), Still, UNCHANGED faults,
         b => \/ pc \in Early /\ l \in Early
              \/ l \in {"confirm"} /\ args \ todo \subseteq InFlight /\ pc \in Early
              \/ l = "prepare" /\ pc = "prepared"
              \/ l = "next_pod" /\ pc = "prepared" /\ todo = {},
         pc # "idle"
  PROVE  IInv'
<1>0. ClusterTypeOK' /\ InFlight' = InFlight /\ faults' \in 0 .. MaxFaults /\ plain' \in BOOLEAN
  BY StillFacts DEF Still, IInv, TypeOK
<1>1. CASE ~b
  BY <1>0, <1>1, ExitIInv DEF OrDie
<1>2. CASE b
  <2>1. pc' = l /\ UNCHANGED <<mode, args, force, first_pod, pod, todo>>
    BY <1>2 DEF OrDie, Goto, runVars
  <2>2. TypeOK'
    BY <1>0, <2>1 DEF IInv, TypeOK
  <2>3. LoopInv'
    BY <1>2, <2>1 DEF IInv, LoopInv, Early, BeforeLoop, PerPod, AfterLoop
  <2>4. FlightInv'
    BY <1>0, <1>2, <2>1 DEF IInv, FlightInv, Early, PerPod, LoopLabels
  <2>5. PassedInv'
    BY <1>2, <2>1, NAssumption DEF IInv, TypeOK, PassedInv, LoopInv, Early, BeforeLoop, PerPod, LoopLabels, Nodes
  <2> QED BY <2>2, <2>3, <2>4, <2>5 DEF IInv
<1> QED BY <1>1, <1>2

-----------------------------------------------------------------------------
(* The steps of the script, one lemma per phase *)

Preflight ==
  \/ ReadHostIds \/ CheckClusterUp \/ ClassifyForMigration \/ ClassifyForRollback
  \/ Confirm \/ CheckPrepared
  \/ \E ks \in Keyspaces : Prepare(ks)

Restart ==
  \/ SkipDone \/ Upgrade \/ Downgrade \/ NeedsRestart \/ DrainPod \/ DeletePodAsked
  \/ PodRecreated \/ PodReady \/ NodeConverted

Finalization ==
  \/ LoopDone \/ ConfirmFinal \/ CheckFinalized
  \/ \E ks \in Keyspaces : Finalize(ks)

LEMMA LaunchIInv ==
  ASSUME IInv, NEW m \in {"migrate", "rollback"}, NEW ks \in (SUBSET Keyspaces) \ {{}},
         NEW f \in BOOLEAN, Launch(m, ks, f)
  PROVE  IInv'
<1>1. /\ pc' = "host_ids" /\ mode' = m /\ args' = ks /\ force' = f /\ first_pod' \in Nodes
      /\ plain' \in BOOLEAN /\ UNCHANGED <<pod, todo, faults>> /\ pod = 1 /\ todo = {}
  BY DEF Launch, IInv, LoopInv, Early, BeforeLoop, TypeOK
<1>2. ClusterTypeOK'
  BY StillFacts DEF Launch, IInv
<1>3. TypeOK'
  BY <1>1, <1>2 DEF IInv, TypeOK, Labels
<1>4. LoopInv' /\ FlightInv' /\ PassedInv'
  BY <1>1 DEF LoopInv, FlightInv, PassedInv, Early, BeforeLoop, PerPod, LoopLabels, AfterLoop
<1> QED BY <1>3, <1>4 DEF IInv

LEMMA PreflightIInv ==
  ASSUME IInv, Preflight
  PROVE  IInv'
<1> USE NAssumption
<1>1. CASE ReadHostIds
  BY <1>1, OrDieIInv DEF ReadHostIds, Early, Labels
<1>2. CASE CheckClusterUp
  BY <1>2, OrDieIInv DEF CheckClusterUp, Early, Labels, IInv, TypeOK
<1>3. CASE ClassifyForMigration
  <2> DEFINE fresh == {ks \in args : ksState[ks] = "vnodes"}
  <2>0. ClusterTypeOK' /\ InFlight' = InFlight /\ faults' \in 0 .. MaxFaults /\ plain' \in BOOLEAN
    BY <1>3, StillFacts DEF ClassifyForMigration, Still, IInv, TypeOK
  <2>1. CASE Exit
    BY <2>0, <2>1, ExitIInv
  <2>2. CASE ~Exit
    <3>1. /\ pc' = "confirm" /\ todo' = fresh
          /\ UNCHANGED <<mode, args, force, first_pod, pod>>
          /\ \A ks \in args : ksState[ks] # "tablets"
      BY <1>3, <2>2 DEF ClassifyForMigration, runVars
    <3>2. args' \ todo' \subseteq InFlight'
      BY <2>0, <3>1 DEF IInv, InFlight, TypeOK, ClusterTypeOK, KsStates
    <3>3. pc = "classify"
      BY <1>3 DEF ClassifyForMigration
    <3>4. UNCHANGED <<faults, plain>>
      BY <1>3 DEF ClassifyForMigration, Still
    <3>5. TypeOK'
      BY <2>0, <3>1, <3>4 DEF IInv, TypeOK, Labels
    <3>6. LoopInv' /\ FlightInv' /\ PassedInv'
      BY <3>1, <3>2, <3>3 DEF IInv, LoopInv, FlightInv, PassedInv, Early, BeforeLoop, PerPod,
                              LoopLabels, AfterLoop
    <3> QED BY <3>5, <3>6 DEF IInv
  <2> QED BY <2>1, <2>2
<1>4. CASE ClassifyForRollback
  BY <1>4, OrDieIInv DEF ClassifyForRollback, Early, Labels, ControlAnswers, ApiUp
<1>5. CASE Confirm
  <2>1. /\ pc = "confirm"
        /\ pc' = IF todo # {} THEN "prepare" ELSE "next_pod"
        /\ UNCHANGED <<mode, args, force, first_pod, pod, todo, faults, plain>>
    BY <1>5 DEF Confirm, Goto, runVars, Still
  <2>2. ClusterTypeOK' /\ InFlight' = InFlight
    BY <1>5, StillFacts DEF Confirm, Still, IInv
  <2>3. TypeOK'
    BY <2>1, <2>2 DEF IInv, TypeOK, Labels
  <2>4. pod' = 1 /\ args' # {} /\ args' \ todo' \subseteq InFlight'
    BY <2>1, <2>2 DEF IInv, LoopInv, FlightInv, BeforeLoop, Early
  <2>5. LoopInv' /\ FlightInv' /\ PassedInv'
    BY <2>1, <2>4 DEF LoopInv, FlightInv, PassedInv, Early, BeforeLoop, PerPod, LoopLabels,
                      AfterLoop, Nodes
  <2> QED BY <2>3, <2>5 DEF IInv
<1>6. CASE CheckPrepared
  BY <1>6, OrDieIInv DEF CheckPrepared, Early, Labels, ControlAnswers, ApiUp
<1>7. ASSUME NEW ks \in Keyspaces, Prepare(ks) PROVE IInv'
  <2>0. UNCHANGED <<podVars, disruptions, faults, plain>> /\ pc = "prepare" /\ ks \in todo
    BY <1>7 DEF Prepare
  <2>1. CASE Exit /\ UNCHANGED modeVars
    <3>1. ClusterTypeOK' /\ faults' \in 0 .. MaxFaults /\ plain' \in BOOLEAN
      BY <2>0, <2>1 DEF IInv, TypeOK, ClusterTypeOK, podVars, modeVars
    <3> QED BY <2>1, <3>1, ExitIInv
  <2>2. CASE /\ StartMigration(ks) /\ pc' = "prepared" /\ todo' = todo \ {ks}
             /\ UNCHANGED <<runVars, first_pod, pod>>
    <3>1. ClusterTypeOK'
      BY <2>0, <2>2 DEF StartMigration, IInv, TypeOK, ClusterTypeOK, podVars, KsStates
    <3>2. InFlight' = InFlight \cup {ks}
      BY <1>7, <2>2 DEF StartMigration, InFlight, IInv, TypeOK, ClusterTypeOK
    <3>3. TypeOK'
      BY <2>0, <2>2, <3>1 DEF IInv, TypeOK, Labels, runVars
    <3>4. LoopInv' /\ PassedInv'
      BY <2>0, <2>2 DEF IInv, LoopInv, PassedInv, Early, BeforeLoop, PerPod, LoopLabels,
                        AfterLoop, runVars
    <3>5. FlightInv'
      BY <2>0, <2>2, <3>2 DEF IInv, FlightInv, PerPod, LoopLabels, runVars
    <3> QED BY <3>3, <3>4, <3>5 DEF IInv
  <2> QED BY <1>7, <2>1, <2>2 DEF Prepare
<1> QED BY <1>1, <1>2, <1>3, <1>4, <1>5, <1>6, <1>7 DEF Preflight

\* One label after another within the loop, at the same pod.
LEMMA AlongIInv ==
  ASSUME IInv, ClusterTypeOK', InFlight' = InFlight, plain' = plain, faults' \in 0 .. MaxFaults,
         NEW l \in PerPod, pc \in LoopLabels, pod <= N, Goto(l),
         \A n \in Nodes : Settles(n, Wanted) => Settles(n, Wanted)'
  PROVE  IInv'
<1>1. pc' = l /\ UNCHANGED <<mode, args, force, first_pod, pod, todo>>
  BY DEF Goto, runVars
<1>2. TypeOK'
  BY <1>1 DEF IInv, TypeOK, Labels, PerPod
<1>3. LoopInv' /\ FlightInv'
  BY <1>1 DEF IInv, LoopInv, FlightInv, Early, BeforeLoop, PerPod, LoopLabels, AfterLoop
<1>4. PassedInv'
  BY <1>1 DEF IInv, PassedInv, Settles, Wanted, PerPod, LoopLabels
<1> QED BY <1>2, <1>3, <1>4 DEF IInv

\* A pod that reports the wanted mode for all keyspaces of the run is passed.
LEMMA PassIInv ==
  ASSUME IInv, Still, UNCHANGED faults, pc \in LoopLabels, pod <= N,
         UsesForAll(pod, Wanted), pc' = "next_pod", pod' = pod + 1,
         UNCHANGED <<runVars, first_pod, todo>>
  PROVE  IInv'
<1>0. ClusterTypeOK' /\ InFlight' = InFlight /\ \A n, m : Settles(n, m)' <=> Settles(n, m)
  BY StillFacts DEF Still, IInv
<1>1. pod \in Nodes /\ Wanted \in Modes /\ Wanted' = Wanted /\ N \in Nat /\ args # {}
  BY NAssumption DEF IInv, TypeOK, Nodes, Wanted, Modes, runVars, LoopInv, LoopLabels, PerPod
<1>2. Settles(pod, Wanted)
  BY <1>1, UsesSettles
<1>3. TypeOK'
  BY <1>0, <1>1 DEF IInv, TypeOK, Labels, runVars, Still, Nodes
<1>4. LoopInv' /\ FlightInv'
  BY <1>0, <1>1 DEF IInv, LoopInv, FlightInv, Early, BeforeLoop, PerPod, LoopLabels, AfterLoop, runVars
<1>5. PassedInv'
  <2>1. \A n \in Nodes : n < pod => Settles(n, Wanted)
    BY DEF IInv, PassedInv
  <2>2. \A n \in Nodes : n < pod' => Settles(n, Wanted)
    BY <1>1, <1>2, <2>1 DEF Nodes
  <2> QED BY <1>0, <1>1, <2>2 DEF PassedInv
<1> QED BY <1>3, <1>4, <1>5 DEF IInv

LEMMA RestartIInv ==
  ASSUME IInv, Restart
  PROVE  IInv'
<1>0. (faults' = faults) \/ Fault => faults' \in 0 .. MaxFaults
  BY FaultsAssumption DEF Fault, IInv, TypeOK
<1>1. CASE SkipDone
  BY <1>1, PassIInv DEF SkipDone, LoopLabels, Wanted, PodsLeft
<1>2. CASE Upgrade
  <2>1. CASE Exit /\ UNCHANGED modeVars
    <3>1. ClusterTypeOK' /\ plain' \in BOOLEAN
      BY <1>2, <2>1 DEF Upgrade, IInv, TypeOK, ClusterTypeOK, podVars, modeVars
    <3>2. faults' \in 0 .. MaxFaults
      BY <1>2, FaultsAssumption DEF Upgrade, Fault, IInv, TypeOK
    <3> QED BY <2>1, <3>1, <3>2, ExitIInv
  <2>2. CASE SetIntended(addr[pod], "tablets") /\ Goto("drain")
    <3>1. ClusterTypeOK' /\ InFlight' = InFlight /\ plain' = plain
      BY <1>2, <2>2 DEF Upgrade, SetIntended, IInv, TypeOK, ClusterTypeOK, podVars, Modes, InFlight
    <3>2. faults' \in 0 .. MaxFaults
      BY <1>2, FaultsAssumption DEF Upgrade, Fault, IInv, TypeOK
    <3>3. \A n \in Nodes : Settles(n, Wanted) => Settles(n, Wanted)'
      BY <1>2, <2>2 DEF Upgrade, SetIntended, Settles, Wanted, Goto, runVars
    <3> QED BY <1>2, <2>2, <3>1, <3>2, <3>3, AlongIInv DEF Upgrade, PodsLeft, PerPod, LoopLabels
  <2> QED BY <1>2, <2>1, <2>2 DEF Upgrade
<1>3. CASE Downgrade
  <2>1. CASE Exit /\ UNCHANGED modeVars
    <3>1. ClusterTypeOK' /\ plain' \in BOOLEAN /\ faults' \in 0 .. MaxFaults
      BY <1>3, <2>1 DEF Downgrade, IInv, TypeOK, ClusterTypeOK, podVars, modeVars
    <3> QED BY <2>1, <3>1, ExitIInv
  <2>2. CASE SetIntended(addr[pod], "vnodes") /\ Goto("needs_restart")
    <3>1. ClusterTypeOK' /\ InFlight' = InFlight /\ plain' = plain /\ faults' \in 0 .. MaxFaults
      BY <1>3, <2>2 DEF Downgrade, SetIntended, IInv, TypeOK, ClusterTypeOK, podVars, Modes, InFlight
    <3>2. \A n \in Nodes : Settles(n, Wanted) => Settles(n, Wanted)'
      BY <1>3, <2>2 DEF Downgrade, SetIntended, Settles, Wanted, Goto, runVars
    <3> QED BY <1>3, <2>2, <3>1, <3>2, AlongIInv DEF Downgrade, PodsLeft, PerPod, LoopLabels
  <2> QED BY <1>3, <2>1, <2>2 DEF Downgrade
<1>4. CASE NeedsRestart
  <2>1. /\ ClusterTypeOK' /\ InFlight' = InFlight /\ plain' = plain
        /\ \A n \in Nodes : Settles(n, Wanted) => Settles(n, Wanted)'
    <3>1. UNCHANGED <<clusterVars, plain>> /\ UNCHANGED mode
      BY <1>4 DEF NeedsRestart, Still, Goto, runVars
    <3> QED BY <3>1, StillFacts DEF IInv, Settles, Wanted, clusterVars
  <2>2. pod <= N /\ pc \in LoopLabels /\ faults' \in 0 .. MaxFaults
    BY <1>0, <1>4 DEF NeedsRestart, IInv, LoopInv, PerPod, LoopLabels, TypeOK
  <2>3. Goto("drain") \/ Goto("wait_state")
    BY <1>4 DEF NeedsRestart
  <2> QED BY <2>1, <2>2, <2>3, AlongIInv DEF PerPod
<1>5. CASE DrainPod
  <2>1. ClusterTypeOK' /\ InFlight' = InFlight /\ plain' = plain
    BY <1>5 DEF DrainPod, Drain, IInv, TypeOK, ClusterTypeOK, modeVars, podVars, Lives, InFlight
  <2>2. \A n \in Nodes : Settles(n, Wanted) => Settles(n, Wanted)'
    BY <1>5 DEF DrainPod, modeVars, Settles, Wanted, Goto, runVars
  <2>3. pod <= N /\ pc \in LoopLabels /\ faults' \in 0 .. MaxFaults
    BY <1>0, <1>5 DEF DrainPod, IInv, LoopInv, PerPod, LoopLabels, TypeOK
  <2>4. Goto("delete")
    BY <1>5 DEF DrainPod
  <2> QED BY <2>1, <2>2, <2>3, <2>4, AlongIInv DEF PerPod
<1>6. CASE DeletePodAsked
  <2>1. ClusterTypeOK' /\ InFlight' = InFlight /\ plain' = plain
    BY <1>6 DEF DeletePodAsked, DeletePod, IInv, TypeOK, ClusterTypeOK, modeVars, Lives, InFlight
  <2>2. \A n \in Nodes : Settles(n, Wanted) => Settles(n, Wanted)'
    BY <1>6 DEF DeletePodAsked, modeVars, Settles, Wanted, Goto, runVars
  <2>3. pod <= N /\ pc \in LoopLabels /\ faults' \in 0 .. MaxFaults
    BY <1>0, <1>6 DEF DeletePodAsked, IInv, LoopInv, PerPod, LoopLabels, TypeOK
  <2>4. Goto("wait_gone")
    BY <1>6 DEF DeletePodAsked
  <2> QED BY <2>1, <2>2, <2>3, <2>4, AlongIInv DEF PerPod
<1>7. CASE PodRecreated \/ PodReady
  <2>1. UNCHANGED <<clusterVars, plain, faults>> /\ UNCHANGED mode /\ pc \in {"wait_gone", "wait_ready"}
    BY <1>7 DEF PodRecreated, PodReady, Still, Goto, runVars
  <2>2. /\ ClusterTypeOK' /\ InFlight' = InFlight
        /\ \A n \in Nodes : Settles(n, Wanted) => Settles(n, Wanted)'
    BY <2>1, StillFacts DEF IInv, Settles, Wanted, clusterVars
  <2>3. pod <= N /\ pc \in LoopLabels /\ faults' \in 0 .. MaxFaults
    BY <2>1 DEF IInv, LoopInv, PerPod, LoopLabels, TypeOK
  <2>4. Goto("wait_ready") \/ Goto("wait_state")
    BY <1>7 DEF PodRecreated, PodReady
  <2> QED BY <2>1, <2>2, <2>3, <2>4, AlongIInv DEF PerPod
<1>8. CASE NodeConverted
  <2>1. pod <= N /\ pc \in LoopLabels
    BY <1>8 DEF NodeConverted, IInv, LoopInv, PerPod, LoopLabels
  <2> QED BY <1>8, <2>1, PassIInv DEF NodeConverted
<1> QED BY <1>1, <1>2, <1>3, <1>4, <1>5, <1>6, <1>7, <1>8 DEF Restart

LEMMA FinalizationIInv ==
  ASSUME IInv, Finalization
  PROVE  IInv'
<1> USE NAssumption
<1>1. CASE LoopDone \/ ConfirmFinal \/ CheckFinalized
  <2>0. /\ ClusterTypeOK' /\ InFlight' = InFlight /\ UNCHANGED <<plain, faults>>
        /\ \A n, m : Settles(n, m)' <=> Settles(n, m)
    BY <1>1, StillFacts DEF LoopDone, ConfirmFinal, CheckFinalized, Still, IInv
  <2>1. CASE Exit
    BY <2>0, <2>1, ExitIInv DEF IInv, TypeOK
  <2>2. CASE ~Exit
    <3>1. UNCHANGED <<mode, args, force, first_pod, pod>>
      BY <1>1, <2>2 DEF LoopDone, ConfirmFinal, CheckFinalized, Goto, runVars
    <3>2. \/ pc = "next_pod" /\ pod = N + 1 /\ pc' = "confirm_final" /\ todo' = todo
          \/ pc = "next_pod" /\ pod = N + 1 /\ pc' = "finalize" /\ todo' = args
          \/ pc = "confirm_final" /\ pc' = "finalize" /\ todo' = args
          \/ pc = "finalized" /\ todo # {} /\ pc' = "finalize" /\ todo' = todo
      BY <1>1, <2>2 DEF LoopDone, ConfirmFinal, CheckFinalized, Goto, PodsLeft, IInv, TypeOK
    <3>3. TypeOK'
      BY <2>0, <3>1, <3>2 DEF IInv, TypeOK, Labels
    <3>4. LoopInv' /\ FlightInv'
      BY <2>0, <3>1, <3>2 DEF IInv, LoopInv, FlightInv, Early, BeforeLoop, PerPod, LoopLabels, AfterLoop
    <3>5. PassedInv'
      BY <2>0, <3>1, <3>2 DEF IInv, PassedInv, Wanted, LoopLabels, PerPod
    <3> QED BY <3>3, <3>4, <3>5 DEF IInv
  <2> QED BY <2>1, <2>2
<1>2. ASSUME NEW ks \in Keyspaces, Finalize(ks) PROVE IInv'
  <2>0. UNCHANGED <<podVars, disruptions, faults, plain>> /\ pc = "finalize" /\ ks \in todo
    BY <1>2 DEF Finalize
  <2>1. CASE Exit /\ UNCHANGED modeVars
    <3>1. ClusterTypeOK'
      BY <2>0, <2>1 DEF IInv, TypeOK, ClusterTypeOK, podVars, modeVars
    <3> QED BY <2>0, <2>1, <3>1, ExitIInv DEF IInv, TypeOK
  <2>2. CASE FinalizeMigration(ks)
    <3>1. ClusterTypeOK'
      BY <2>0, <2>2
        DEF FinalizeMigration, FinalMode, IInv, TypeOK, ClusterTypeOK, podVars, KsStates, Modes
    <3>2. CASE Exit
      BY <2>0, <3>1, <3>2, ExitIInv DEF IInv, TypeOK
    <3>3. CASE ~Exit
      <4>1. /\ pc' = "finalized" /\ todo' = todo \ {ks}
            /\ UNCHANGED <<mode, args, force, first_pod, pod>>
        BY <1>2, <2>2, <3>3 DEF Finalize, FinalizeMigration, modeVars, runVars
      <4>2. InFlight' = InFlight \ {ks}
        BY <1>2, <2>2 DEF FinalizeMigration, FinalMode, InFlight, IInv, TypeOK, ClusterTypeOK
      <4>3. todo' \subseteq InFlight'
        BY <2>0, <4>1, <4>2 DEF IInv, FlightInv
      <4>4. todo' # {} => UNCHANGED <<current, intended>>
        BY <2>2, <4>1, <4>2, <4>3 DEF FinalizeMigration
      <4>5. TypeOK'
        BY <2>0, <3>1, <4>1 DEF IInv, TypeOK, Labels
      <4>6. LoopInv' /\ FlightInv'
        BY <2>0, <4>1, <4>3 DEF IInv, LoopInv, FlightInv, Early, BeforeLoop, PerPod, LoopLabels, AfterLoop
      <4>7. PassedInv'
        BY <2>0, <4>1, <4>4 DEF IInv, PassedInv, Settles, Wanted, LoopLabels, PerPod
      <4> QED BY <4>5, <4>6, <4>7 DEF IInv
    <3> QED BY <3>2, <3>3
  <2> QED BY <1>2, <2>1, <2>2 DEF Finalize
<1> QED BY <1>1, <1>2 DEF Finalization

-----------------------------------------------------------------------------
(* The world around the script *)

World ==
  \/ TimeOut \/ Interrupt
  \/ \E n \in Nodes : OperatorRestart(n) \/ ClusterStep(n)

LEMMA WorldIInv ==
  ASSUME IInv, World
  PROVE  IInv'
<1>1. CASE TimeOut \/ Interrupt
  <2>1. Exit /\ Still
    BY <1>1 DEF TimeOut, Interrupt
  <2>2. faults' \in 0 .. MaxFaults
    BY <1>1, FaultsAssumption DEF TimeOut, Interrupt, Fault, IInv, TypeOK
  <2> QED BY <2>1, <2>2, StillFacts, ExitIInv DEF Still, IInv, TypeOK
<1>2. ASSUME NEW n \in Nodes, OperatorRestart(n) PROVE IInv'
  <2>1. ClusterTypeOK' /\ UNCHANGED modeVars
    BY <1>2 DEF OperatorRestart, DeletePod, IInv, TypeOK, ClusterTypeOK, modeVars, Lives
  <2> QED BY <1>2, <2>1, ClusterIInv DEF OperatorRestart, modeVars, IInv, TypeOK
<1>3. ASSUME NEW n \in Nodes, ClusterStep(n) PROVE IInv'
  <2> USE <1>3, DisruptionsAssumption DEF ClusterStep, NodeStep, IInv, TypeOK, ClusterTypeOK, modeVars, Lives
  <2>1. CASE PodReplaced(n)
    <3>1. addr' \in [Nodes -> Addresses]
      BY <2>1, FreeAddresses DEF PodReplaced
    <3> QED BY <2>1, <3>1, ClusterIInv DEF PodReplaced
  <2>2. CASE Boot(n)
    <3>1. \A m \in Nodes : current'[m] \in {current[m], intended[m]}
      BY <2>2 DEF Boot
    <3>2. current' \in [Nodes -> Modes]
      BY <2>2 DEF Boot
    <3> QED BY <2>2, <3>1, <3>2, ClusterIInv DEF Boot
  <2>3. CASE Serve(n)
    BY <2>3, ClusterIInv DEF Serve
  <2>4. CASE Disrupt(n)
    <3>1. addr' \in [Nodes -> Addresses]
      BY <2>4, FreeAddresses DEF Disrupt
    <3> QED BY <2>4, <3>1, ClusterIInv DEF Disrupt
  <2> QED BY <2>1, <2>2, <2>3, <2>4
<1> QED BY <1>1, <1>2, <1>3 DEF World

LEMMA InitIInv == Init => IInv
<1> SUFFICES ASSUME Init PROVE IInv
  OBVIOUS
<1> USE NAssumption, DisruptionsAssumption, FaultsAssumption DEF Init, NothingMigrated, AllServing
<1>1. TypeOK
  <2>1. ClusterTypeOK
    BY DEF ClusterTypeOK, KsStates, Modes, Lives
  <2>2. pc \in Labels /\ pod \in 1 .. N + 1 /\ first_pod \in Nodes /\ faults \in 0 .. MaxFaults
    BY DEF Labels, Nodes
  <2> QED BY <2>1, <2>2 DEF TypeOK
<1>2. LoopInv /\ FlightInv /\ PassedInv
  BY DEF LoopInv, FlightInv, PassedInv, Early, BeforeLoop, PerPod, AfterLoop, LoopLabels
<1> QED BY <1>1, <1>2 DEF IInv

Launches ==
  \E m \in {"migrate", "rollback"}, ks \in (SUBSET Keyspaces) \ {{}}, f \in BOOLEAN :
    Launch(m, ks, f)

LEMMA StepIInv == IInv /\ [Next]_vars => IInv'
<1> SUFFICES ASSUME IInv, [Next]_vars PROVE IInv'
  OBVIOUS
<1>1. CASE Launches
  BY <1>1, LaunchIInv DEF Launches
<1>2. CASE ScriptStep
  BY <1>2, PreflightIInv, RestartIInv, FinalizationIInv
    DEF ScriptStep, Preflight, Restart, Finalization
<1>3. CASE World
  BY <1>3, WorldIInv
<1>4. CASE UNCHANGED vars
  BY <1>4, ClusterIInv DEF vars, clusterVars, IInv, TypeOK, ClusterTypeOK
<1> QED BY <1>1, <1>2, <1>3, <1>4 DEF Next, World, Launches

LEMMA InvariantHolds == Spec => []IInv
  BY InitIInv, StepIInv, PTL DEF Spec

-----------------------------------------------------------------------------
(* Theorems *)

\* Type correctness of the kubectl script and of the cluster it works on.
THEOREM KubectlTypeCorrect == Spec => []TypeOK
<1>1. IInv => TypeOK
  BY DEF IInv
<1> QED BY <1>1, InvariantHolds, PTL

\* Neither a migration nor a rollback of convert_to_tablets_kubectl.bash is finalized
\* before every node has settled: its loop has seen each pod do so, and nothing that
\* happens beside it or was interrupted earlier takes that back.
THEOREM KubectlFinalizesSafely == Spec => []FinalizeOnlySettled
<1>1. IInv => FinalizeOnlySettled
  <2> SUFFICES ASSUME IInv, pc = "finalize", NEW n \in Nodes PROVE Settles(n, Wanted)
    BY DEF FinalizeOnlySettled, Settles
  <2>1. pod = N + 1 /\ n < N + 1
    BY NAssumption DEF IInv, LoopInv, AfterLoop, Nodes
  <2> QED BY <2>1 DEF IInv, PassedInv
<1> QED BY <1>1, InvariantHolds, PTL

-----------------------------------------------------------------------------
(* One node at a time *)

AllUp == \A n \in Nodes : life[n] = "up"
OneOut == \A m, n \in Nodes : life[m] # "up" /\ life[n] # "up" => m = n

\* No two pods share an address.
AddrInv == \A m, n \in Nodes : addr[m] = addr[n] => m = n

\* From the check of the cluster to the drain everything serves, from there to the pod's
\* readiness everything but this pod, and a run that ends leaves one node out at most.
ServingInv ==
  /\ OneOut
  /\ pc \in (LoopLabels \cup AfterLoop \cup BeforeLoop)
          \ {"idle", "host_ids", "cluster_up", "delete", "wait_gone", "wait_ready"} => AllUp
  /\ pc \in {"delete", "wait_gone", "wait_ready"} => \A n \in Nodes : life[n] # "up" => n = pod

\* What migrations by themselves keep, as long as nothing restarts unasked.
Marked == \A n \in Nodes : current[n] = "tablets" => intended[n] = "tablets"
RollInv == mode = "migrate" /\ force = FALSE /\ pc # "needs_restart" /\ Marked /\ ServingInv
PlainInv == plain /\ disruptions = 0 => RollInv

Rolls == [Rolling!Next]_(Rolling!vars)

\* A step that takes no node out of service, brings none back and converts none.
LEMMA Stutters ==
  ASSUME UNCHANGED <<ksState, current>>, \A n \in Nodes : life'[n] = "up" <=> life[n] = "up"
  PROVE  Rolls
  BY DEF Rolls, Rolling!vars

\* Everything serves, and one node stops doing so.
LEMMA Leaves ==
  ASSUME NEW n \in Nodes, UNCHANGED <<ksState, current>>, AllUp, life'[n] # "up",
         \A m \in Nodes \ {n} : life'[m] = "up"
  PROVE  Rolls
<1>1. {m \in Nodes : life[m] # "up"} = {} /\ {m \in Nodes : life'[m] # "up"} = {n}
  BY DEF AllUp
<1>2. Rolling!Leave(n)
  BY <1>1 DEF Rolling!Leave
<1> QED BY <1>2 DEF Rolls, Rolling!Next

\* The labels at which everything serves.
Serving == {"classify", "confirm", "prepare", "prepared", "next_pod", "drain", "wait_state",
            "confirm_final", "finalize", "finalized"}
LEMMA ServingLabels ==
  ASSUME RollInv, pc \in Serving
  PROVE  AllUp
  BY DEF RollInv, ServingInv, Serving, LoopLabels, PerPod, AfterLoop, BeforeLoop, Early

\* Everything serving is a good state to be at any label.
LEMMA ServingKeeps ==
  ASSUME AllUp', mode' = "migrate", force' = FALSE, pc' # "needs_restart", Marked'
  PROVE  RollInv'
  BY DEF RollInv, ServingInv, OneOut, AllUp

\* The end of a run, whatever it leaves.
LEMMA ExitRolls ==
  ASSUME RollInv, Exit, UNCHANGED clusterVars
  PROVE  RollInv' /\ Rolls
<1>1. Rolls
  BY Stutters DEF clusterVars
<1>2. RollInv'
  BY DEF RollInv, Marked, Exit, clusterVars, ServingInv, OneOut, AllUp, LoopLabels, PerPod,
         AfterLoop, BeforeLoop, Early
<1> QED BY <1>1, <1>2

\* A step of a run while everything serves, which leaves the cluster alone.
LEMMA QuietRolls ==
  ASSUME RollInv, UNCHANGED clusterVars, Exit \/ (AllUp /\ UNCHANGED runVars /\ pc' # "needs_restart")
  PROVE  RollInv' /\ Rolls
<1>1. CASE Exit
  BY <1>1, ExitRolls
<1>2. CASE AllUp /\ UNCHANGED runVars /\ pc' # "needs_restart"
  <2>1. Rolls
    BY Stutters DEF clusterVars
  <2>2. AllUp' /\ Marked' /\ mode' = "migrate" /\ force' = FALSE
    BY <1>2 DEF clusterVars, AllUp, RollInv, Marked, runVars
  <2> QED BY <1>2, <2>1, <2>2, ServingKeeps
<1> QED BY <1>1, <1>2

LEMMA PreflightRolls ==
  ASSUME IInv, RollInv, Preflight
  PROVE  RollInv' /\ Rolls
<1>1. CASE ReadHostIds
  <2>1. CASE Exit
    BY <1>1, <2>1, ExitRolls DEF ReadHostIds, Still
  <2>2. CASE Goto(IF mode = "migrate" THEN "cluster_up" ELSE "classify")
    <3>1. Rolls
      BY <1>1, Stutters DEF ReadHostIds, Still, clusterVars
    <3>2. pc' = "cluster_up"
      BY <2>2 DEF Goto, RollInv
    <3>3. RollInv'
      BY <1>1, <2>2, <3>2
        DEF ReadHostIds, Still, clusterVars, Goto, runVars, RollInv, Marked, ServingInv, OneOut,
            AllUp, LoopLabels, PerPod, AfterLoop, BeforeLoop, Early
    <3> QED BY <3>1, <3>3
  <2> QED BY <1>1, <2>1, <2>2 DEF ReadHostIds, OrDie
<1>2. CASE CheckClusterUp
  <2>1. Exit \/ (AllUp /\ UNCHANGED runVars /\ pc' # "needs_restart")
    BY <1>2 DEF CheckClusterUp, OrDie, Goto, RollInv, AllUp
  <2> QED BY <1>2, <2>1, QuietRolls DEF CheckClusterUp, Still
<1>3. CASE ClassifyForMigration \/ ClassifyForRollback \/ Confirm \/ CheckPrepared
  <2>1. AllUp
    BY <1>3, ServingLabels
      DEF ClassifyForMigration, ClassifyForRollback, Confirm, CheckPrepared, Serving
  <2>2. Exit \/ (UNCHANGED runVars /\ pc' # "needs_restart")
    BY <1>3 DEF ClassifyForMigration, ClassifyForRollback, Confirm, CheckPrepared, OrDie, Goto
  <2>3. UNCHANGED clusterVars
    BY <1>3 DEF ClassifyForMigration, ClassifyForRollback, Confirm, CheckPrepared, Still
  <2> QED BY <2>1, <2>2, <2>3, QuietRolls
<1>4. ASSUME NEW ks \in Keyspaces, Prepare(ks) PROVE RollInv' /\ Rolls
  <2>1. AllUp
    BY <1>4, ServingLabels DEF Prepare, Serving
  <2>2. CASE Exit /\ UNCHANGED modeVars
    BY <1>4, <2>2, ExitRolls DEF Prepare, clusterVars, podVars, modeVars
  <2>3. CASE MayStart(ks) /\ StartMigration(ks) /\ pc' = "prepared" /\ UNCHANGED runVars
    <3>1. UNCHANGED <<current, intended, life>>
      BY <1>4, <2>3 DEF StartMigration, Prepare, podVars
    <3>2. RollInv'
      BY <2>1, <2>3, <3>1, ServingKeeps DEF AllUp, RollInv, Marked, runVars
    <3>3. \A n \in Nodes : current[n] = "vnodes"
      BY <2>3 DEF MayStart, RollInv, Marked, IInv, TypeOK, ClusterTypeOK, Modes
    <3>4. Rolling!Begin(ks)
      BY <2>3, <3>1, <3>3 DEF Rolling!Begin, MayStart, StartMigration
    <3> QED BY <3>2, <3>4 DEF Rolls, Rolling!Next
  <2> QED BY <1>4, <2>2, <2>3 DEF Prepare
<1> QED BY <1>1, <1>2, <1>3, <1>4 DEF Preflight

\* From drain to readiness: only the pod of the loop is out of service.
LEMMA OnlyPodOut ==
  ASSUME RollInv, pc \in {"delete", "wait_gone", "wait_ready"}
  PROVE  \A n \in Nodes : life[n] # "up" => n = pod
  BY DEF RollInv, ServingInv

LEMMA PodIsNode ==
  ASSUME IInv, pc \in PerPod
  PROVE  pod \in Nodes
  BY DEF IInv, TypeOK, LoopInv, Nodes

LEMMA RestartRolls ==
  ASSUME IInv, AddrInv, RollInv, Restart
  PROVE  RollInv' /\ Rolls
<1>1. CASE SkipDone \/ NodeConverted
  <2>1. AllUp
    BY <1>1, ServingLabels DEF SkipDone, NodeConverted, Serving
  <2> QED BY <1>1, <2>1, QuietRolls DEF SkipDone, NodeConverted, Still
<1>2. CASE Upgrade
  <2>1. AllUp
    BY <1>2, ServingLabels DEF Upgrade, Serving
  <2>2. CASE Exit /\ UNCHANGED modeVars
    BY <1>2, <2>2, ExitRolls DEF Upgrade, clusterVars, podVars, modeVars
  <2>3. CASE SetIntended(addr[pod], "tablets") /\ Goto("drain")
    <3>1. UNCHANGED <<ksState, current, life>>
      BY <1>2, <2>3 DEF SetIntended, Upgrade, podVars
    <3>2. Marked'
      BY <2>3, <3>1 DEF SetIntended, RollInv, Marked
    <3>3. RollInv'
      BY <2>1, <2>3, <3>1, <3>2, ServingKeeps DEF AllUp, RollInv, Goto, runVars
    <3> QED BY <3>1, <3>3, Stutters
  <2> QED BY <1>2, <2>2, <2>3 DEF Upgrade
<1>3. CASE Downgrade \/ NeedsRestart
  BY <1>3 DEF Downgrade, NeedsRestart, RollInv
<1>4. CASE DrainPod
  <2>1. AllUp /\ pod \in Nodes /\ Goto("delete") /\ UNCHANGED modeVars
    BY <1>4, ServingLabels, PodIsNode DEF DrainPod, Serving, PerPod
  <2>2. CASE Drain(addr[pod])
    <3>1. life' = [life EXCEPT ![pod] = "drained"]
      BY <2>1, <2>2 DEF Drain, AnswersAt, ApiUp, AllUp, AddrInv, IInv, TypeOK, ClusterTypeOK
    <3>2. life'[pod] # "up" /\ \A m \in Nodes \ {pod} : life'[m] = "up"
      BY <2>1, <3>1 DEF AllUp, IInv, TypeOK, ClusterTypeOK
    <3>3. Rolls
      BY <2>1, <3>2, Leaves DEF modeVars
    <3>4. RollInv'
      BY <2>1, <3>2 DEF Goto, runVars, modeVars, RollInv, Marked, ServingInv, OneOut
    <3> QED BY <3>3, <3>4
  <2>3. CASE UNCHANGED podVars
    BY <2>1, <2>3, Stutters, ServingKeeps DEF podVars, modeVars, AllUp, RollInv, Marked, Goto, runVars
  <2> QED BY <1>4, <2>2, <2>3 DEF DrainPod
<1>5. CASE DeletePodAsked
  <2>1. /\ pod \in Nodes /\ Goto("wait_gone") /\ UNCHANGED modeVars /\ DeletePod(pod)
        /\ \A n \in Nodes : life[n] # "up" => n = pod
    BY <1>5, OnlyPodOut, PodIsNode DEF DeletePodAsked, PerPod
  <2>2. life'[pod] # "up" /\ \A m \in Nodes \ {pod} : life'[m] = life[m]
    BY <2>1 DEF DeletePod, IInv, TypeOK, ClusterTypeOK
  <2>3. \A m \in Nodes \ {pod} : life'[m] = "up"
    BY <2>1, <2>2
  <2>4. RollInv'
    BY <2>1, <2>2, <2>3 DEF Goto, runVars, modeVars, RollInv, Marked, ServingInv, OneOut
  <2>5. CASE life[pod] = "up"
    <3>1. AllUp
      BY <2>1, <2>5 DEF AllUp
    <3> QED BY <2>1, <2>2, <2>3, <2>4, <3>1, Leaves DEF modeVars
  <2>6. CASE life[pod] # "up"
    BY <2>1, <2>2, <2>3, <2>4, <2>6, Stutters DEF modeVars
  <2> QED BY <2>5, <2>6
<1>6. CASE PodRecreated
  <2>1. Goto("wait_ready") /\ UNCHANGED clusterVars /\ \A n \in Nodes : life[n] # "up" => n = pod
    BY <1>6, OnlyPodOut DEF PodRecreated, Still
  <2>2. RollInv'
    BY <2>1 DEF Goto, runVars, clusterVars, RollInv, Marked, ServingInv, OneOut
  <2> QED BY <2>1, <2>2, Stutters DEF clusterVars
<1>7. CASE PodReady
  <2>1. AllUp
    BY <1>7, OnlyPodOut DEF PodReady, AllUp
  <2> QED BY <1>7, <2>1, QuietRolls DEF PodReady, Goto, Still
<1> QED BY <1>1, <1>2, <1>3, <1>4, <1>5, <1>6, <1>7 DEF Restart

LEMMA FinalizationRolls ==
  ASSUME IInv, RollInv, Finalization
  PROVE  RollInv' /\ Rolls
<1>1. CASE LoopDone \/ ConfirmFinal \/ CheckFinalized
  <2>1. AllUp
    BY <1>1, ServingLabels DEF LoopDone, ConfirmFinal, CheckFinalized, Serving
  <2>2. Exit \/ (UNCHANGED runVars /\ pc' # "needs_restart")
    BY <1>1 DEF LoopDone, ConfirmFinal, CheckFinalized, Goto
  <2>3. UNCHANGED clusterVars
    BY <1>1 DEF LoopDone, ConfirmFinal, CheckFinalized, Still
  <2> QED BY <2>1, <2>2, <2>3, QuietRolls
<1>2. ASSUME NEW ks \in Keyspaces, Finalize(ks) PROVE RollInv' /\ Rolls
  <2>1. AllUp /\ UNCHANGED podVars /\ UNCHANGED disruptions
    BY <1>2, ServingLabels DEF Finalize, Serving
  <2>2. CASE Exit /\ UNCHANGED modeVars
    BY <2>1, <2>2, ExitRolls DEF clusterVars, podVars, modeVars
  <2>3. CASE MayFinalize(ks) /\ FinalizeMigration(ks)
    <3>1. \A n \in Nodes : Settles(n, "tablets")
      <4>1. pod = N + 1 /\ \A n \in Nodes : n < N + 1
        BY <1>2, NAssumption DEF Finalize, IInv, LoopInv, AfterLoop, Nodes
      <4> QED BY <1>2, <4>1 DEF Finalize, IInv, PassedInv, RollInv, Wanted
    <3>2. FinalMode = "tablets"
      BY <3>1 DEF Settles, FinalMode, AllIn
    <3>3. UNCHANGED life /\ mode' = "migrate" /\ force' = FALSE /\ pc' # "needs_restart"
      BY <1>2, <2>1, <2>3, <3>2 DEF podVars, Finalize, RollInv, Wanted, Exit, runVars, FinalizeMigration, modeVars
    <3>4. Marked'
      BY <2>3, <3>1 DEF FinalizeMigration, Settles, Marked
    <3>5. RollInv'
      BY <2>1, <3>3, <3>4, ServingKeeps DEF AllUp
    <3>6. (InFlight = {ks}) <=> ~\E other \in Keyspaces \ {ks} : ksState[other] = "migrating_to_tablets"
      BY <1>2, <2>3 DEF MayFinalize, InFlight
    <3>7. current' = IF \E other \in Keyspaces \ {ks} : ksState[other] = "migrating_to_tablets"
                       THEN current ELSE [n \in Nodes |-> "vnodes"]
      BY <2>3, <3>2, <3>6 DEF FinalizeMigration
    <3>8. Rolling!Complete(ks)
      BY <2>3, <3>1, <3>2, <3>3, <3>7
        DEF Rolling!Complete, MayFinalize, InFlight, Settles, FinalizeMigration
    <3> QED BY <3>5, <3>8 DEF Rolls, Rolling!Next
  <2> QED BY <1>2, <2>2, <2>3 DEF Finalize
<1> QED BY <1>1, <1>2 DEF Finalization

LEMMA WorldRolls ==
  ASSUME IInv, RollInv, World, disruptions = 0, disruptions' = 0
  PROVE  RollInv' /\ Rolls
<1> USE DEF IInv, TypeOK, ClusterTypeOK
<1>1. CASE TimeOut \/ Interrupt
  BY <1>1, ExitRolls DEF TimeOut, Interrupt, Still
\* What the cluster does to a node that is out of service already.
<1>2. ASSUME NEW n \in Nodes, life[n] # "up", UNCHANGED scriptVars, UNCHANGED ksState,
             \A m \in Nodes \ {n} : life'[m] = life[m] /\ current'[m] = current[m],
             Marked'
      PROVE  RollInv'
  <2>1. \A m \in Nodes : life'[m] # "up" => m = n
    BY <1>2 DEF RollInv, ServingInv, OneOut
  <2>2. OneOut'
    BY <2>1 DEF OneOut
  <2>3. pc \in {"idle", "host_ids", "cluster_up", "delete", "wait_gone", "wait_ready"}
    BY <1>2 DEF RollInv, ServingInv, AllUp, Labels, LoopLabels, PerPod, AfterLoop, BeforeLoop, Early
  <2>4. pc \in {"delete", "wait_gone", "wait_ready"} => n = pod
    BY <1>2 DEF RollInv, ServingInv
  <2> QED BY <1>2, <2>1, <2>2, <2>3, <2>4
        DEF RollInv, ServingInv, scriptVars, LoopLabels, PerPod, AfterLoop, BeforeLoop, Early
<1>3. ASSUME NEW n \in Nodes, OperatorRestart(n) PROVE RollInv' /\ Rolls
  <2>1. life[n] # "up" /\ life'[n] # "up" /\ \A m \in Nodes \ {n} : life'[m] = life[m]
    BY <1>3 DEF OperatorRestart, DeletePod
  <2>2. UNCHANGED modeVars /\ UNCHANGED scriptVars
    BY <1>3 DEF OperatorRestart
  <2>3. Marked'
    BY <2>2 DEF RollInv, Marked, modeVars
  <2> QED BY <1>2, <2>1, <2>2, <2>3, Stutters DEF modeVars
<1>4. ASSUME NEW n \in Nodes, ClusterStep(n) PROVE RollInv' /\ Rolls
  <2>0. UNCHANGED scriptVars
    BY <1>4 DEF ClusterStep
  <2>1. CASE PodReplaced(n)
    <3>1. life[n] # "up" /\ life'[n] # "up" /\ \A m \in Nodes \ {n} : life'[m] = life[m]
      BY <2>1 DEF PodReplaced
    <3>2. Marked'
      BY <2>1 DEF PodReplaced, RollInv, Marked, modeVars
    <3> QED BY <1>2, <2>0, <2>1, <3>1, <3>2, Stutters DEF PodReplaced, modeVars
  <2>2. CASE Boot(n)
    <3>1. /\ life[n] # "up" /\ life'[n] # "up" /\ \A m \in Nodes \ {n} : life'[m] = life[m]
          /\ UNCHANGED <<ksState, intended>>
          /\ \A m \in Nodes \ {n} : current'[m] = current[m]
          /\ current'[n] \in {current[n], intended[n]}
      BY <2>2 DEF Boot
    <3>2. RollInv'
      BY <1>2, <2>0, <3>1 DEF RollInv, Marked
    <3>3. CASE current' = current
      BY <3>1, <3>2, <3>3, Stutters
    <3>4. CASE current' # current
      <4>1. current' = [current EXCEPT ![n] = intended[n]] /\ InFlight # {}
        BY <2>2, <3>4 DEF Boot
      <4>2. current[n] = "vnodes" /\ intended[n] = "tablets"
        BY <3>4, <4>1 DEF RollInv, Marked, Modes
      <4>3. /\ {m \in Nodes : life[m] # "up"} = {n}
            /\ {m \in Nodes : life'[m] # "up"} = {n}
        BY <3>1 DEF RollInv, ServingInv, OneOut
      <4>4. Rolling!Convert(n)
        BY <3>1, <4>1, <4>2, <4>3 DEF Rolling!Convert, InFlight
      <4> QED BY <3>2, <4>4 DEF Rolls, Rolling!Next
    <3> QED BY <3>3, <3>4
  <2>3. CASE Serve(n)
    <3>1. /\ life[n] # "up" /\ life'[n] = "up" /\ \A m \in Nodes \ {n} : life'[m] = life[m]
          /\ UNCHANGED modeVars
      BY <2>3 DEF Serve
    <3>2. Marked'
      BY <3>1 DEF RollInv, Marked, modeVars
    <3>3. RollInv'
      BY <1>2, <2>0, <3>1, <3>2 DEF modeVars
    <3>4. {m \in Nodes : life[m] # "up"} = {n} /\ {m \in Nodes : life'[m] # "up"} = {}
      BY <3>1 DEF RollInv, ServingInv, OneOut
    <3>5. Rolling!Return(n)
      BY <3>1, <3>4 DEF Rolling!Return, modeVars
    <3> QED BY <3>3, <3>5 DEF Rolls, Rolling!Next
  <2>4. CASE Disrupt(n)
    BY <2>4 DEF Disrupt
  <2> QED BY <1>4, <2>1, <2>2, <2>3, <2>4 DEF ClusterStep, NodeStep
<1> QED BY <1>1, <1>3, <1>4 DEF World

\* A run that starts.
LEMMA LaunchRolls ==
  ASSUME RollInv, Launches, plain'
  PROVE  RollInv' /\ Rolls
<1>1. /\ pc' = "host_ids" /\ mode' = "migrate" /\ force' = FALSE
      /\ UNCHANGED clusterVars
  BY DEF Launches, Launch
<1>2. Rolls
  BY <1>1, Stutters DEF clusterVars
<1>3. RollInv'
  BY <1>1 DEF clusterVars, RollInv, Marked, ServingInv, OneOut, LoopLabels, PerPod, AfterLoop,
              BeforeLoop, Early
<1> QED BY <1>2, <1>3

\* An address is given to one pod at a time.
LEMMA AddrStep ==
  ASSUME IInv, AddrInv, [Next]_vars
  PROVE  AddrInv'
<1>1. ASSUME NEW n \in Nodes, NEW a \in FreeFor(n), addr' = [addr EXCEPT ![n] = a]
      PROVE  AddrInv'
  BY <1>1 DEF FreeFor, AddrInv, IInv, TypeOK, ClusterTypeOK
<1>2. ASSUME NEW n \in Nodes, ClusterStep(n) PROVE AddrInv'
  <2>1. CASE PodReplaced(n)
    BY <1>1, <2>1 DEF PodReplaced
  <2>2. CASE Disrupt(n)
    BY <1>1, <2>2 DEF Disrupt
  <2>3. CASE UNCHANGED addr
    BY <2>3 DEF AddrInv
  <2> QED BY <1>2, <2>1, <2>2, <2>3 DEF ClusterStep, NodeStep, Boot, Serve
<1>3. CASE UNCHANGED addr
  BY <1>3 DEF AddrInv
<1>4. ASSUME ScriptStep PROVE UNCHANGED addr
  BY <1>4
    DEF ScriptStep, ReadHostIds, CheckClusterUp, ClassifyForMigration, ClassifyForRollback,
        Confirm, Prepare, Finalize, CheckPrepared, SkipDone, Upgrade, Downgrade, NeedsRestart,
        DrainPod, Drain, DeletePodAsked, DeletePod, PodRecreated, PodReady, NodeConverted,
        LoopDone, ConfirmFinal, CheckFinalized, Still, clusterVars, podVars
<1>5. ASSUME Launches \/ TimeOut \/ Interrupt \/ (\E n \in Nodes : OperatorRestart(n)) \/ UNCHANGED vars
      PROVE  UNCHANGED addr
  BY <1>5 DEF Launches, Launch, TimeOut, Interrupt, OperatorRestart, DeletePod, Still, clusterVars, vars
<1> QED BY <1>2, <1>3, <1>4, <1>5 DEF Next, Launches

\* Neither history runs backwards.
LEMMA HistoryStep ==
  ASSUME IInv, [Next]_vars, plain', disruptions' = 0
  PROVE  plain /\ disruptions = 0
<1>1. ASSUME NEW n \in Nodes, ClusterStep(n) PROVE plain /\ disruptions = 0
  BY <1>1 DEF ClusterStep, NodeStep, PodReplaced, Boot, Serve, Disrupt, IInv, TypeOK, ClusterTypeOK
<1>2. ASSUME ScriptStep PROVE UNCHANGED <<plain, disruptions>>
  BY <1>2
    DEF ScriptStep, ReadHostIds, CheckClusterUp, ClassifyForMigration, ClassifyForRollback,
        Confirm, Prepare, Finalize, CheckPrepared, SkipDone, Upgrade, Downgrade, NeedsRestart,
        DrainPod, DeletePodAsked, PodRecreated, PodReady, NodeConverted,
        LoopDone, ConfirmFinal, CheckFinalized, Still, clusterVars
<1>3. CASE Launches
  BY <1>3 DEF Launches, Launch, clusterVars, IInv, TypeOK
<1>4. ASSUME TimeOut \/ Interrupt \/ (\E n \in Nodes : OperatorRestart(n)) \/ UNCHANGED vars
      PROVE  UNCHANGED <<plain, disruptions>>
  BY <1>4 DEF TimeOut, Interrupt, OperatorRestart, Still, clusterVars, vars
<1> QED BY <1>1, <1>2, <1>3, <1>4 DEF Next, Launches

LEMMA RollStep ==
  ASSUME IInv, AddrInv, PlainInv, [Next]_vars
  PROVE  PlainInv' /\ (plain' /\ disruptions' = 0 => Rolls)
<1> SUFFICES ASSUME plain', disruptions' = 0 PROVE RollInv' /\ Rolls
  BY DEF PlainInv
<1>1. RollInv /\ disruptions = 0
  BY HistoryStep DEF PlainInv
<1>2. CASE Launches
  BY <1>1, <1>2, LaunchRolls
<1>3. CASE ScriptStep
  BY <1>1, <1>3, PreflightRolls, RestartRolls, FinalizationRolls
    DEF ScriptStep, Preflight, Restart, Finalization
<1>4. CASE World
  BY <1>1, <1>4, WorldRolls
<1>5. CASE UNCHANGED vars
  <2>1. Rolls
    BY <1>5, Stutters DEF vars, clusterVars
  <2>2. RollInv'
    BY <1>1, <1>5 DEF vars, clusterVars, scriptVars, RollInv, Marked, ServingInv, OneOut, AllUp
  <2> QED BY <2>1, <2>2
<1> QED BY <1>2, <1>3, <1>4, <1>5 DEF Next, World, Launches

\* Migrations by themselves, killed and repeated as often as one likes, refine
\* RollingMigration: convert_to_tablets_kubectl.bash takes one node at a time out of
\* service, converts it while it is out, and finalizes when all have converted.
THEOREM KubectlRollsOneAtATime == Spec => RollsWhilePlain
<1>1. Init => AddrInv /\ PlainInv /\ Rolling!Init
  BY DEF Init, NothingMigrated, AllServing, AddrInv, PlainInv, RollInv, Marked, ServingInv, OneOut,
         AllUp, Rolling!Init
<1>2. IInv /\ AddrInv /\ [Next]_vars => AddrInv'
  BY AddrStep
<1>3. IInv /\ AddrInv /\ PlainInv /\ [Next]_vars => PlainInv'
  BY RollStep
<1>4. IInv /\ AddrInv /\ PlainInv /\ [Next]_vars
        => [plain' /\ disruptions' = 0 => [Rolling!Next]_(Rolling!vars)]_vars
  BY RollStep DEF Rolls
<1> QED BY <1>1, <1>2, <1>3, <1>4, InvariantHolds, PTL DEF Spec, RollsWhilePlain
=============================================================================

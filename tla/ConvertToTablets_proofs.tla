---------------------- MODULE ConvertToTablets_proofs ----------------------
(***************************************************************************)
(* Safety of the migration script for every number of nodes, every set of  *)
(* keyspaces and addresses, and every bound on faults and disruptions.     *)
(***************************************************************************)
EXTENDS ConvertToTablets, TLAPS

-----------------------------------------------------------------------------
(* The inductive invariant *)

Settles(n, mode) == current[n] = mode /\ intended[n] = mode

BeforeLoop == {"idle", "cluster_up", "capability", "classify", "confirm", "prepare"}
PerNode == {"mark", "unmark", "needs_restart", "drain", "delete", "wait_down",
            "wait_up", "wait_mode"}
LoopLabels == {"pick"} \cup PerNode
AfterLoop == {"confirm_final", "finalize"}

\* Which procedure a label belongs to.
LabelInv ==
  /\ pc \in {"cluster_up", "prepare", "pick", "mark", "confirm_final"} => cmd = "migrate"
  /\ pc \in {"unmark", "needs_restart"} => cmd = "rollback"
  /\ pc \in {"capability", "confirm"} /\ cmd = "rollback" => args \subseteq InFlight

\* Where the loops over keyspaces and nodes stand.
LoopInv ==
  /\ pc \in {"idle", "cluster_up", "capability", "classify"} => todo = {}
  /\ pc \in {"capability", "confirm"} /\ cmd = "rollback" => todo = {}
  /\ pc \in BeforeLoop => pos = 1
  /\ pc \in PerNode \ {"unmark"} => pos <= N
  /\ pc \in AfterLoop => pos = N + 1
  /\ pc # "idle" => args # {}

\* A started keyspace stays in flight until the run finalizes it.
FlightInv ==
  /\ pc \in {"confirm", "prepare"} => args \ todo \subseteq InFlight
  /\ pc \in LoopLabels \cup {"confirm_final"} => args \subseteq InFlight
  /\ pc = "finalize" => todo \subseteq InFlight /\ todo # {}

\* The nodes the loop has passed are where the run wants them.
PassedInv ==
  pc \in LoopLabels \cup AfterLoop =>
    \A n \in Nodes : n < pos => Settles(n, Want)

IInv == TypeOK /\ LabelInv /\ LoopInv /\ FlightInv /\ PassedInv

-----------------------------------------------------------------------------
(* Facts about operators *)

\* With a keyspace in flight, a node reported as using a mode is settled in it.
LEMMA UsesSettles ==
  ASSUME NEW n \in Nodes, NEW mode \in Modes, args # {}, args \subseteq InFlight,
         UsesForAll(n, mode)
  PROVE  Settles(n, mode)
<1>1. PICK ks \in args : TRUE
  OBVIOUS
<1>2. ks \in InFlight /\ Uses(n, ks, mode)
  BY <1>1 DEF UsesForAll
<1> QED BY <1>2 DEF Uses, Settles

\* The end of a run satisfies the invariant whatever the cluster is left in.
LEMMA ExitIInv ==
  ASSUME TypeOK, ClusterTypeOK', mayDelete' \in BOOLEAN, faults' \in 0 .. MaxFaults, Exit
  PROVE  IInv'
<1> USE NAssumption, NoneAssumption DEF Exit
<1>1. TypeOK'
  <2>1. apiHost' \in [Nodes -> Addresses \cup {None}]
    OBVIOUS
  <2>2. 1 \in Nodes /\ 1 \in 1 .. N + 1
    BY DEF Nodes
  <2>3. pc' \in Labels
    BY DEF Labels
  <2> QED BY <2>1, <2>2, <2>3 DEF TypeOK
<1>2. LabelInv'
  BY DEF LabelInv
<1>3. LoopInv'
  BY DEF LoopInv, PerNode, AfterLoop, BeforeLoop
<1>4. FlightInv'
  BY DEF FlightInv, LoopLabels, PerNode
<1>5. PassedInv'
  BY DEF PassedInv, LoopLabels, PerNode, AfterLoop
<1> QED BY <1>1, <1>2, <1>3, <1>4, <1>5 DEF IInv

\* A step that leaves the cluster alone.
LEMMA StayFacts ==
  ASSUME TypeOK, Stay
  PROVE  /\ ClusterTypeOK' /\ mayDelete' \in BOOLEAN /\ faults' \in 0 .. MaxFaults
         /\ InFlight' = InFlight
         /\ \A n, mode : Settles(n, mode)' <=> Settles(n, mode)
  BY DEF TypeOK, ClusterTypeOK, Stay, clusterVars, envVars, InFlight, Settles, ApiUp

\* A step of the cluster or of its operators keeps what a run has achieved: a
\* node that boots takes the mode it is in already.
LEMMA ClusterIInv ==
  ASSUME IInv, ClusterTypeOK', mayDelete' \in BOOLEAN, faults' \in 0 .. MaxFaults,
         UNCHANGED scriptVars, UNCHANGED <<ksState, intended>>,
         \A n \in Nodes : current'[n] \in {current[n], intended[n]}
  PROVE  IInv'
<1> USE DEF IInv, scriptVars
<1>1. TypeOK'
  BY DEF TypeOK
<1>2. InFlight' = InFlight
  BY DEF InFlight
<1>3. LabelInv'
  BY <1>2 DEF LabelInv
<1>4. LoopInv'
  BY DEF LoopInv
<1>5. FlightInv'
  BY <1>2 DEF FlightInv
<1>6. PassedInv'
  BY DEF PassedInv, Settles, Want
<1> QED BY <1>1, <1>3, <1>4, <1>5, <1>6

\* The cluster's type is kept by what the script and the world do to it.
LEMMA FreeAddresses ==
  ASSUME NEW n \in Nodes, NEW a \in FreeFor(n), TypeOK, addr' = [addr EXCEPT ![n] = a]
  PROVE  addr' \in [Nodes -> Addresses]
  BY DEF TypeOK, ClusterTypeOK, FreeFor

-----------------------------------------------------------------------------
(* The steps of the script, one lemma per phase *)

Preflight ==
  \/ CheckClusterUp
  \/ CheckRestartCapability
  \/ ClassifyForMigration
  \/ ClassifyForRollback
  \/ Accept
  \/ \E ks \in Keyspaces : Prepare(ks)

Restart ==
  \/ \E p \in Nodes : PickPeer(p)
  \/ NoPeer
  \/ Mark
  \/ \E p \in Nodes : Unmark(p)
  \/ NeedsRestart
  \/ DrainNode
  \/ DeleteNodePod
  \/ SeenDown
  \/ PollBackUp
  \/ PollMode

Finalization ==
  \/ LoopDone
  \/ AcceptFinal
  \/ \E ks \in Keyspaces : Finalize(ks)

LEMMA LaunchIInv ==
  ASSUME IInv, NEW c \in Commands, NEW ks \in (SUBSET Keyspaces) \ {{}},
         NEW f \in ForceChoices, Launch(c, ks, f)
  PROVE  IInv'
<1> USE CommandsAssumption, ForceAssumption, NAssumption DEF Launch, Goto
<1>1. ClusterTypeOK' /\ mayDelete' \in BOOLEAN /\ faults' \in 0 .. MaxFaults
  BY StayFacts DEF IInv
<1>2. pc' \in {"cluster_up", "classify"} /\ todo' = {} /\ pos' = 1
  BY DEF IInv, LoopInv, BeforeLoop
<1>3. TypeOK'
  <2>1. apiHost' \in [Nodes -> Addresses \cup {None}]
    BY DEF IInv, TypeOK, ClusterTypeOK
  <2>2. control' \in Nodes /\ peer' \in Nodes /\ pos' \in 1 .. N + 1
    BY <1>2 DEF IInv, TypeOK, Nodes
  <2>3. cmd' \in {"migrate", "rollback"} /\ force' \in BOOLEAN
    OBVIOUS
  <2> QED BY <1>1, <1>2, <2>1, <2>2, <2>3 DEF TypeOK, Labels
<1>4. LabelInv'
  BY <1>2 DEF LabelInv
<1>5. LoopInv'
  BY <1>2 DEF LoopInv, BeforeLoop, PerNode, AfterLoop
<1>6. FlightInv' /\ PassedInv'
  BY <1>2 DEF FlightInv, PassedInv, LoopLabels, PerNode, AfterLoop
<1> QED BY <1>3, <1>4, <1>5, <1>6 DEF IInv

LEMMA PreflightIInv ==
  ASSUME IInv, Preflight
  PROVE  IInv'
<1> USE NAssumption DEF IInv, Goto, Here, runVars
<1>1. CASE CheckClusterUp
  <2>1. CASE Exit
    BY <1>1, <2>1, StayFacts, ExitIInv DEF CheckClusterUp
  <2>2. CASE Goto("capability") /\ Here
    BY <1>1, <2>2, StayFacts
      DEF CheckClusterUp, TypeOK, LabelInv, LoopInv, FlightInv, PassedInv,
          BeforeLoop, PerNode, AfterLoop, LoopLabels, Labels
  <2> QED BY <1>1, <2>1, <2>2 DEF CheckClusterUp
<1>2. CASE CheckRestartCapability
  <2>1. CASE Exit
    BY <1>2, <2>1, StayFacts, ExitIInv DEF CheckRestartCapability
  <2>2. CASE Goto(IF cmd = "migrate" THEN "classify" ELSE "confirm") /\ Here
    BY <1>2, <2>2, StayFacts
      DEF CheckRestartCapability, TypeOK, LabelInv, LoopInv, FlightInv, PassedInv,
          BeforeLoop, PerNode, AfterLoop, LoopLabels, Labels
  <2> QED BY <1>2, <2>1, <2>2 DEF CheckRestartCapability
<1>3. CASE ClassifyForMigration
  <2> DEFINE fresh == {ks \in args : ksState[ks] = "vnodes"}
  <2>1. CASE Exit
    BY <1>3, <2>1, StayFacts, ExitIInv DEF ClassifyForMigration
  <2>2. CASE ~Exit
    <3>1. /\ pc' = "confirm" /\ todo' = fresh
          /\ UNCHANGED <<cmd, args, force, pos, peer, control, apiHost>>
          /\ \A ks \in args : ksState[ks] # "tablets"
      BY <1>3, <2>2 DEF ClassifyForMigration
    <3>2. args \ todo' \subseteq InFlight'
      BY <1>3, <3>1, StayFacts
        DEF ClassifyForMigration, InFlight, TypeOK, ClusterTypeOK, KsStates
    <3> QED BY <1>3, <3>1, <3>2, StayFacts
      DEF ClassifyForMigration, TypeOK, LabelInv, LoopInv, FlightInv, PassedInv,
          BeforeLoop, PerNode, AfterLoop, LoopLabels, Labels
  <2> QED BY <2>1, <2>2
<1>4. CASE ClassifyForRollback
  <2>1. CASE Exit
    BY <1>4, <2>1, StayFacts, ExitIInv DEF ClassifyForRollback
  <2>2. CASE ControlAnswers /\ args \subseteq InFlight /\ Goto("capability") /\ Here
    BY <1>4, <2>2, StayFacts
      DEF ClassifyForRollback, TypeOK, LabelInv, LoopInv, FlightInv, PassedInv,
          BeforeLoop, PerNode, AfterLoop, LoopLabels, Labels
  <2> QED BY <1>4, <2>1, <2>2 DEF ClassifyForRollback
<1>5. CASE Accept
  BY <1>5, StayFacts
    DEF Accept, FirstNode, TypeOK, LabelInv, LoopInv, FlightInv, PassedInv, Nodes,
        BeforeLoop, PerNode, AfterLoop, LoopLabels, Labels
<1>6. ASSUME NEW ks \in Keyspaces, Prepare(ks) PROVE IInv'
  <2>1. CASE Exit /\ UNCHANGED modeVars
    BY <1>6, <2>1, ExitIInv
      DEF Prepare, TypeOK, ClusterTypeOK, modeVars, podVars, envVars
  <2>2. CASE /\ StartMigration(ks)
             /\ todo' = todo \ {ks}
             /\ Goto(IF todo' = {} THEN "pick" ELSE "prepare")
             /\ UNCHANGED <<runVars, pos, peer, control, apiHost>>
    <3>1. ClusterTypeOK'
      BY <1>6, <2>2
        DEF Prepare, StartMigration, TypeOK, ClusterTypeOK, podVars, KsStates
    <3>2. InFlight' = InFlight \cup {ks}
      BY <1>6, <2>2 DEF StartMigration, InFlight, TypeOK, ClusterTypeOK
    <3> QED BY <1>6, <2>2, <3>1, <3>2
      DEF Prepare, TypeOK, LabelInv, LoopInv, FlightInv, PassedInv, Nodes, envVars,
          BeforeLoop, PerNode, AfterLoop, LoopLabels, Labels
  <2> QED BY <1>6, <2>1, <2>2 DEF Prepare
<1> QED BY <1>1, <1>2, <1>3, <1>4, <1>5, <1>6 DEF Preflight

LEMMA RestartIInv ==
  ASSUME IInv, Restart
  PROVE  IInv'
<1> USE NAssumption DEF IInv, Goto, Here, runVars
<1> USE DEF Labels, BeforeLoop, PerNode, AfterLoop, LoopLabels, Nodes
<1>1. ASSUME NEW p \in Nodes, PickPeer(p) PROVE IInv'
  <2>1. TypeOK' /\ LabelInv' /\ LoopInv' /\ FlightInv'
    BY <1>1, StayFacts DEF PickPeer, TypeOK, LabelInv, LoopInv, FlightInv
  <2>2. PassedInv'
    <3>1. CASE UsesForAll(pos, "tablets")
      <4>1. pos \in Nodes /\ pos' = pos + 1 /\ Want = "tablets" /\ Want' = "tablets"
        BY <1>1, <3>1 DEF PickPeer, TypeOK, LabelInv, Want
      <4>2. Settles(pos, "tablets")
        BY <1>1, <3>1, <4>1, UsesSettles DEF PickPeer, LoopInv, FlightInv, Modes
      <4>3. \A n \in Nodes : n < pos => Settles(n, "tablets")
        BY <1>1, <4>1 DEF PickPeer, PassedInv
      <4> QED BY <1>1, <4>1, <4>2, <4>3, StayFacts DEF PickPeer, PassedInv, TypeOK
    <3>2. CASE ~UsesForAll(pos, "tablets")
      BY <1>1, <3>2, StayFacts DEF PickPeer, PassedInv, Want
    <3> QED BY <3>1, <3>2
  <2> QED BY <2>1, <2>2
<1>2. CASE NoPeer
  BY <1>2, StayFacts, ExitIInv DEF NoPeer
<1>3. CASE Mark
  <2>1. CASE Exit /\ UNCHANGED modeVars
    BY <1>3, <2>1, ExitIInv
      DEF Mark, TypeOK, ClusterTypeOK, modeVars, podVars, envVars
  <2>2. CASE SetIntended(apiHost[pos], "tablets") /\ Goto("drain") /\ Here
    <3>1. ClusterTypeOK' /\ InFlight' = InFlight
      BY <1>3, <2>2 DEF Mark, SetIntended, TypeOK, ClusterTypeOK, podVars, Modes, InFlight
    <3>2. \A n \in Nodes : Settles(n, "tablets") => Settles(n, "tablets")'
      BY <2>2 DEF SetIntended, Settles
    <3> QED BY <1>3, <2>2, <3>1, <3>2
      DEF Mark, TypeOK, LabelInv, LoopInv, FlightInv, PassedInv, Want, envVars
  <2> QED BY <1>3, <2>1, <2>2 DEF Mark
<1>4. ASSUME NEW p \in Nodes, Unmark(p) PROVE IInv'
  <2>1. CASE Exit /\ UNCHANGED modeVars
    BY <1>4, <2>1, ExitIInv
      DEF Unmark, TypeOK, ClusterTypeOK, modeVars, podVars, envVars
  <2>2. CASE /\ SetIntended(apiHost[pos], "vnodes")
             /\ Goto("needs_restart")
             /\ peer' = p
             /\ UNCHANGED <<runVars, todo, pos, control, apiHost>>
    <3>1. ClusterTypeOK' /\ InFlight' = InFlight
      BY <1>4, <2>2 DEF Unmark, SetIntended, TypeOK, ClusterTypeOK, podVars, Modes, InFlight
    <3>2. \A n \in Nodes : Settles(n, "vnodes") => Settles(n, "vnodes")'
      BY <2>2 DEF SetIntended, Settles
    <3> QED BY <1>4, <2>2, <3>1, <3>2
      DEF Unmark, TypeOK, LabelInv, LoopInv, FlightInv, PassedInv, Want, envVars
  <2> QED BY <1>4, <2>1, <2>2 DEF Unmark
<1>5. CASE NeedsRestart
  <2>1. CASE Exit
    BY <1>5, <2>1, StayFacts, ExitIInv DEF NeedsRestart
  <2>2. CASE ~Exit
    BY <1>5, <2>2, StayFacts
      DEF NeedsRestart, TypeOK, LabelInv, LoopInv, FlightInv, PassedInv, Want
  <2> QED BY <2>1, <2>2
<1>6. CASE DrainNode
  <2>1. ClusterTypeOK' /\ InFlight' = InFlight /\ UNCHANGED <<current, intended>>
    BY <1>6 DEF DrainNode, Drain, TypeOK, ClusterTypeOK, modeVars, podVars, Lives, InFlight
  <2> QED BY <1>6, <2>1
    DEF DrainNode, TypeOK, LabelInv, LoopInv, FlightInv, PassedInv, Settles, Want, envVars
<1>7. CASE DeleteNodePod
  <2>1. CASE Exit /\ UNCHANGED podVars
    BY <1>7, <2>1, ExitIInv
      DEF DeleteNodePod, TypeOK, ClusterTypeOK, modeVars, podVars, envVars
  <2>2. CASE DeletePod(pos) /\ Goto("wait_down") /\ Here
    <3>1. ClusterTypeOK' /\ InFlight' = InFlight /\ UNCHANGED <<current, intended>>
      BY <1>7, <2>2
        DEF DeleteNodePod, DeletePod, TypeOK, ClusterTypeOK, modeVars, Lives, InFlight
    <3> QED BY <1>7, <2>2, <3>1
      DEF DeleteNodePod, TypeOK, LabelInv, LoopInv, FlightInv, PassedInv, Settles, Want,
          envVars
  <2> QED BY <1>7, <2>1, <2>2 DEF DeleteNodePod
<1>8. CASE SeenDown
  BY <1>8, StayFacts
    DEF SeenDown, TypeOK, LabelInv, LoopInv, FlightInv, PassedInv, Want
<1>9. CASE PollBackUp
  <2>1. Refreshed(pos) \in Addresses \cup {None}
    BY <1>9 DEF PollBackUp, Refreshed, TypeOK, ClusterTypeOK, LoopInv
  <2> QED BY <1>9, <2>1, StayFacts
    DEF PollBackUp, TypeOK, LabelInv, LoopInv, FlightInv, PassedInv, Want
<1>10. CASE PollMode
  <2>1. CASE Exit
    BY <1>10, <2>1, StayFacts, ExitIInv DEF PollMode
  <2>2. CASE ~Exit
    <3>1. /\ UsesForAll(pos, Want)
          /\ pos' = pos + 1
          /\ pc' = FirstNode
          /\ UNCHANGED <<cmd, args, force, todo, peer, control, apiHost>>
      BY <1>10, <2>2 DEF PollMode
    <3>2. TypeOK' /\ LabelInv' /\ LoopInv' /\ FlightInv'
      BY <1>10, <3>1, StayFacts
        DEF PollMode, FirstNode, TypeOK, LabelInv, LoopInv, FlightInv
    <3>3. pos \in Nodes /\ Want \in Modes /\ Want' = Want
      BY <1>10, <3>1 DEF PollMode, TypeOK, LoopInv, Want, Modes
    <3>4. Settles(pos, Want)
      BY <1>10, <3>1, <3>3, UsesSettles DEF PollMode, LoopInv, FlightInv
    <3>5. \A n \in Nodes : n < pos => Settles(n, Want)
      BY <1>10 DEF PollMode, PassedInv
    <3>6. PassedInv'
      BY <1>10, <3>1, <3>3, <3>4, <3>5, StayFacts DEF PollMode, PassedInv, TypeOK
    <3> QED BY <3>2, <3>6
  <2> QED BY <2>1, <2>2
<1> QED BY <1>1, <1>2, <1>3, <1>4, <1>5, <1>6, <1>7, <1>8, <1>9, <1>10 DEF Restart

LEMMA FinalizationIInv ==
  ASSUME IInv, Finalization
  PROVE  IInv'
<1> USE NAssumption DEF IInv, Goto, Here, runVars
<1> USE DEF Labels, BeforeLoop, PerNode, AfterLoop, LoopLabels, Nodes
<1>1. CASE LoopDone
  BY <1>1, StayFacts
    DEF LoopDone, TypeOK, LabelInv, LoopInv, FlightInv, PassedInv, Want
<1>2. CASE AcceptFinal
  BY <1>2, StayFacts
    DEF AcceptFinal, TypeOK, LabelInv, LoopInv, FlightInv, PassedInv, Want
<1>3. ASSUME NEW ks \in Keyspaces, Finalize(ks) PROVE IInv'
  <2>1. CASE Exit /\ UNCHANGED modeVars
    BY <1>3, <2>1, ExitIInv
      DEF Finalize, TypeOK, ClusterTypeOK, modeVars, podVars, envVars
  <2>2. CASE FinalizeMigration(ks)
    <3>1. ClusterTypeOK'
      BY <1>3, <2>2
        DEF Finalize, FinalizeMigration, FinalMode, TypeOK, ClusterTypeOK, podVars,
            KsStates, Modes
    <3>2. CASE Exit
      BY <1>3, <3>1, <3>2, ExitIInv DEF Finalize, TypeOK, envVars
    <3>3. CASE ~Exit
      <4>1. /\ pc' = "finalize" /\ todo' = todo \ {ks} /\ todo # {ks}
            /\ UNCHANGED <<cmd, args, force, pos, peer, control, apiHost>>
        BY <1>3, <2>2, <3>3 DEF Finalize, FinalizeMigration, modeVars
      <4>2. InFlight' = InFlight \ {ks}
        BY <1>3, <2>2
          DEF FinalizeMigration, FinalMode, InFlight, TypeOK, ClusterTypeOK
      <4>3. InFlight # {ks} /\ todo' # {} /\ todo' \subseteq InFlight'
        BY <1>3, <4>1, <4>2 DEF Finalize, FlightInv
      <4>4. UNCHANGED <<current, intended>>
        BY <2>2, <4>3 DEF FinalizeMigration
      <4> QED BY <1>3, <3>1, <4>1, <4>3, <4>4
        DEF Finalize, TypeOK, LabelInv, LoopInv, FlightInv, PassedInv, Settles, Want,
            envVars
    <3> QED BY <3>2, <3>3
  <2> QED BY <1>3, <2>1, <2>2 DEF Finalize
<1> QED BY <1>1, <1>2, <1>3 DEF Finalization

-----------------------------------------------------------------------------
(* The world around the script *)

World ==
  \/ TimeOut
  \/ Interrupt
  \/ GrantAccess
  \/ RevokeAccess
  \/ \E n \in Nodes : OperatorRestart(n)
  \/ \E n \in Nodes : ClusterStep(n)

LEMMA WorldIInv ==
  ASSUME IInv, World
  PROVE  IInv'
<1> USE FaultsAssumption, DisruptionsAssumption DEF IInv
<1>1. CASE TimeOut
  BY <1>1, ExitIInv DEF TimeOut, TypeOK, ClusterTypeOK, clusterVars
<1>2. CASE Interrupt
  BY <1>2, ExitIInv DEF Interrupt, Fault, TypeOK, ClusterTypeOK, clusterVars
<1>3. CASE GrantAccess
  BY <1>3, ClusterIInv DEF GrantAccess, TypeOK, ClusterTypeOK, clusterVars, scriptVars
<1>4. CASE RevokeAccess
  <2>1. faults' \in 0 .. MaxFaults
    BY <1>4 DEF RevokeAccess, Fault, TypeOK
  <2>2. UNCHANGED clusterVars /\ UNCHANGED scriptVars /\ mayDelete' \in BOOLEAN
    BY <1>4 DEF RevokeAccess
  <2>3. ClusterTypeOK'
    BY <2>2 DEF TypeOK, ClusterTypeOK, clusterVars
  <2> QED BY <2>1, <2>2, <2>3, ClusterIInv DEF clusterVars
<1>5. ASSUME NEW n \in Nodes, OperatorRestart(n) PROVE IInv'
  <2>1. ClusterTypeOK' /\ UNCHANGED modeVars
    BY <1>5 DEF OperatorRestart, DeletePod, TypeOK, ClusterTypeOK, modeVars, Lives
  <2> QED BY <1>5, <2>1, ClusterIInv DEF OperatorRestart, TypeOK, modeVars, envVars
<1>6. ASSUME NEW n \in Nodes, ClusterStep(n) PROVE IInv'
  <2> USE <1>6 DEF ClusterStep, NodeStep, TypeOK, ClusterTypeOK, modeVars, Lives
  <2>1. CASE PodReplaced(n)
    <3>1. addr' \in [Nodes -> Addresses]
      BY <2>1, FreeAddresses DEF PodReplaced
    <3> QED BY <2>1, <3>1, ClusterIInv DEF PodReplaced, envVars
  <2>2. CASE Boot(n)
    <3>1. \A m \in Nodes : current'[m] \in {current[m], intended[m]}
      BY <2>2 DEF Boot
    <3>2. current' \in [Nodes -> Modes]
      BY <2>2 DEF Boot
    <3> QED BY <2>2, <3>1, <3>2, ClusterIInv DEF Boot, envVars
  <2>3. CASE Serve(n)
    BY <2>3, ClusterIInv DEF Serve, envVars
  <2>4. CASE Disrupt(n)
    <3>1. addr' \in [Nodes -> Addresses]
      BY <2>4, FreeAddresses DEF Disrupt
    <3> QED BY <2>4, <3>1, ClusterIInv DEF Disrupt, envVars
  <2> QED BY <2>1, <2>2, <2>3, <2>4
<1> QED BY <1>1, <1>2, <1>3, <1>4, <1>5, <1>6 DEF World

LEMMA InitIInv == Init => IInv
<1> SUFFICES ASSUME Init PROVE IInv
  OBVIOUS
<1> USE NAssumption, DisruptionsAssumption, FaultsAssumption
<1> USE DEF Init, NothingMigrated, AllServing, NoRun
<1>1. TypeOK
  <2>1. apiHost \in [Nodes -> Addresses \cup {None}]
    OBVIOUS
  <2>2. ClusterTypeOK
    BY DEF ClusterTypeOK, KsStates, Modes, Lives
  <2>3. pc \in Labels /\ pos \in 1 .. N + 1 /\ 1 \in Nodes
    BY DEF Labels, Nodes
  <2>4. faults \in 0 .. MaxFaults /\ mayDelete \in BOOLEAN
    OBVIOUS
  <2> QED BY <2>1, <2>2, <2>3, <2>4 DEF TypeOK
<1>2. LabelInv /\ LoopInv /\ FlightInv /\ PassedInv
  BY DEF LabelInv, LoopInv, FlightInv, PassedInv, BeforeLoop, PerNode, AfterLoop, LoopLabels
<1> QED BY <1>1, <1>2 DEF IInv

LEMMA StepIInv == IInv /\ [Next]_vars => IInv'
<1> SUFFICES ASSUME IInv, [Next]_vars PROVE IInv'
  OBVIOUS
<1>1. CASE \E c \in Commands, ks \in (SUBSET Keyspaces) \ {{}}, f \in ForceChoices :
             Launch(c, ks, f)
  BY <1>1, LaunchIInv
<1>2. CASE ScriptStep
  BY <1>2, PreflightIInv, RestartIInv, FinalizationIInv
    DEF ScriptStep, Preflight, Restart, Finalization
<1>3. CASE World
  BY <1>3, WorldIInv
<1>4. CASE UNCHANGED vars
  BY <1>4, ClusterIInv
    DEF vars, clusterVars, scriptVars, envVars, IInv, TypeOK, ClusterTypeOK
<1> QED BY <1>1, <1>2, <1>3, <1>4 DEF Next, World

LEMMA InvariantHolds == Spec => []IInv
  BY InitIInv, StepIInv, PTL DEF Spec

-----------------------------------------------------------------------------
(* Marks and migrations in flight *)

\* A step that neither starts or ends a migration nor marks a node.
LEMMA KeepsMarks ==
  ASSUME NoStaleMark, UNCHANGED <<ksState, intended>>
  PROVE  NoStaleMark'
  BY DEF NoStaleMark, InFlight

\* With a keyspace of the run in flight, it may mark what it likes.
LEMMA MarksInFlight ==
  ASSUME IInv, pc \in LoopLabels, UNCHANGED ksState
  PROVE  NoStaleMark'
<1>1. args # {} /\ args \subseteq InFlight
  BY DEF IInv, LoopInv, FlightInv, LoopLabels, PerNode
<1>2. InFlight' # {}
  BY <1>1 DEF InFlight
<1> QED BY <1>2 DEF NoStaleMark

\* Ending the last migration in flight leaves no mark: it ends in tablets and
\* the marks are forgotten, or a rollback has cleared every one of them.
LEMMA LastFinalization ==
  ASSUME IInv, NEW ks \in todo, pc = "finalize", MayFinalize(ks), FinalizeMigration(ks)
  PROVE  NoStaleMark'
<1>1. ks \in Keyspaces /\ ksState \in [Keyspaces -> KsStates] /\ ks \in InFlight
  BY DEF IInv, TypeOK, ClusterTypeOK, MayFinalize
<1>2. \A n \in Nodes : Settles(n, Want)
  <2>1. pos = N + 1
    BY DEF IInv, LoopInv, AfterLoop
  <2>2. \A n \in Nodes : n < N + 1
    BY NAssumption DEF Nodes
  <2> QED BY <2>1, <2>2 DEF IInv, PassedInv, AfterLoop
<1>3. CASE InFlight # {ks}
  <2>1. PICK other \in InFlight : other # ks
    BY <1>1, <1>3
  <2>2. other \in InFlight'
    BY <1>1, <2>1 DEF FinalizeMigration, InFlight
  <2> QED BY <2>2 DEF NoStaleMark
<1>4. CASE InFlight = {ks} /\ FinalMode = "tablets"
  BY <1>4 DEF FinalizeMigration, NoStaleMark
<1>5. CASE InFlight = {ks} /\ FinalMode # "tablets"
  <2>1. cmd # "migrate"
    BY <1>2, <1>5 DEF Settles, Want, FinalMode, AllIn
  <2>2. \A n \in Nodes : intended[n] = "vnodes"
    BY <1>2, <2>1 DEF Settles, Want
  <2>3. intended' = intended
    BY <1>5 DEF FinalizeMigration
  <2> QED BY <2>2, <2>3 DEF NoStaleMark
<1> QED BY <1>3, <1>4, <1>5

\* One script step: the requests that change marks or migrations, and the rest.
LEMMA ScriptKeepsMarks ==
  ASSUME IInv, NoStaleMark, ScriptStep
  PROVE  NoStaleMark'
<1>1. ASSUME NEW ks \in Keyspaces, Prepare(ks) PROVE NoStaleMark'
  <2>1. CASE UNCHANGED modeVars
    BY <2>1, KeepsMarks DEF modeVars
  <2>2. CASE StartMigration(ks)
    <3>1. ks \in InFlight'
      BY <2>2 DEF StartMigration, InFlight, IInv, TypeOK, ClusterTypeOK
    <3> QED BY <3>1 DEF NoStaleMark
  <2> QED BY <1>1, <2>1, <2>2 DEF Prepare
<1>2. CASE Mark
  BY <1>2, MarksInFlight DEF Mark, SetIntended, modeVars, LoopLabels, PerNode
<1>3. ASSUME NEW p \in Nodes, Unmark(p) PROVE NoStaleMark'
  BY <1>3, MarksInFlight DEF Unmark, SetIntended, modeVars, LoopLabels, PerNode
<1>4. ASSUME NEW ks \in Keyspaces, Finalize(ks) PROVE NoStaleMark'
  <2>1. CASE UNCHANGED modeVars
    BY <2>1, KeepsMarks DEF modeVars
  <2>2. CASE MayFinalize(ks) /\ FinalizeMigration(ks)
    BY <1>4, <2>2, LastFinalization DEF Finalize
  <2> QED BY <1>4, <2>1, <2>2 DEF Finalize
<1>5. CASE Stay
  BY <1>5, KeepsMarks DEF Stay, clusterVars
<1>6. CASE DrainNode \/ DeleteNodePod
  BY <1>6, KeepsMarks DEF DrainNode, DeleteNodePod, modeVars
<1> QED BY <1>1, <1>2, <1>3, <1>4, <1>5, <1>6
      DEF ScriptStep, CheckClusterUp, CheckRestartCapability, ClassifyForMigration,
          ClassifyForRollback, Accept, PickPeer, NoPeer, NeedsRestart, SeenDown,
          PollBackUp, PollMode, LoopDone, AcceptFinal

LEMMA WorldKeepsMarks ==
  ASSUME NoStaleMark, World
  PROVE  NoStaleMark'
<1>1. UNCHANGED <<ksState, intended>>
  BY DEF World, TimeOut, Interrupt, GrantAccess, RevokeAccess, OperatorRestart,
         ClusterStep, NodeStep, PodReplaced, Boot, Serve, Disrupt, clusterVars, modeVars
<1> QED BY <1>1, KeepsMarks

-----------------------------------------------------------------------------
(* Addresses of pods *)

\* No two pods have the same address.
AddrInv == \A m, n \in Nodes : addr[m] = addr[n] => m = n

\* A pod that moves goes where nobody is.
LEMMA FreshAddress ==
  ASSUME TypeOK, AddrInv, NEW n \in Nodes, NEW a \in FreeFor(n), addr' = [addr EXCEPT ![n] = a]
  PROVE  AddrInv'
<1>1. addr'[n] = a /\ \A m \in Nodes \ {n} : addr'[m] = addr[m] /\ addr[m] # a
  BY DEF FreeFor, TypeOK, ClusterTypeOK
<1> QED BY <1>1 DEF AddrInv

LEMMA StepAddrInv ==
  ASSUME TypeOK, AddrInv, [Next]_vars
  PROVE  AddrInv'
<1>1. CASE addr' = addr
  BY <1>1 DEF AddrInv
<1>2. ASSUME NEW n \in Nodes, PodReplaced(n) \/ Disrupt(n) PROVE AddrInv'
  BY <1>2, FreshAddress DEF PodReplaced, Disrupt
<1>3. CASE ScriptStep
  BY <1>1, <1>3
    DEF ScriptStep, CheckClusterUp, CheckRestartCapability, ClassifyForMigration,
        ClassifyForRollback, Accept, Prepare, PickPeer, NoPeer, Mark, Unmark, NeedsRestart,
        DrainNode, Drain, DeleteNodePod, DeletePod, SeenDown, PollBackUp, PollMode, LoopDone,
        AcceptFinal, Finalize, Stay, clusterVars, podVars
<1>4. CASE World
  BY <1>1, <1>2, <1>4
    DEF World, TimeOut, Interrupt, GrantAccess, RevokeAccess, OperatorRestart, DeletePod,
        ClusterStep, NodeStep, Boot, Serve, clusterVars
<1>5. CASE UNCHANGED vars
  BY <1>1, <1>5 DEF vars, clusterVars
<1> QED BY <1>1, <1>3, <1>4, <1>5 DEF Next, World, Launch, Stay, clusterVars

LEMMA AddressesDistinct == Spec => []AddrInv
<1>1. Init => AddrInv
  BY DEF Init, AllServing, AddrInv
<1>2. IInv /\ AddrInv /\ [Next]_vars => AddrInv'
  BY StepAddrInv DEF IInv
<1> QED BY <1>1, <1>2, InvariantHolds, PTL DEF Spec

-----------------------------------------------------------------------------
(* Runs that nothing disturbs: a node goes out of service only for the     *)
(* restart the run is about to see through.                                *)

AllUp == \A n \in Nodes : life[n] = "up"
OnlyOut(n) == \A m \in Nodes \ {n} : life[m] = "up"

\* Labels at which the node of the loop is out, and no other.
Restarting == {"delete", "wait_down", "wait_up"}

\* From here on the run has been told that it may delete pods.
MayRestart == {"confirm", "prepare", "pick"} \cup PerNode

Undisturbed == faults = 0 /\ disruptions = 0

OutInv ==
  /\ pc \notin Restarting => AllUp
  /\ pc \in Restarting => OnlyOut(pos)

\* Once it is to be seen down, a drained node waits for the operator.
DrainedInv ==
  /\ pc = "wait_up" => life[pos] # "drained"
  /\ pc = "wait_down" /\ life[pos] = "drained" =>
       RestartMode = "manual" /\ apiHost[pos] = addr[pos]

RoleInv ==
  \/ pc = "delete"
  \/ RestartMode = "k8s" /\ (pc \in MayRestart \/ (pc = "classify" /\ cmd = "migrate"))
  => mayDelete

\* The run knows the address of every node, but of the one it restarts.
KnownInv ==
  /\ pc \notin {"idle"} \cup Restarting => apiHost = addr
  /\ pc \in Restarting => \A m \in Nodes \ {pos} : apiHost[m] = addr[m] /\ addr[m] # apiHost[pos]

CalmInv == Undisturbed => OutInv /\ DrainedInv /\ RoleInv /\ KnownInv

\* The end of a run that has everything up.
LEMMA CalmExit ==
  ASSUME Exit, AllUp, UNCHANGED <<life, addr>>
  PROVE  CalmInv'
  BY DEF Exit, AllUp, CalmInv, OutInv, DrainedInv, RoleInv, KnownInv, Restarting, MayRestart,
         PerNode

\* From label to label while everything is up and its address known.
LEMMA CalmOnward ==
  ASSUME AllUp, apiHost = addr, UNCHANGED <<life, addr, apiHost>>, pc' \notin Restarting,
         RoleInv'
  PROVE  CalmInv'
  BY DEF AllUp, CalmInv, OutInv, DrainedInv, KnownInv, Restarting

LEMMA CalmPreflight ==
  ASSUME IInv, CalmInv, Undisturbed, Preflight
  PROVE  CalmInv'
<1> USE DEF Restarting, MayRestart, PerNode, Goto, Here, runVars, Stay, clusterVars, envVars
<1>1. AllUp /\ RoleInv /\ apiHost = addr
  BY DEF CalmInv, OutInv, KnownInv, Preflight, CheckClusterUp, CheckRestartCapability,
         ClassifyForMigration, ClassifyForRollback, Accept, Prepare
<1>2. CASE CheckClusterUp
  BY <1>1, <1>2, CalmExit, CalmOnward DEF CheckClusterUp, RoleInv
<1>3. CASE CheckRestartCapability
  BY <1>1, <1>3, CalmExit, CalmOnward DEF CheckRestartCapability, RoleInv
<1>4. CASE ClassifyForMigration
  BY <1>1, <1>4, CalmExit, CalmOnward DEF ClassifyForMigration, RoleInv
<1>5. CASE ClassifyForRollback
  BY <1>1, <1>5, CalmExit, CalmOnward DEF ClassifyForRollback, RoleInv
<1>6. CASE Accept
  BY <1>1, <1>6, CalmOnward DEF Accept, FirstNode, RoleInv
<1>7. ASSUME NEW ks \in Keyspaces, Prepare(ks) PROVE CalmInv'
  BY <1>1, <1>7, CalmExit, CalmOnward DEF Prepare, RoleInv, podVars
<1> QED BY <1>2, <1>3, <1>4, <1>5, <1>6, <1>7 DEF Preflight

LEMMA PosIsNode ==
  ASSUME IInv, pc \in PerNode \ {"unmark"}
  PROVE  pos \in Nodes
  BY DEF IInv, TypeOK, LoopInv, Nodes

\* Steps of the loop outside a restart.
LEMMA CalmLoop ==
  ASSUME IInv, CalmInv, Undisturbed,
         \/ \E p \in Nodes : PickPeer(p) \/ Unmark(p)
         \/ NoPeer \/ Mark \/ NeedsRestart \/ PollMode
  PROVE  CalmInv'
<1> USE DEF Restarting, MayRestart, PerNode, Goto, Here, runVars, Stay, clusterVars, envVars
<1>1. AllUp /\ RoleInv /\ apiHost = addr /\ pc \in {"pick", "unmark", "mark", "needs_restart", "wait_mode"}
  BY DEF CalmInv, OutInv, KnownInv, PickPeer, Unmark, NoPeer, Mark, NeedsRestart, PollMode
<1>2. /\ UNCHANGED <<life, addr, mayDelete>>
      /\ Exit \/ (apiHost' = apiHost /\ pc' \in {"pick", "unmark", "mark", "needs_restart", "wait_mode", "drain"})
  BY DEF PickPeer, Unmark, NoPeer, Mark, NeedsRestart, PollMode, FirstNode, podVars
<1>3. RoleInv'
  BY <1>1, <1>2 DEF RoleInv, Exit
<1> QED BY <1>1, <1>2, <1>3, CalmExit, CalmOnward

\* The steps of restart_node.
LEMMA CalmRestart ==
  ASSUME IInv, AddrInv, CalmInv, Undisturbed,
         DrainNode \/ DeleteNodePod \/ SeenDown \/ PollBackUp
  PROVE  CalmInv'
<1> USE NoneAssumption
    DEF Restarting, MayRestart, PerNode, Goto, Here, runVars, Stay, clusterVars, envVars
<1>1. pos \in Nodes /\ RoleInv
  BY PosIsNode DEF CalmInv, DrainNode, DeleteNodePod, SeenDown, PollBackUp
<1>2. CASE DrainNode
  <2>1. AllUp /\ apiHost = addr
    BY <1>2 DEF DrainNode, CalmInv, OutInv, KnownInv
  <2>2. UNCHANGED <<pos, apiHost, addr, mayDelete>> /\ \A m \in Nodes \ {pos} : life'[m] = "up"
    BY <1>1, <1>2, <2>1 DEF DrainNode, Drain, AnswersAt, AddrInv, AllUp, podVars
  <2>3. pc' = "delete" \/ (pc' = "wait_down" /\ RestartMode = "manual")
    BY <1>2, RestartAssumption DEF DrainNode
  <2> QED BY <1>1, <1>2, <2>1, <2>2, <2>3
        DEF CalmInv, OutInv, OnlyOut, DrainedInv, RoleInv, KnownInv, DrainNode, AddrInv
<1>3. CASE DeleteNodePod
  <2>1. DeletePod(pos) /\ pc = "delete" /\ pc' = "wait_down" /\ UNCHANGED <<pos, apiHost, mayDelete>>
    BY <1>1, <1>3 DEF DeleteNodePod, RoleInv
  <2>2. /\ addr' = addr /\ life'[pos] # "drained"
        /\ \A m \in Nodes \ {pos} : life'[m] = life[m]
    BY <1>1, <2>1 DEF DeletePod, IInv, TypeOK, ClusterTypeOK
  <2> QED BY <1>1, <2>1, <2>2
        DEF CalmInv, OutInv, OnlyOut, DrainedInv, RoleInv, KnownInv
<1>4. CASE SeenDown
  <2>1. life[pos] # "drained"
    BY <1>1, <1>4 DEF SeenDown, CalmInv, DrainedInv, Answers, AnswersAt, ApiUp
  <2> QED BY <1>1, <1>4, <2>1
        DEF SeenDown, CalmInv, OutInv, OnlyOut, DrainedInv, RoleInv, KnownInv
<1>5. CASE PollBackUp
  <2>1. /\ apiHost'[pos] \in {addr[pos], None}
        /\ \A m \in Nodes \ {pos} : apiHost'[m] = addr[m] /\ addr[m] # apiHost[pos]
        /\ OnlyOut(pos) /\ life[pos] # "drained"
    <3>1. Refreshed(pos) \in {addr[pos], None}
      BY <1>1, <1>5 DEF PollBackUp, Refreshed, Answers, AnswersAt, CalmInv, KnownInv
    <3> QED BY <1>1, <1>5, <3>1
          DEF PollBackUp, CalmInv, KnownInv, OutInv, DrainedInv, IInv, TypeOK
  <2>2. UNCHANGED <<life, addr, pos, mayDelete>> /\ apiHost' \in [Nodes -> Addresses \cup {None}]
    BY <1>5, RestartIInv DEF PollBackUp, Restart, IInv, TypeOK
  <2>3. CASE BackUp(pos)
    <3>1. apiHost'[pos] = addr[pos] /\ life[pos] = "up"
      <4>1. apiHost'[pos] \in LiveAddresses
        BY <1>1, <1>5, <2>3 DEF PollBackUp, BackUp, IInv, TypeOK
      <4>2. apiHost'[pos] # None
        BY <4>1 DEF LiveAddresses, IInv, TypeOK, ClusterTypeOK
      <4> QED BY <1>1, <2>1, <4>1, <4>2 DEF LiveAddresses, AddrInv
    <3>2. AllUp
      BY <2>1, <3>1 DEF OnlyOut, AllUp
    <3>3. apiHost' = addr
      BY <2>1, <2>2, <3>1 DEF IInv, TypeOK, ClusterTypeOK
    <3>4. pc' = "wait_mode" /\ RoleInv'
      BY <1>1, <1>5, <2>2, <2>3 DEF PollBackUp, RoleInv
    <3> QED BY <2>2, <3>2, <3>3, <3>4 DEF CalmInv, OutInv, AllUp, DrainedInv, KnownInv
  <2>4. CASE ~BackUp(pos)
    <3>1. pc' = "wait_up" /\ RoleInv'
      BY <1>1, <1>5, <2>2, <2>4 DEF PollBackUp, RoleInv
    <3>2. \A m \in Nodes \ {pos} : addr[m] # apiHost'[pos]
      BY <1>1, <2>1 DEF AddrInv, IInv, TypeOK, ClusterTypeOK
    <3> QED BY <2>1, <2>2, <3>1, <3>2 DEF CalmInv, OutInv, OnlyOut, DrainedInv, KnownInv
  <2> QED BY <2>3, <2>4
<1> QED BY <1>2, <1>3, <1>4, <1>5

LEMMA CalmFinalization ==
  ASSUME IInv, CalmInv, Undisturbed, Finalization
  PROVE  CalmInv'
<1> USE DEF Restarting, MayRestart, PerNode, Goto, Here, runVars, Stay, clusterVars, envVars
<1>1. AllUp /\ apiHost = addr
  BY DEF CalmInv, OutInv, KnownInv, Finalization, LoopDone, AcceptFinal, Finalize
<1>2. CASE LoopDone \/ AcceptFinal
  BY <1>1, <1>2, CalmOnward DEF LoopDone, AcceptFinal, RoleInv
<1>3. ASSUME NEW ks \in Keyspaces, Finalize(ks) PROVE CalmInv'
  BY <1>1, <1>3, CalmExit, CalmOnward DEF Finalize, RoleInv, podVars
<1> QED BY <1>2, <1>3 DEF Finalization

\* What changes the cluster in calm happens to the node being restarted.
LEMMA CalmWorld ==
  ASSUME IInv, AddrInv, CalmInv, Undisturbed, Undisturbed', World
  PROVE  CalmInv'
<1> USE DEF Restarting, MayRestart, PerNode, clusterVars, scriptVars, envVars, runVars
<1>1. CASE TimeOut
  <2>1. Settled(pos) /\ StillWaiting /\ Exit /\ UNCHANGED <<life, addr>>
    BY <1>1 DEF TimeOut, Undisturbed
  <2>2. pc \in {"wait_down", "wait_up", "wait_mode"} /\ pos \in Nodes
    BY <2>1, PosIsNode DEF StillWaiting
  <2>3. AllUp
    BY <2>1, <2>2, RestartAssumption
      DEF CalmInv, OutInv, OnlyOut, AllUp, DrainedInv, Settled
  <2> QED BY <2>1, <2>3, CalmExit
<1>2. CASE Interrupt \/ RevokeAccess
  BY <1>2 DEF Interrupt, RevokeAccess, Fault, Undisturbed
<1>3. CASE GrantAccess
  BY <1>3
    DEF GrantAccess, CalmInv, OutInv, AllUp, OnlyOut, DrainedInv, RoleInv, KnownInv
<1>4. ASSUME NEW n \in Nodes, OperatorRestart(n) \/ ClusterStep(n) PROVE CalmInv'
  <2>1. n = pos /\ pc \in Restarting /\ OnlyOut(pos)
    <3>1. life[n] # "up" \/ (pc = "wait_down" /\ n = pos)
      BY <1>4
        DEF OperatorRestart, AskedToRestart, ClusterStep, NodeStep, PodReplaced, Boot, Serve,
            Disrupt, Undisturbed
    <3> QED BY <3>1 DEF CalmInv, OutInv, AllUp, OnlyOut
  <2>2. /\ UNCHANGED <<scriptVars, mayDelete>>
        /\ life'[n] # "drained"
        /\ \A m \in Nodes \ {n} : life'[m] = life[m] /\ addr'[m] = addr[m]
    BY <1>4
      DEF OperatorRestart, DeletePod, ClusterStep, NodeStep, PodReplaced, Boot, Serve,
          Disrupt, Undisturbed, IInv, TypeOK, ClusterTypeOK
  <2> QED BY <2>1, <2>2
        DEF CalmInv, OutInv, OnlyOut, DrainedInv, RoleInv, KnownInv
<1> QED BY <1>1, <1>2, <1>3, <1>4 DEF World

LEMMA CalmStep ==
  ASSUME IInv, AddrInv, CalmInv, [Next]_vars
  PROVE  CalmInv'
<1>1. SUFFICES ASSUME Undisturbed' PROVE CalmInv'
  BY DEF CalmInv
<1>2. Undisturbed
  <2>1. \/ UNCHANGED faults
        \/ faults' = faults + 1
    BY DEF Next, ScriptStep, CheckClusterUp, CheckRestartCapability, ClassifyForMigration,
           ClassifyForRollback, Accept, Prepare, PickPeer, NoPeer, Mark, Unmark, NeedsRestart,
           DrainNode, DeleteNodePod, SeenDown, PollBackUp, PollMode, LoopDone, AcceptFinal,
           Finalize, Stay, envVars, Launch, TimeOut, Interrupt, GrantAccess, RevokeAccess,
           Fault, OperatorRestart, ClusterStep, vars
  <2>2. \/ UNCHANGED disruptions
        \/ disruptions' = disruptions + 1
    BY DEF Next, ScriptStep, CheckClusterUp, CheckRestartCapability, ClassifyForMigration,
           ClassifyForRollback, Accept, Prepare, PickPeer, NoPeer, Mark, Unmark, NeedsRestart,
           DrainNode, DeleteNodePod, SeenDown, PollBackUp, PollMode, LoopDone, AcceptFinal,
           Finalize, Stay, clusterVars, Launch, TimeOut, Interrupt, GrantAccess, RevokeAccess,
           OperatorRestart, ClusterStep, NodeStep, PodReplaced, Boot, Serve, Disrupt, vars
  <2> QED BY <1>1, <2>1, <2>2 DEF Undisturbed, IInv, TypeOK, ClusterTypeOK
<1>3. CASE \E c \in Commands, ks \in (SUBSET Keyspaces) \ {{}}, f \in ForceChoices :
             Launch(c, ks, f)
  <2>1. /\ AllUp /\ UNCHANGED <<life, addr>> /\ apiHost' = addr
        /\ pc' = "cluster_up" \/ (pc' = "classify" /\ cmd' # "migrate")
    BY <1>2, <1>3 DEF Launch, Stay, clusterVars, Goto, CalmInv, OutInv, Restarting
  <2> QED BY <2>1
        DEF CalmInv, OutInv, AllUp, DrainedInv, RoleInv, KnownInv, Restarting, MayRestart, PerNode
<1>4. CASE ScriptStep
  BY <1>2, <1>4, CalmPreflight, CalmLoop, CalmRestart, CalmFinalization
    DEF ScriptStep, Preflight, Finalization
<1>5. CASE World
  BY <1>1, <1>2, <1>5, CalmWorld
<1>6. CASE UNCHANGED vars
  BY <1>2, <1>6
    DEF vars, clusterVars, scriptVars, envVars, runVars, CalmInv, OutInv, AllUp, OnlyOut,
        DrainedInv, RoleInv, KnownInv
<1> QED BY <1>3, <1>4, <1>5, <1>6 DEF Next, World

LEMMA CalmHolds == Spec => []CalmInv
<1>1. Init => CalmInv
  BY DEF Init, AllServing, NoRun, CalmInv, OutInv, AllUp, DrainedInv, RoleInv, KnownInv,
         Restarting, MayRestart, PerNode
<1>2. IInv /\ AddrInv /\ CalmInv /\ [Next]_vars => CalmInv'
  BY CalmStep
<1> QED BY <1>1, <1>2, InvariantHolds, AddressesDistinct, PTL DEF Spec

-----------------------------------------------------------------------------
(* What preflight said when the run was classified holds until it prepares *)

PreflightInv == pc \in {"confirm", "prepare"} => force \/ todo \cap Unmigratable = {}

LEMMA StepPreflightInv ==
  ASSUME IInv, PreflightInv, [Next]_vars
  PROVE  PreflightInv'
<1> USE DEF PreflightInv, Goto, Here, runVars
<1>1. CASE Preflight
  <2>1. CASE CheckRestartCapability
    BY <2>1 DEF CheckRestartCapability, IInv, LoopInv, Exit
  <2>2. CASE ClassifyForMigration
    BY <2>2 DEF ClassifyForMigration, Exit
  <2>3. CASE Accept
    BY <2>3 DEF Accept
  <2>4. ASSUME NEW ks \in Keyspaces, Prepare(ks) PROVE PreflightInv'
    BY <2>4 DEF Prepare, Exit
  <2> QED BY <1>1, <2>1, <2>2, <2>3, <2>4
        DEF Preflight, CheckClusterUp, ClassifyForRollback, Exit
<1>2. CASE Restart \/ Finalization
  BY <1>2
    DEF Restart, Finalization, PickPeer, NoPeer, Mark, Unmark, NeedsRestart, DrainNode,
        DeleteNodePod, SeenDown, PollBackUp, PollMode, LoopDone, AcceptFinal, Finalize,
        FirstNode, Exit
<1>3. CASE World
  BY <1>3
    DEF World, TimeOut, Interrupt, GrantAccess, RevokeAccess, OperatorRestart, ClusterStep,
        scriptVars, Exit
<1> QED BY <1>1, <1>2, <1>3
      DEF Next, ScriptStep, Preflight, Restart, Finalization, World, Launch, vars, scriptVars

LEMMA PreflightHolds == Spec => []PreflightInv
<1>1. Init => PreflightInv
  BY DEF Init, NoRun, PreflightInv
<1> QED BY <1>1, StepPreflightInv, InvariantHolds, PTL DEF Spec

-----------------------------------------------------------------------------
(* Theorems *)

\* Type correctness of the script and of the cluster it works on.
THEOREM TypeCorrect == Spec => []TypeOK
<1>1. IInv => TypeOK
  BY DEF IInv
<1> QED BY <1>1, InvariantHolds, PTL

\* The finalization of a migration is requested only when every node uses
\* tablets: the loop of migrate has seen each one do so, and nothing that runs
\* beside the script or interrupted an earlier run takes that back.
THEOREM MigrationFinalizedSafely == Spec => []FinalizeOnlyConverted
<1>1. IInv => FinalizeOnlyConverted
  <2> SUFFICES ASSUME IInv, pc = "finalize", cmd = "migrate", NEW n \in Nodes
               PROVE  Settles(n, Want)
    BY DEF FinalizeOnlyConverted, Settles, Want
  <2>1. pos = N + 1 /\ n < N + 1
    BY NAssumption DEF IInv, LoopInv, AfterLoop, Nodes
  <2> QED BY <2>1 DEF IInv, PassedInv, AfterLoop
<1> QED BY <1>1, InvariantHolds, PTL

\* The finalization of a rollback is requested only when no node has, or is
\* marked to build, tablet storage.
THEOREM RollbackFinalizedSafely == Spec => []RollbackOnlyReverted
<1>1. IInv => RollbackOnlyReverted
  <2> SUFFICES ASSUME IInv, pc = "finalize", cmd = "rollback", NEW n \in Nodes
               PROVE  Settles(n, Want)
    BY DEF RollbackOnlyReverted, Settles, Want
  <2>1. pos = N + 1 /\ n < N + 1
    BY NAssumption DEF IInv, LoopInv, AfterLoop, Nodes
  <2> QED BY <2>1 DEF IInv, PassedInv, AfterLoop
<1> QED BY <1>1, InvariantHolds, PTL

\* No sequence of runs, however they end, leaves a node marked for tablets
\* when nothing is being migrated any more.
THEOREM NoMarkLeftBehind == Spec => []NoStaleMark
<1>1. Init => NoStaleMark
  BY DEF Init, NothingMigrated, NoStaleMark
<1>2. IInv /\ NoStaleMark /\ [Next]_vars => NoStaleMark'
  <2> SUFFICES ASSUME IInv, NoStaleMark, [Next]_vars PROVE NoStaleMark'
    OBVIOUS
  <2>1. CASE \E c \in Commands, ks \in (SUBSET Keyspaces) \ {{}}, f \in ForceChoices :
               Launch(c, ks, f)
    BY <2>1, KeepsMarks DEF Launch, Stay, clusterVars
  <2>2. CASE UNCHANGED vars
    BY <2>2, KeepsMarks DEF vars, clusterVars
  <2> QED BY <2>1, <2>2, ScriptKeepsMarks, WorldKeepsMarks DEF Next, World
<1> QED BY <1>1, <1>2, InvariantHolds, PTL DEF Spec

\* A run that is neither interrupted nor impatient and that no restart or loss
\* of rights crosses never ends with a node drained, in either restart mode.
THEOREM NoDrainAbandoned == Spec => []NoAbandonedDrain
<1>1. CalmInv => NoAbandonedDrain
  BY DEF NoAbandonedDrain, CalmInv, Undisturbed, OutInv, Restarting, AllUp
<1> QED BY <1>1, CalmHolds, PTL

\* Only under -F is a keyspace prepared that preflight blocks on, however long
\* the operator takes to confirm and however many others come first.
THEOREM PreflightIsObeyed == Spec => PreparesOnlyMigratable
<1> DEFINE Obeys ==
      \A ks \in Unmigratable : ksState'[ks] # ksState[ks] /\ ksState[ks] = "vnodes" => force
<1>1. IInv /\ PreflightInv /\ [Next]_vars => [Obeys]_vars
  <2> SUFFICES ASSUME IInv, PreflightInv, Next, NEW ks \in Unmigratable,
                      ksState'[ks] # ksState[ks], ksState[ks] = "vnodes"
               PROVE  force
    OBVIOUS
  <2>1. ks \in Keyspaces
    BY UnmigratableAssumption
  <2>2. ASSUME NEW other \in Keyspaces, Prepare(other) PROVE force
    <3>1. pc = "prepare" /\ other \in todo /\ ks = other
      BY <2>1, <2>2 DEF Prepare, StartMigration, modeVars, IInv, TypeOK, ClusterTypeOK
    <3> QED BY <3>1 DEF PreflightInv
  <2>3. ASSUME NEW other \in Keyspaces, Finalize(other) PROVE FALSE
    BY <2>1, <2>3
      DEF Finalize, MayFinalize, FinalizeMigration, InFlight, modeVars, IInv, TypeOK,
          ClusterTypeOK
  <2>4. CASE ScriptStep
    BY <2>2, <2>3, <2>4
      DEF ScriptStep, CheckClusterUp, CheckRestartCapability, ClassifyForMigration,
          ClassifyForRollback, Accept, PickPeer, NoPeer, Mark, Unmark, NeedsRestart, DrainNode,
          DeleteNodePod, SeenDown, PollBackUp, PollMode, LoopDone, AcceptFinal, SetIntended,
          Stay, clusterVars, modeVars
  <2>5. CASE World
    BY <2>5
      DEF World, TimeOut, Interrupt, GrantAccess, RevokeAccess, OperatorRestart, ClusterStep,
          NodeStep, PodReplaced, Boot, Serve, Disrupt, clusterVars, modeVars
  <2> QED BY <2>4, <2>5 DEF Next, World, Launch, Stay, clusterVars
<1> QED BY <1>1, PreflightHolds, InvariantHolds, PTL DEF Spec, PreparesOnlyMigratable
=============================================================================

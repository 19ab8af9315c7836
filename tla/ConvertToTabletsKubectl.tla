----------------------- MODULE ConvertToTabletsKubectl -----------------------
(***************************************************************************)
(* src/sample_app/convert_to_tablets_kubectl.bash: the migration of        *)
(* ConvertToTablets driven from outside the cluster.  Every request is a   *)
(* kubectl exec into a pod, which is known by its name and so cannot be    *)
(* taken for another; what the whole cluster is asked goes to one control  *)
(* pod, picked once and never again.  A status that cannot be read is an   *)
(* empty string here, and does not end the run as it does in the other     *)
(* script.  Each step is one kubectl command or one poll.                  *)
(*                                                                         *)
(* Left out: -s, which prints only, and what preflight looks for in the    *)
(* schema (one set of keyspaces it blocks on).                             *)
(*                                                                         *)
(* A definition marked Mutant is a plausible bug in the definition it      *)
(* precedes; no specification uses it.                                     *)
(***************************************************************************)
EXTENDS ScyllaCluster

CONSTANTS
  Unmigratable,   \* keyspaces preflight blocks on
  MaxFaults       \* bound: kills, failed commands, impatient timeouts

ASSUME UnmigratableAssumption == Unmigratable \subseteq Keyspaces
ASSUME FaultsAssumption == MaxFaults \in Nat

VARIABLES
  pc,             \* the next thing the script does
  mode,           \* migrate or rollback
  args,           \* keyspaces
  force,          \* -F
  first_pod,      \* the control pod
  pod,            \* where the loop over the pods is
  todo,           \* keyspaces the current loop over keyspaces has left
  faults,         \* so far
  plain           \* history: migrations without -F have been the only runs

runVars == <<mode, args, force>>
scriptVars == <<pc, mode, args, force, first_pod, pod, todo>>
vars == <<clusterVars, scriptVars, faults, plain>>

Labels == {"idle", "host_ids", "cluster_up", "classify", "confirm", "prepare", "prepared",
           "next_pod", "needs_restart", "drain", "delete", "wait_gone", "wait_ready",
           "wait_state", "confirm_final", "finalize", "finalized"}

-----------------------------------------------------------------------------
(* Helpers of the script *)

Wanted == IF mode = "migrate" THEN "tablets" ELSE "vnodes"

\* node_state of a pod that is asked for itself, by its own nodetool; a keyspace that is
\* not being migrated has no line for it.
ReportsUses(n, ks, m) == ApiUp(n) /\ ks \in InFlight /\ current[n] = m /\ intended[n] = m
ReportsMigrating(n, ks, m) == ApiUp(n) /\ MigratingTo(n, ks, m)
UsesForAll(n, m) == \A ks \in args : ReportsUses(n, ks, m)

ControlAnswers == ApiUp(first_pod)

Fault == faults < MaxFaults /\ faults' = faults + 1
Goto(label) == pc' = label /\ UNCHANGED <<runVars, first_pod, pod, todo>>
Still == UNCHANGED <<clusterVars, plain>>

\* die, exit 0, a kill: nothing of the run is kept.
Exit ==
  /\ pc' = "idle"
  /\ mode' = "migrate"
  /\ args' = {}
  /\ force' = FALSE
  /\ first_pod' = 1
  /\ pod' = 1
  /\ todo' = {}

\* <command> || die.
OrDie(succeeds, label) == IF succeeds THEN Goto(label) ELSE Exit

-----------------------------------------------------------------------------
(* Discovery and preflight *)

\* pick_control_pod: the first whose nodetool answers.
Launch(m, ks, f) ==
  /\ pc = "idle"
  /\ \E n \in Nodes : /\ ApiUp(n)
                      /\ \A other \in 1 .. n - 1 : ~ApiUp(other)
                      /\ first_pod' = n
  /\ pc' = "host_ids"
  /\ mode' = m
  /\ args' = ks
  /\ force' = f
  /\ plain' = (plain /\ m = "migrate" /\ ~f)
  /\ UNCHANGED <<clusterVars, pod, todo, faults>>

ReadHostIds ==
  /\ pc = "host_ids"
  /\ OrDie(\A n \in Nodes : ApiUp(n), IF mode = "migrate" THEN "cluster_up" ELSE "classify")
  /\ Still /\ UNCHANGED faults

\* Mutant: the nodes that are there are enough.
CheckClusterApiUp ==
  /\ pc = "cluster_up"
  /\ OrDie(force \/ ControlAnswers, "classify")
  /\ Still /\ UNCHANGED faults
\* check_cluster_up: every node UN, as many as there are pods.
CheckClusterUp ==
  /\ pc = "cluster_up"
  /\ OrDie(force \/ (ControlAnswers /\ \A n \in Nodes : life[n] = "up"), "classify")
  /\ Still /\ UNCHANGED faults

\* The migration prepares what is in vnodes state, resumes what is being migrated, and
\* dies of what is finished or not readable.
ClassifyForMigration ==
  /\ pc = "classify"
  /\ mode = "migrate"
  /\ LET fresh == {ks \in args : ksState[ks] = "vnodes"} IN
       IF /\ ControlAnswers
          /\ \A ks \in args : ksState[ks] # "tablets"
          /\ force \/ fresh \cap Unmigratable = {}
       THEN pc' = "confirm" /\ todo' = fresh /\ UNCHANGED <<runVars, first_pod, pod>>
       ELSE Exit
  /\ Still /\ UNCHANGED faults

ClassifyForRollback ==
  /\ pc = "classify"
  /\ mode = "rollback"
  /\ OrDie(ControlAnswers /\ args \subseteq InFlight, "confirm")
  /\ Still /\ UNCHANGED faults

Confirm ==
  /\ pc = "confirm"
  /\ Goto(IF todo # {} THEN "prepare" ELSE "next_pod")
  /\ Still /\ UNCHANGED faults

-----------------------------------------------------------------------------
(* Phase 1 *)

Prepare(ks) ==
  /\ pc = "prepare"
  /\ ks \in todo
  /\ IF ControlAnswers /\ MayStart(ks)
     THEN /\ StartMigration(ks)
          /\ pc' = "prepared" /\ todo' = todo \ {ks} /\ UNCHANGED <<runVars, first_pod, pod>>
     ELSE Exit /\ UNCHANGED modeVars
  /\ UNCHANGED <<podVars, disruptions, faults, plain>>

\* The state is read back before the next one is started.
CheckPrepared ==
  /\ pc = "prepared"
  /\ OrDie(ControlAnswers, IF todo # {} THEN "prepare" ELSE "next_pod")
  /\ Still /\ UNCHANGED faults

-----------------------------------------------------------------------------
(* Phase 2, and the same loop of the rollback *)

PodsLeft == pod <= N

\* "already uses tablets, skipping"
SkipDone ==
  /\ pc = "next_pod" /\ mode = "migrate" /\ PodsLeft
  /\ UsesForAll(pod, "tablets")
  /\ pod' = pod + 1
  /\ UNCHANGED <<pc, runVars, first_pod, todo>>
  /\ Still /\ UNCHANGED faults

\* Upgrade of a pod that is not done, or whose status could not be read.
Upgrade ==
  /\ pc = "next_pod" /\ mode = "migrate" /\ PodsLeft
  /\ IF UsesForAll(pod, "tablets") THEN Fault ELSE UNCHANGED faults
  /\ IF ApiUp(pod)
     THEN SetIntended(addr[pod], "tablets") /\ Goto("drain")
     ELSE Exit /\ UNCHANGED modeVars
  /\ UNCHANGED <<podVars, disruptions, plain>>

Downgrade ==
  /\ pc = "next_pod" /\ mode = "rollback" /\ PodsLeft
  /\ IF ApiUp(pod)
     THEN SetIntended(addr[pod], "vnodes") /\ Goto("needs_restart")
     ELSE Exit /\ UNCHANGED modeVars
  /\ UNCHANGED <<podVars, disruptions, faults, plain>>

\* A status that cannot be read asks for no restart.
NeedsRestart ==
  /\ pc = "needs_restart"
  /\ IF \E ks \in args : ReportsMigrating(pod, ks, "vnodes")
     THEN (Goto("drain") /\ UNCHANGED faults) \/ (Goto("wait_state") /\ Fault)
     ELSE Goto("wait_state") /\ UNCHANGED faults
  /\ Still

\* What drain answers is printed and ignored.
DrainPod ==
  /\ pc = "drain"
  /\ \/ Drain(addr[pod]) /\ UNCHANGED faults
     \/ UNCHANGED podVars /\ (IF ApiUp(pod) THEN Fault ELSE UNCHANGED faults)
  /\ Goto("delete")
  /\ UNCHANGED <<modeVars, disruptions, plain>>

\* Whether pods may be deleted at all is found out here.
DeletePodAsked ==
  /\ pc = "delete"
  /\ DeletePod(pod)
  /\ Goto("wait_gone")
  /\ UNCHANGED <<modeVars, disruptions, faults, plain>>

\* kubectl delete returns when the pod is gone, kubectl get succeeds with the next one.
PodRecreated ==
  /\ pc = "wait_gone"
  /\ life[pod] # "terminating"
  /\ Goto("wait_ready")
  /\ Still /\ UNCHANGED faults

\* Mutant: a pod counts as back when its API answers.
AnsweringPod ==
  /\ pc = "wait_ready"
  /\ ApiUp(pod)
  /\ Goto("wait_state")
  /\ Still /\ UNCHANGED faults
\* kubectl wait --for=condition=Ready.
PodReady ==
  /\ pc = "wait_ready"
  /\ life[pod] = "up"
  /\ Goto("wait_state")
  /\ Still /\ UNCHANGED faults

\* Mutant: the pod is ready, which is taken for converted.
NodeReady ==
  /\ pc = "wait_state"
  /\ pc' = "next_pod" /\ pod' = pod + 1 /\ UNCHANGED <<runVars, first_pod, todo>>
  /\ Still /\ UNCHANGED faults
\* wait_node_state, for every keyspace.
NodeConverted ==
  /\ pc = "wait_state"
  /\ UsesForAll(pod, Wanted)
  /\ pc' = "next_pod" /\ pod' = pod + 1 /\ UNCHANGED <<runVars, first_pod, todo>>
  /\ Still /\ UNCHANGED faults

\* -p and -t: too short for a pod that is still on its way, which is a fault, or the pod
\* is in its place and never will be what is waited for.
TimeOut ==
  /\ \/ pc = "wait_gone" /\ life[pod] = "terminating"
     \/ pc = "wait_ready" /\ life[pod] # "up"
     \/ pc = "wait_state" /\ ~UsesForAll(pod, Wanted)
  /\ IF life[pod] \in {"up", "drained"} THEN UNCHANGED faults ELSE Fault
  /\ Exit
  /\ Still

-----------------------------------------------------------------------------
(* Phase 3 *)

\* Only the migration asks again.
LoopDone ==
  /\ pc = "next_pod" /\ ~PodsLeft
  /\ IF mode = "migrate"
     THEN Goto("confirm_final")
     ELSE pc' = "finalize" /\ todo' = args /\ UNCHANGED <<runVars, first_pod, pod>>
  /\ Still /\ UNCHANGED faults

\* Mutant: whatever is in flight is finalized, asked for or not.
ConfirmFinalOfAll ==
  /\ pc = "confirm_final"
  /\ pc' = "finalize" /\ todo' = InFlight /\ UNCHANGED <<runVars, first_pod, pod>>
  /\ Still /\ UNCHANGED faults
ConfirmFinal ==
  /\ pc = "confirm_final"
  /\ pc' = "finalize" /\ todo' = args /\ UNCHANGED <<runVars, first_pod, pod>>
  /\ Still /\ UNCHANGED faults

Finalize(ks) ==
  /\ pc = "finalize"
  /\ ks \in todo
  /\ IF ControlAnswers /\ MayFinalize(ks)
     THEN /\ FinalizeMigration(ks)
          /\ IF FinalMode = Wanted
             THEN pc' = "finalized" /\ todo' = todo \ {ks} /\ UNCHANGED <<runVars, first_pod, pod>>
             ELSE Exit
     ELSE Exit /\ UNCHANGED modeVars
  /\ UNCHANGED <<podVars, disruptions, faults, plain>>

\* The state is read back before the next one is finalized.
CheckFinalized ==
  /\ pc = "finalized"
  /\ IF ControlAnswers /\ todo # {} THEN Goto("finalize") ELSE Exit
  /\ Still /\ UNCHANGED faults

-----------------------------------------------------------------------------
(* Around the script *)

\* Ctrl-C, a refused prompt, a kubectl command that fails, a pod that must not be deleted.
Interrupt ==
  /\ pc # "idle"
  /\ Fault
  /\ Exit
  /\ Still

\* Somebody restarts a node that a dead run left drained.
OperatorRestart(n) ==
  /\ pc = "idle"
  /\ life[n] = "drained"
  /\ DeletePod(n)
  /\ UNCHANGED <<modeVars, disruptions, scriptVars, faults, plain>>

ClusterStep(n) == (NodeStep(n) \/ Disrupt(n)) /\ UNCHANGED <<scriptVars, faults, plain>>

Init ==
  /\ NothingMigrated
  /\ AllServing
  /\ pc = "idle"
  /\ mode = "migrate"
  /\ args = {}
  /\ force = FALSE
  /\ first_pod = 1
  /\ pod = 1
  /\ todo = {}
  /\ faults = 0
  /\ plain = TRUE

ScriptStep ==
  \/ ReadHostIds \/ CheckClusterUp \/ ClassifyForMigration \/ ClassifyForRollback \/ Confirm
  \/ \E ks \in Keyspaces : Prepare(ks) \/ Finalize(ks)
  \/ CheckPrepared \/ SkipDone \/ Upgrade \/ Downgrade \/ NeedsRestart
  \/ DrainPod \/ DeletePodAsked \/ PodRecreated \/ PodReady \/ NodeConverted
  \/ LoopDone \/ ConfirmFinal \/ CheckFinalized

Next ==
  \/ \E m \in {"migrate", "rollback"}, ks \in (SUBSET Keyspaces) \ {{}}, f \in BOOLEAN :
       Launch(m, ks, f)
  \/ ScriptStep \/ TimeOut \/ Interrupt
  \/ \E n \in Nodes : OperatorRestart(n) \/ ClusterStep(n)

Spec == Init /\ [][Next]_vars

-----------------------------------------------------------------------------
\* Types of the cluster and of the script's variables.
TypeOK ==
  /\ ClusterTypeOK
  /\ pc \in Labels
  /\ mode \in {"migrate", "rollback"}
  /\ args \subseteq Keyspaces
  /\ force \in BOOLEAN
  /\ first_pod \in Nodes
  /\ pod \in 1 .. N + 1
  /\ todo \subseteq args
  /\ faults \in 0 .. MaxFaults
  /\ plain \in BOOLEAN

\* A migration is finalized only when every node is on tablets, a rollback only when
\* every node is back and none still marked: whatever status could not be read, which
\* pods restarted unasked after the loop had passed them, and wherever earlier runs of
\* either kind broke off (the loops over the pods, and finalize after them).
FinalizeOnlySettled ==
  pc = "finalize" => \A n \in Nodes : current[n] = Wanted /\ intended[n] = Wanted

\* As long as only migrations without -F have been run and no pod has restarted unasked,
\* each step of the script and the cluster is one that RollingMigration allows: one node
\* out of service at a time, converted only while it is out, nothing finalized before
\* all are ("per node, ONE AT A TIME", over killed and repeated runs).
Rolling ==
  INSTANCE RollingMigration WITH storage <- current, out <- {n \in Nodes : life[n] # "up"}
RollsWhilePlain ==
  Rolling!Init /\ [][plain' /\ disruptions' = 0 => [Rolling!Next]_(Rolling!vars)]_vars
=============================================================================

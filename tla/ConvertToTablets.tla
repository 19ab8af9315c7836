-------------------------- MODULE ConvertToTablets --------------------------
(***************************************************************************)
(* src/sample_app/convert_to_tablets.py: the resumable, in-place migration *)
(* of keyspaces from vnodes to tablets, and its rollback.  One run of the  *)
(* script is one walk of pc from "idle" back to "idle"; all its variables  *)
(* are lost when it ends, so the next run finds its place from the state   *)
(* of the cluster alone.                                                   *)
(*                                                                         *)
(* Every step of pc is one request, one poll, or one read of the cluster   *)
(* that is acted on later, and the cluster moves between any two of them.  *)
(* A run ends early by a Fatal, by a request that nobody answers (main     *)
(* turns both into an exit), or by Interrupt, which stands for Ctrl-C, the *)
(* eviction of the pod the script runs in, and every other exception.      *)
(*                                                                         *)
(* Simplifications: -S (status) changes nothing and is left out; nodes     *)
(* that are joining, leaving or moving are not modelled, so all nodes live *)
(* is what check_cluster_up asks for; a node whose API answers is always   *)
(* found again by refresh_api_host (from its pod or from the host ID map). *)
(*                                                                         *)
(* A definition marked Mutant is a plausible bug in the definition it      *)
(* precedes; no specification uses it.                                     *)
(***************************************************************************)
EXTENDS ScyllaCluster

CONSTANTS
  Unmigratable,   \* keyspaces preflight blocks on
  Commands,       \* what operators ask for: "migrate", "rollback"
  ForceChoices,   \* values of -F operators use
  RestartMode,    \* --restart: "k8s" or "manual"
  MaxFaults,      \* bound: interruptions, impatient timeouts, refusals
  None            \* the address of a node whose API was not found

ASSUME UnmigratableAssumption == Unmigratable \subseteq Keyspaces
ASSUME CommandsAssumption == Commands \subseteq {"migrate", "rollback"}
ASSUME ForceAssumption == ForceChoices \subseteq BOOLEAN
ASSUME RestartAssumption == RestartMode \in {"k8s", "manual"}
ASSUME FaultsAssumption == MaxFaults \in Nat
ASSUME NoneAssumption == None \notin Addresses

VARIABLES
  pc,             \* the next thing the script does
  cmd,            \* which procedure this run carries out
  args,           \* opts.keyspaces
  force,          \* opts.force
  todo,           \* keyspaces the current loop over keyspaces has left
  pos,            \* the node the rolling restart is at
  peer,           \* the node that reports on the one being restarted
  control,        \* the node that answers the cluster-wide calls
  apiHost,        \* node -> address its API is believed to be at
  mayDelete,      \* the Role that lets the ServiceAccount delete pods is there
  faults          \* interruptions, impatient timeouts and refusals, so far

runVars == <<cmd, args, force>>
scriptVars == <<pc, cmd, args, force, todo, pos, peer, control, apiHost>>
envVars == <<mayDelete, faults>>
vars == <<clusterVars, scriptVars, envVars>>

Labels == {"idle", "cluster_up", "capability", "classify", "confirm", "prepare",
           "pick", "mark", "drain", "delete", "wait_down", "wait_up", "wait_mode",
           "unmark", "needs_restart", "confirm_final", "finalize"}

TypeOK ==
  /\ ClusterTypeOK
  /\ pc \in Labels
  /\ cmd \in {"migrate", "rollback"}
  /\ args \subseteq Keyspaces
  /\ force \in BOOLEAN
  /\ todo \subseteq args
  /\ pos \in 1 .. N + 1
  /\ peer \in Nodes
  /\ control \in Nodes
  /\ apiHost \in [Nodes -> Addresses \cup {None}]
  /\ mayDelete \in BOOLEAN
  /\ faults \in 0 .. MaxFaults

-----------------------------------------------------------------------------
(* Helpers of the script *)

Want == IF cmd = "migrate" THEN "tablets" ELSE "vnodes"
FirstNode == IF cmd = "migrate" THEN "pick" ELSE "unmark"

\* Mutant: a node counts as done as soon as it is marked.
MarkedForAll(n, mode) == \A ks \in args : ks \in InFlight /\ intended[n] = mode

\* wait_node_mode's condition, and the "already done" of the migration loop.
UsesForAll(n, mode) == \A ks \in args : Uses(n, ks, mode)

\* Nodes whose API answers where the script believes it to be.
Alive(hosts) == {n \in Nodes : Answers(hosts[n])}
IsFirst(n, S) == n \in S /\ \A m \in S : n <= m

ControlAnswers == Answers(apiHost[control])
PeerAnswers == Answers(apiHost[peer])

\* refresh_api_host: an address that still answers is kept as it is; else the
\* node is looked up again, which finds it when its API answers.
Refreshed(n) ==
  IF Answers(apiHost[n]) THEN apiHost[n]
  ELSE IF ApiUp(n) THEN addr[n] ELSE None

\* Mutant: the API of the node answers, and that is enough.
BackUpByApi(n) == PeerAnswers /\ Refreshed(n) # None

\* node_back_up: CQL is served at the refreshed address, and the peer counts
\* that address as live.
BackUp(n) == PeerAnswers /\ Refreshed(n) \in LiveAddresses

Goto(label) == pc' = label
Stay == UNCHANGED <<clusterVars, envVars>>
Here == UNCHANGED <<runVars, todo, pos, peer, control, apiHost>>

\* Fatal, sys.exit, the normal end: nothing of the run is kept.
Exit ==
  /\ pc' = "idle"
  /\ cmd' = "migrate"
  /\ args' = {}
  /\ force' = FALSE
  /\ todo' = {}
  /\ pos' = 1
  /\ peer' = 1
  /\ control' = 1
  /\ apiHost' = [n \in Nodes |-> None]

-----------------------------------------------------------------------------
(* main: discovery *)

\* Mutant: the first address that answers is taken, whoever answers.
LaunchUnverified(c, ks, f) ==
  /\ pc = "idle"
  /\ \A n \in Nodes : ApiUp(n)
  /\ Goto(IF c = "migrate" THEN "cluster_up" ELSE "classify")
  /\ cmd' = c
  /\ args' = ks
  /\ force' = f
  /\ apiHost' \in [Nodes -> {addr[n] : n \in Nodes}]
  /\ control' = 1
  /\ UNCHANGED <<todo, pos, peer>>
  /\ Stay

\* discover_nodes needs CQL from somebody and the API of every node, each
\* found at an address that reports the host ID of that node.
Discoverable == (\E n \in Nodes : life[n] = "up") /\ \A n \in Nodes : ApiUp(n)

Launch(c, ks, f) ==
  /\ pc = "idle"
  /\ Discoverable
  /\ Goto(IF c = "migrate" THEN "cluster_up" ELSE "classify")
  /\ cmd' = c
  /\ args' = ks
  /\ force' = f
  /\ apiHost' = addr
  /\ control' = 1
  /\ UNCHANGED <<todo, pos, peer>>
  /\ Stay

-----------------------------------------------------------------------------
(* Phase 0: preflight, of the migration and of the rollback *)

\* Mutant: preflight does not look at the nodes.
CheckClusterUpNever ==
  /\ pc = "cluster_up"
  /\ Goto("capability")
  /\ Here
  /\ Stay

CheckClusterUp ==
  /\ pc = "cluster_up"
  /\ IF force \/ (ControlAnswers /\ \A n \in Nodes : life[n] = "up")
       THEN Goto("capability") /\ Here
       ELSE Exit
  /\ Stay

\* Mutant: a missing Role is found out when the first pod is deleted.
CheckRestartCapabilityNever ==
  /\ pc = "capability"
  /\ Goto(IF cmd = "migrate" THEN "classify" ELSE "confirm")
  /\ Here
  /\ Stay

CheckRestartCapability ==
  /\ pc = "capability"
  /\ IF RestartMode = "manual" \/ mayDelete
       THEN Goto(IF cmd = "migrate" THEN "classify" ELSE "confirm") /\ Here
       ELSE Exit
  /\ Stay

\* Mutant: what preflight says is printed and forgotten.
ClassifyWithoutPreflight ==
  /\ pc = "classify"
  /\ cmd = "migrate"
  /\ IF ControlAnswers /\ \A ks \in args : ksState[ks] # "tablets"
       THEN /\ Goto("confirm")
            /\ todo' = {ks \in args : ksState[ks] = "vnodes"}
            /\ UNCHANGED <<runVars, pos, peer, control, apiHost>>
       ELSE Exit
  /\ Stay

\* Mutant: only keyspaces nobody has started can be migrated.
ClassifyWithoutResume ==
  /\ pc = "classify"
  /\ cmd = "migrate"
  /\ IF ControlAnswers /\ \A ks \in args : ksState[ks] = "vnodes"
       THEN /\ Goto("confirm")
            /\ todo' = args
            /\ UNCHANGED <<runVars, pos, peer, control, apiHost>>
       ELSE Exit
  /\ Stay

\* What the migration does with the keyspaces it is given: those in vnodes
\* state go through preflight and are to be prepared, those being migrated
\* are resumed, a finished one ends the run.
ClassifyForMigration ==
  /\ pc = "classify"
  /\ cmd = "migrate"
  /\ LET fresh == {ks \in args : ksState[ks] = "vnodes"} IN
       IF /\ ControlAnswers
          /\ \A ks \in args : ksState[ks] # "tablets"
          /\ force \/ fresh \cap Unmigratable = {}
         THEN /\ Goto("confirm")
              /\ todo' = fresh
              /\ UNCHANGED <<runVars, pos, peer, control, apiHost>>
         ELSE Exit
  /\ Stay

ClassifyForRollback ==
  /\ pc = "classify"
  /\ cmd = "rollback"
  /\ IF ControlAnswers /\ args \subseteq InFlight
       THEN Goto("capability") /\ Here
       ELSE Exit
  /\ Stay

Accept ==
  /\ pc = "confirm"
  /\ Goto(IF todo # {} THEN "prepare" ELSE FirstNode)
  /\ Here
  /\ Stay

-----------------------------------------------------------------------------
(* Phase 1: prepare.  The keyspaces come in the order of the command line,  *)
(* which is any order.                                                      *)

Prepare(ks) ==
  /\ pc = "prepare"
  /\ ks \in todo
  /\ IF ControlAnswers /\ MayStart(ks)
       THEN /\ StartMigration(ks)
            /\ todo' = todo \ {ks}
            /\ Goto(IF todo' = {} THEN "pick" ELSE "prepare")
            /\ UNCHANGED <<runVars, pos, peer, control, apiHost>>
       ELSE Exit /\ UNCHANGED modeVars
  /\ UNCHANGED <<podVars, disruptions, envVars>>

-----------------------------------------------------------------------------
(* Phase 2: one node at a time *)

\* Mutant: the loop runs once too often.
PickPeerOnceMore(p) ==
  /\ pc = "pick"
  /\ IsFirst(p, Alive(apiHost) \ {pos})
  /\ IF pos > N \/ UsesForAll(pos, "tablets")
       THEN pos' = pos + 1 /\ Goto("pick")
       ELSE pos' = pos /\ Goto("mark")
  /\ peer' = p
  /\ UNCHANGED <<runVars, todo, control, apiHost>>
  /\ Stay

\* Mutant: every run restarts every node.
PickPeerAlwaysMark(p) ==
  /\ pc = "pick"
  /\ pos <= N
  /\ IsFirst(p, Alive(apiHost) \ {pos})
  /\ Goto("mark")
  /\ peer' = p
  /\ UNCHANGED <<runVars, todo, pos, control, apiHost>>
  /\ Stay

\* No peer at all ends the run; a node that is done is skipped.
PickPeer(p) ==
  /\ pc = "pick"
  /\ pos <= N
  /\ IsFirst(p, Alive(apiHost) \ {pos})
  /\ IF UsesForAll(pos, "tablets")
       THEN pos' = pos + 1 /\ Goto("pick")
       ELSE pos' = pos /\ Goto("mark")
  /\ peer' = p
  /\ UNCHANGED <<runVars, todo, control, apiHost>>
  /\ Stay

NoPeer ==
  /\ pc = "pick"
  /\ pos <= N
  /\ Alive(apiHost) \ {pos} = {}
  /\ Exit
  /\ Stay

Mark ==
  /\ pc = "mark"
  /\ IF Answers(apiHost[pos])
       THEN SetIntended(apiHost[pos], "tablets") /\ Goto("drain") /\ Here
       ELSE Exit /\ UNCHANGED modeVars
  /\ UNCHANGED <<podVars, disruptions, envVars>>

\* Mutant: a node still in vnodes mode is passed over, mark and all.
UnmarkConvertedOnly(p) ==
  /\ pc = "unmark"
  /\ pos <= N
  /\ IsFirst(p, Alive(apiHost) \ {pos})
  /\ peer' = p
  /\ IF current[pos] = "vnodes"
       THEN pos' = pos + 1 /\ Goto("unmark") /\ UNCHANGED modeVars
       ELSE pos' = pos /\ Goto("needs_restart") /\ SetIntended(apiHost[pos], "vnodes")
  /\ UNCHANGED <<runVars, todo, control, apiHost>>
  /\ UNCHANGED <<podVars, disruptions, envVars>>

\* The rollback marks first and asks afterwards whether the node has to
\* restart; without another live node it asks the one it started with.
Unmark(p) ==
  /\ pc = "unmark"
  /\ pos <= N
  /\ IF Alive(apiHost) \ {pos} # {} THEN IsFirst(p, Alive(apiHost) \ {pos})
                                    ELSE p = control
  /\ IF Answers(apiHost[pos])
       THEN /\ SetIntended(apiHost[pos], "vnodes")
            /\ Goto("needs_restart")
            /\ peer' = p
            /\ UNCHANGED <<runVars, todo, pos, control, apiHost>>
       ELSE Exit /\ UNCHANGED modeVars
  /\ UNCHANGED <<podVars, disruptions, envVars>>

\* Mutant: clearing the mark is taken to be all a rollback needs.
NeedsRestartNever ==
  /\ pc = "needs_restart"
  /\ Goto("wait_mode")
  /\ Here
  /\ Stay

NeedsRestart ==
  /\ pc = "needs_restart"
  /\ IF PeerAnswers
       THEN /\ Goto(IF \E ks \in args : MigratingTo(pos, ks, "vnodes")
                      THEN "drain" ELSE "wait_mode")
            /\ Here
       ELSE Exit
  /\ Stay

-----------------------------------------------------------------------------
(* restart_node *)

\* An error of the drain is reported and ignored: the node may serve on.
DrainNode ==
  /\ pc = "drain"
  /\ Drain(apiHost[pos]) \/ UNCHANGED podVars
  /\ Goto(IF RestartMode = "k8s" THEN "delete" ELSE "wait_down")
  /\ Here
  /\ UNCHANGED <<modeVars, disruptions, envVars>>

DeleteNodePod ==
  /\ pc = "delete"
  /\ IF mayDelete
       THEN DeletePod(pos) /\ Goto("wait_down") /\ Here
       ELSE Exit /\ UNCHANGED podVars
  /\ UNCHANGED <<modeVars, disruptions, envVars>>

SeenDown ==
  /\ pc = "wait_down"
  /\ ~Answers(apiHost[pos])
  /\ Goto("wait_up")
  /\ Here
  /\ Stay

\* One poll of node_back_up; the refreshed address is kept either way.
PollBackUp ==
  /\ pc = "wait_up"
  /\ apiHost' = [apiHost EXCEPT ![pos] = Refreshed(pos)]
  /\ Goto(IF BackUp(pos) THEN "wait_mode" ELSE "wait_up")
  /\ UNCHANGED <<runVars, todo, pos, peer, control>>
  /\ Stay

\* Mutant: a wait that timed out counts as one that succeeded.
PollModeGivesUp ==
  /\ pc = "wait_mode"
  /\ pos' = pos + 1
  /\ Goto(FirstNode)
  /\ UNCHANGED <<runVars, todo, peer, control, apiHost>>
  /\ Stay

\* One poll of wait_node_mode, which does not survive a silent peer.
PollMode ==
  /\ pc = "wait_mode"
  /\ IF ~PeerAnswers
       THEN Exit
       ELSE /\ UsesForAll(pos, Want)
            /\ pos' = pos + 1
            /\ Goto(FirstNode)
            /\ UNCHANGED <<runVars, todo, peer, control, apiHost>>
  /\ Stay

\* The deadline of one of the three waits passes while its condition is
\* false: either the node would still have moved on (an impatient timeout,
\* which is a fault), or it is past the restart and never will.
StillWaiting ==
  \/ pc = "wait_down" /\ Answers(apiHost[pos])
  \/ pc = "wait_up" /\ ~BackUp(pos)
  \/ pc = "wait_mode" /\ PeerAnswers /\ ~UsesForAll(pos, Want)
Settled(n) == life[n] = "up" \/ (life[n] = "drained" /\ RestartMode = "k8s")

TimeOut ==
  /\ StillWaiting
  /\ IF Settled(pos)
       THEN faults' = faults
       ELSE faults < MaxFaults /\ faults' = faults + 1
  /\ Exit
  /\ UNCHANGED <<clusterVars, mayDelete>>

-----------------------------------------------------------------------------
(* Phase 3: finalize, the migration or the rollback *)

\* Both loops over the nodes have ended.  Only the migration asks again.
LoopDone ==
  /\ pc \in {"pick", "unmark"}
  /\ pos = N + 1
  /\ IF cmd = "migrate"
       THEN Goto("confirm_final") /\ Here
       ELSE /\ Goto("finalize")
            /\ todo' = args
            /\ control' \in Nodes
            /\ IF Alive(apiHost) # {} THEN IsFirst(control', Alive(apiHost))
                                      ELSE control' = control
            /\ UNCHANGED <<runVars, pos, peer, apiHost>>
  /\ Stay

AcceptFinal ==
  /\ pc = "confirm_final"
  /\ Goto("finalize")
  /\ todo' = args
  /\ control' \in Nodes
  /\ IF Alive(apiHost) # {} THEN IsFirst(control', Alive(apiHost))
                            ELSE control' = control
  /\ UNCHANGED <<runVars, pos, peer, apiHost>>
  /\ Stay

\* The request, and the check that the keyspace ended up where it should.
Finalize(ks) ==
  /\ pc = "finalize"
  /\ ks \in todo
  /\ IF ControlAnswers /\ MayFinalize(ks)
       THEN /\ FinalizeMigration(ks)
            /\ IF FinalMode # Want \/ todo = {ks}
                 THEN Exit
                 ELSE /\ Goto("finalize")
                      /\ todo' = todo \ {ks}
                      /\ UNCHANGED <<runVars, pos, peer, control, apiHost>>
       ELSE Exit /\ UNCHANGED modeVars
  /\ UNCHANGED <<podVars, disruptions, envVars>>

-----------------------------------------------------------------------------
(* The world around the script *)

Fault == faults < MaxFaults /\ faults' = faults + 1

\* Killed, evicted, refused at a prompt, failed on an exception.
Interrupt ==
  /\ pc # "idle"
  /\ Fault
  /\ Exit
  /\ UNCHANGED <<clusterVars, mayDelete>>

GrantAccess ==
  /\ ~mayDelete
  /\ mayDelete' = TRUE
  /\ UNCHANGED <<clusterVars, scriptVars, faults>>

RevokeAccess ==
  /\ mayDelete
  /\ Fault
  /\ mayDelete' = FALSE
  /\ UNCHANGED <<clusterVars, scriptVars>>

\* The restart --restart manual asks for, drained or not; also the repair of
\* a node a dead run left drained.
AskedToRestart(n) ==
  /\ RestartMode = "manual" /\ pc = "wait_down" /\ n = pos
  /\ life[n] = "up" /\ current[n] # intended[n]

OperatorRestart(n) ==
  /\ \/ life[n] = "drained" /\ (RestartMode = "manual" \/ pc = "idle")
     \/ AskedToRestart(n)
  /\ DeletePod(n)
  /\ UNCHANGED <<modeVars, disruptions, scriptVars, envVars>>

ClusterStep(n) == (NodeStep(n) \/ Disrupt(n)) /\ UNCHANGED <<scriptVars, envVars>>

NoRun ==
  /\ pc = "idle"
  /\ cmd = "migrate"
  /\ args = {}
  /\ force = FALSE
  /\ todo = {}
  /\ pos = 1
  /\ peer = 1
  /\ control = 1
  /\ apiHost = [n \in Nodes |-> None]

Init ==
  /\ NothingMigrated
  /\ AllServing
  /\ NoRun
  /\ mayDelete \in BOOLEAN
  /\ faults = 0

ScriptStep ==
  \/ CheckClusterUp
  \/ CheckRestartCapability
  \/ ClassifyForMigration
  \/ ClassifyForRollback
  \/ Accept
  \/ \E ks \in Keyspaces : Prepare(ks)
  \/ \E p \in Nodes : PickPeer(p)
  \/ NoPeer
  \/ Mark
  \/ \E p \in Nodes : Unmark(p)
  \/ NeedsRestart
  \/ DrainNode
  \/ DeleteNodePod
  \/ SeenDown
  \/ PollBackUp
  \/ PollMode
  \/ LoopDone
  \/ AcceptFinal
  \/ \E ks \in Keyspaces : Finalize(ks)

Next ==
  \/ \E c \in Commands, ks \in (SUBSET Keyspaces) \ {{}}, f \in ForceChoices :
       Launch(c, ks, f)
  \/ ScriptStep
  \/ TimeOut
  \/ Interrupt
  \/ GrantAccess
  \/ RevokeAccess
  \/ \E n \in Nodes : OperatorRestart(n)
  \/ \E n \in Nodes : ClusterStep(n)

Spec == Init /\ [][Next]_vars

-----------------------------------------------------------------------------
(* Safety *)

\* A migration is finalized only when every node reports that it uses
\* tablets, whatever was interrupted, forced, disrupted or restarted since the
\* run looked at the node (the loop of phase 2 looks at each one once).
FinalizeOnlyConverted ==
  pc = "finalize" /\ cmd = "migrate" =>
    \A n \in Nodes : current[n] = "tablets" /\ intended[n] = "tablets"

\* The same of a rollback: when it finalizes, no node has tablet storage left
\* and none is still marked to build it at its next start.
RollbackOnlyReverted ==
  pc = "finalize" /\ cmd = "rollback" =>
    \A n \in Nodes : current[n] = "vnodes" /\ intended[n] = "vnodes"

\* No sequence of runs leaves a node marked for tablets with no migration in
\* flight: that mark would block every later migration until the node is
\* replaced (comment on "Another migration is in progress").
NoStaleMark == InFlight = {} => \A n \in Nodes : intended[n] = "vnodes"

\* Marking is done for one node at a time, over any sequence of interrupted
\* runs: an unexpected restart elsewhere could otherwise upgrade two nodes at
\* once (comment above set_storage_mode in migrate).
Marked == {n \in Nodes : current[n] = "vnodes" /\ intended[n] = "tablets"}
OneMarkAtATime == \A m, n \in Marked : m = n

\* "upgrade - per node, ONE AT A TIME", and "every node must be up before
\* starting, and stay up during the migration": at most one node is out of
\* service, across interruptions, timeouts and re-runs.
Out == {n \in Nodes : life[n] # "up"}
OneNodeOut == \A m, n \in Out : m = n

\* A request that marks or drains a node reaches that node and no other,
\* although pods change their addresses and Kubernetes hands the old ones out
\* again (resolve_api_host: "silently making us act on the wrong node").
RequestsReachTheirNode ==
  pc \in {"mark", "unmark", "drain"} /\ pos <= N =>
    \A n \in Nodes : AnswersAt(n, apiHost[pos]) => n = pos

\* No run that goes undisturbed ends with a node drained and nobody about to
\* restart it ("a node that has been drained and cannot be restarted is a
\* node that is down").
NoAbandonedDrain ==
  pc = "idle" /\ faults = 0 /\ disruptions = 0 => \A n \in Nodes : life[n] # "drained"

\* A rollback that reports success leaves no node drained: "a node that had
\* already upgraded its storage needs a restart to come back to vnodes; one
\* that only had the flag set goes straight back" (comment in rollback).
RollbackLeavesNodesServing ==
  pc = "finalize" /\ cmd = "rollback" /\ disruptions = 0 =>
    \A n \in Nodes : life[n] # "drained"

\* A resumed migration never takes a node out of service that already uses
\* tablets.
ConvertedNodeTakenOut ==
  \E n \in Nodes : /\ life[n] = "up" /\ life'[n] = "drained"
                   /\ current[n] = "tablets" /\ intended[n] = "tablets"
NoNeedlessRestart == [][~ConvertedNodeTakenOut]_vars

\* A keyspace preflight blocks on is prepared only under -F.
PreparesOnlyMigratable ==
  [][\A ks \in Unmigratable : ksState'[ks] # ksState[ks] /\ ksState[ks] = "vnodes" => force]_vars

\* The migration, over a cluster in which nothing restarts unasked and with no rollback
\* ever asked for, implements RollingMigration ("per node, ONE AT A TIME"; migrate).
Rolling == INSTANCE RollingMigration WITH storage <- current, out <- Out
ImplementsRolling == Rolling!Spec
=============================================================================

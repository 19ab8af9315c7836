----------------------- MODULE RollingMigration_proofs -----------------------
(***************************************************************************)
(* Migrations by themselves, started without -F, over a cluster in which   *)
(* nothing restarts unasked, take one node at a time: convert_to_tablets   *)
(* implements RollingMigration, for every number of nodes, every set of    *)
(* keyspaces and addresses, and any number of interruptions, timeouts and  *)
(* refusals.                                                               *)
(***************************************************************************)
EXTENDS ConvertToTablets_proofs

PlainMigrations ==
  /\ Commands = {"migrate"}
  /\ ForceChoices = {FALSE}
  /\ RestartMode = "k8s"
  /\ MaxDisruptions = 0

-----------------------------------------------------------------------------
(* The inductive invariant, on top of IInv *)

\* Labels between the check of the cluster and the drain: everything serves.
Serving == {"capability", "classify", "confirm", "prepare", "pick", "mark", "drain",
            "wait_mode", "confirm_final", "finalize"}

PlainInv ==
  /\ cmd = "migrate" /\ force = FALSE
  /\ pc \in {"idle", "cluster_up"} \cup Serving \cup Restarting

\* Nodes are marked and converted in the order of the loop, over all runs so far.
OrderInv ==
  /\ \A n \in Nodes : current[n] = "tablets" => intended[n] = "tablets"
  /\ \A m, n \in Nodes : m < n /\ intended[n] = "tablets" => Settles(m, "tablets")
  /\ pc \in {"mark", "drain"} => current[pos] = "vnodes"
  /\ pc \in {"drain", "delete"} => intended[pos] = "tablets"

\* A node that is out of service is the only one and has been marked.
ServingInv ==
  /\ OneNodeOut
  /\ pc \in Serving => AllUp
  /\ pc \in Restarting => OnlyOut(pos)
  /\ \A n \in Out : intended[n] = "tablets" /\ InFlight # {}

\* The pod of n has moved since the run began, and nobody has its old address.
Moved(n) == intended[n] = "tablets" /\ \A m \in Nodes : addr[m] # apiHost[n]

\* The run knows the addresses of the nodes it has yet to come to.  It may have lost
\* one: that of a node which an earlier run had taken out, and which will be skipped.
HostInv ==
  /\ pc = "cluster_up" => \A n \in Out : \A m \in Nodes \ {n} : apiHost[m] = addr[m]
  /\ pc \in {"cluster_up", "capability", "classify", "confirm", "prepare", "pick", "mark"} =>
       \A n \in Nodes : n >= pos => apiHost[n] = addr[n] \/ Moved(n)
  /\ pc \in {"drain", "wait_mode"} \cup Restarting =>
       \A n \in Nodes : n > pos => apiHost[n] = addr[n]
  /\ pc = "drain" => apiHost[pos] = addr[pos]
  /\ pc \in Restarting => \A m \in Nodes \ {pos} : addr[m] # apiHost[pos]

RollInv == PlainInv /\ OrderInv /\ ServingInv /\ AddrInv /\ HostInv

-----------------------------------------------------------------------------
(* What the abstract migration makes of a step *)

Rolls == [Rolling!Next]_(Rolling!vars)

\* A step that takes no node out of service, brings none back and converts none.
LEMMA Stutters ==
  ASSUME UNCHANGED <<ksState, current>>, \A n \in Nodes : life'[n] = "up" <=> life[n] = "up"
  PROVE  Rolls
  BY DEF Rolls, Rolling!vars, Out

\* Everything serves, and one node stops doing so.
LEMMA Leaves ==
  ASSUME NEW n \in Nodes, UNCHANGED <<ksState, current>>, AllUp, life'[n] # "up",
         \A m \in Nodes \ {n} : life'[m] = "up"
  PROVE  Rolls
<1>1. Out = {} /\ Out' = {n}
  BY DEF AllUp, Out
<1>2. Rolling!Leave(n)
  BY <1>1 DEF Rolling!Leave
<1> QED BY <1>2 DEF Rolls, Rolling!Next

-----------------------------------------------------------------------------
(* Steps that leave the cluster alone *)

\* What such a step owes to its next label.
LEMMA StillRolls ==
  ASSUME RollInv, UNCHANGED clusterVars, PlainInv', HostInv',
         pc' \in {"mark", "drain"} => current[pos'] = "vnodes",
         pc' \in {"drain", "delete"} => intended[pos'] = "tablets",
         pc' \in Serving => AllUp,
         pc' \in Restarting => OnlyOut(pos')
  PROVE  RollInv' /\ Rolls
<1>1. Rolls
  BY Stutters DEF clusterVars
<1>2. OrderInv'
  BY DEF RollInv, OrderInv, Settles, clusterVars
<1>3. ServingInv'
  BY DEF RollInv, ServingInv, OneNodeOut, Out, AllUp, OnlyOut, InFlight, clusterVars
<1>4. AddrInv'
  BY DEF RollInv, AddrInv, clusterVars
<1> QED BY <1>1, <1>2, <1>3, <1>4 DEF RollInv

\* The end of a run, whatever it leaves.
LEMMA ExitRolls ==
  ASSUME RollInv, Exit, UNCHANGED clusterVars
  PROVE  RollInv' /\ Rolls
<1>1. PlainInv' /\ HostInv'
  BY DEF Exit, PlainInv, HostInv, Restarting
<1>2. pc' = "idle"
  BY DEF Exit
<1> QED BY <1>1, <1>2, StillRolls DEF Serving, Restarting

\* From label to label while everything serves and the loop does not move.
BeforeMark == {"capability", "classify", "confirm", "prepare", "pick"}
LEMMA OnwardRolls ==
  ASSUME RollInv, UNCHANGED <<clusterVars, apiHost, pos, cmd, force>>, AllUp,
         \/ pc \in {"cluster_up"} \cup BeforeMark /\ pc' \in BeforeMark
         \/ pc' \in {"confirm_final", "finalize"}
  PROVE  RollInv' /\ Rolls
<1>1. PlainInv'
  BY DEF RollInv, PlainInv, BeforeMark, Serving
<1>2. HostInv'
  <2>1. \A n \in Nodes : Moved(n) => Moved(n)'
    BY DEF Moved, clusterVars
  <2> QED BY <2>1 DEF RollInv, HostInv, BeforeMark, Restarting, clusterVars
<1>3. pc' \notin {"mark", "drain", "delete"} \cup Restarting
  BY DEF BeforeMark, Restarting
<1> QED BY <1>1, <1>2, <1>3, StillRolls

LEMMA ServesThere ==
  ASSUME RollInv, pc \in Serving
  PROVE  AllUp
  BY DEF RollInv, ServingInv

LEMMA PreflightRolls ==
  ASSUME PlainMigrations, IInv, RollInv, Preflight
  PROVE  RollInv' /\ Rolls
<1> USE DEF Here, runVars, Goto, Stay
<1>1. CASE CheckClusterUp
  <2>1. CASE Exit
    BY <1>1, <2>1, ExitRolls DEF CheckClusterUp
  <2>2. CASE pc' = "capability" /\ Here /\ AllUp
    BY <1>1, <2>2, OnwardRolls DEF CheckClusterUp, BeforeMark
  <2> QED BY <1>1, <2>1, <2>2 DEF CheckClusterUp, RollInv, PlainInv, AllUp
<1>2. CASE CheckRestartCapability
  <2>1. AllUp /\ cmd = "migrate"
    BY <1>2, ServesThere DEF CheckRestartCapability, Serving, RollInv, PlainInv
  <2>2. CASE Exit
    BY <1>2, <2>2, ExitRolls DEF CheckRestartCapability
  <2>3. CASE pc' = "classify" /\ Here
    BY <1>2, <2>1, <2>3, OnwardRolls DEF CheckRestartCapability, BeforeMark
  <2> QED BY <1>2, <2>1, <2>2, <2>3 DEF CheckRestartCapability
<1>3. CASE ClassifyForMigration
  <2>1. AllUp
    BY <1>3, ServesThere DEF ClassifyForMigration, Serving
  <2>2. CASE Exit
    BY <1>3, <2>2, ExitRolls DEF ClassifyForMigration
  <2>3. CASE pc' = "confirm" /\ UNCHANGED <<runVars, pos, peer, control, apiHost>>
    BY <1>3, <2>1, <2>3, OnwardRolls DEF ClassifyForMigration, BeforeMark
  <2> QED BY <1>3, <2>2, <2>3 DEF ClassifyForMigration
<1>4. CASE ClassifyForRollback
  BY <1>4 DEF ClassifyForRollback, RollInv, PlainInv
<1>5. CASE Accept
  <2>1. AllUp /\ pc' \in {"prepare", "pick"}
    BY <1>5, ServesThere DEF Accept, Serving, FirstNode, RollInv, PlainInv
  <2> QED BY <1>5, <2>1, OnwardRolls DEF Accept, BeforeMark
<1>6. ASSUME NEW ks \in Keyspaces, Prepare(ks) PROVE RollInv' /\ Rolls
  <2>1. AllUp /\ pc = "prepare"
    BY <1>6, ServesThere DEF Prepare, Serving
  <2>2. CASE Exit /\ UNCHANGED modeVars
    BY <1>6, <2>2, ExitRolls DEF Prepare, clusterVars, podVars, modeVars
  <2>3. CASE /\ MayStart(ks) /\ StartMigration(ks) /\ pc' \in {"pick", "prepare"}
             /\ UNCHANGED <<runVars, pos, peer, control, apiHost>>
    <3>1. UNCHANGED <<current, intended, life, addr>>
      BY <1>6, <2>3 DEF StartMigration, Prepare, podVars
    <3>2. PlainInv'
      BY <2>3 DEF RollInv, PlainInv, Serving
    <3>3. OrderInv'
      BY <2>3, <3>1 DEF RollInv, OrderInv, Settles
    <3>4. ServingInv' /\ AddrInv'
      BY <2>1, <2>3, <3>1
        DEF RollInv, ServingInv, OneNodeOut, Out, AllUp, AddrInv, Restarting
    <3>5. HostInv'
      <4>1. \A n \in Nodes : Moved(n) => Moved(n)'
        BY <2>3, <3>1 DEF Moved
      <4> QED BY <2>1, <2>3, <3>1, <4>1 DEF RollInv, HostInv, Restarting
    <3>6. \A n \in Nodes : current[n] = "vnodes"
      BY <2>3 DEF MayStart, RollInv, OrderInv, IInv, TypeOK, ClusterTypeOK, Modes
    <3>7. Rolling!Begin(ks)
      BY <2>3, <3>1, <3>6 DEF Rolling!Begin, MayStart, StartMigration, Out
    <3> QED BY <3>2, <3>3, <3>4, <3>5, <3>7 DEF Rolls, Rolling!Next, RollInv
  <2> QED BY <1>6, <2>2, <2>3 DEF Prepare
<1> QED BY <1>1, <1>2, <1>3, <1>4, <1>5, <1>6 DEF Preflight

-----------------------------------------------------------------------------
(* The loop over the nodes *)

\* With its keyspaces in flight the loop skips a node that has converted.
LEMMA SettledUses ==
  ASSUME args \subseteq InFlight, NEW n \in Nodes, Settles(n, "tablets")
  PROVE  UsesForAll(n, "tablets")
  BY DEF UsesForAll, Uses, Settles

\* The node of the loop is marked for tablets, by a request that reaches it.
LEMMA MarkRolls ==
  ASSUME IInv, RollInv, Mark
  PROVE  RollInv' /\ Rolls
<1> USE DEF Here, runVars, Goto
<1>1. pos \in Nodes /\ AllUp /\ pc = "mark" /\ current[pos] = "vnodes"
  BY PosIsNode, ServesThere DEF Mark, PerNode, Serving, RollInv, OrderInv
<1>2. CASE Exit /\ UNCHANGED modeVars
  BY <1>2, ExitRolls DEF Mark, clusterVars, podVars, modeVars
<1>3. CASE Answers(apiHost[pos]) /\ SetIntended(apiHost[pos], "tablets") /\ Goto("drain") /\ Here
  <2>1. apiHost[pos] = addr[pos]
    <3>1. pos \in Nat
      BY <1>1 DEF Nodes
    <3>2. apiHost[pos] = addr[pos] \/ Moved(pos)
      BY <1>1, <3>1 DEF RollInv, HostInv
    <3> QED BY <1>3, <3>2 DEF Moved, Answers, AnswersAt
  <2>2. intended' = [intended EXCEPT ![pos] = "tablets"]
    BY <1>1, <1>3, <2>1
      DEF SetIntended, AnswersAt, ApiUp, AllUp, RollInv, AddrInv, IInv, TypeOK, ClusterTypeOK
  <2>3. UNCHANGED <<ksState, current, life, addr>>
    BY <1>3 DEF SetIntended, Mark, podVars
  <2>4. \A n \in Nodes : n > pos => intended[n] # "tablets"
    BY <1>1 DEF RollInv, OrderInv, Settles, Nodes
  <2>5. intended'[pos] = "tablets" /\ \A n \in Nodes \ {pos} : intended'[n] = intended[n]
    BY <1>1, <2>2 DEF IInv, TypeOK, ClusterTypeOK
  <2>6. OrderInv'
    <3>1. \A n \in Nodes : current'[n] = "tablets" => intended'[n] = "tablets"
      BY <2>3, <2>5 DEF RollInv, OrderInv
    <3>2. ASSUME NEW m \in Nodes, NEW n \in Nodes, m < n, intended'[n] = "tablets"
          PROVE  Settles(m, "tablets")'
      <4>1. CASE n = pos
        <5>1. Settles(m, "tablets")
          BY <1>1, <3>2, <4>1
            DEF IInv, PassedInv, LoopLabels, PerNode, Want, RollInv, PlainInv
        <5> QED BY <2>3, <2>5, <5>1 DEF Settles
      <4>2. CASE n # pos
        <5>1. Settles(m, "tablets")
          BY <2>5, <3>2, <4>2 DEF RollInv, OrderInv
        <5> QED BY <2>3, <2>5, <5>1 DEF Settles
      <4> QED BY <4>1, <4>2
    <3> QED BY <1>1, <1>3, <2>3, <2>5, <3>1, <3>2 DEF OrderInv
  <2>7. ServingInv' /\ AddrInv'
    BY <1>1, <1>3, <2>3 DEF RollInv, ServingInv, OneNodeOut, Out, AllUp, AddrInv, Restarting
  <2>8. HostInv'
    <3>1. \A n \in Nodes : n > pos => apiHost[n] = addr[n]
      BY <1>1, <2>4 DEF RollInv, HostInv, Moved, Nodes
    <3> QED BY <1>3, <2>1, <2>3, <3>1 DEF HostInv, Restarting
  <2>9. PlainInv'
    BY <1>3 DEF RollInv, PlainInv, Serving
  <2> QED BY <2>3, <2>6, <2>7, <2>8, <2>9, Stutters DEF RollInv
<1> QED BY <1>2, <1>3 DEF Mark

LEMMA DrainRolls ==
  ASSUME PlainMigrations, IInv, RollInv, DrainNode
  PROVE  RollInv' /\ Rolls
<1> USE DEF Here, runVars, Goto
<1>1. /\ pos \in Nodes /\ AllUp /\ pc = "drain" /\ pc' = "delete" /\ Here /\ UNCHANGED modeVars
      /\ apiHost[pos] = addr[pos] /\ intended[pos] = "tablets"
  BY PosIsNode, ServesThere
    DEF DrainNode, PerNode, Serving, RollInv, HostInv, OrderInv, PlainMigrations
<1>2. InFlight # {} /\ InFlight' = InFlight
  BY <1>1 DEF IInv, FlightInv, LoopInv, LoopLabels, PerNode, modeVars, InFlight
<1>3. /\ UNCHANGED addr /\ \A m \in Nodes \ {pos} : life'[m] = "up"
      /\ \/ life'[pos] = "drained"
         \/ life' = life
  <2>1. CASE Drain(apiHost[pos])
    BY <1>1, <2>1 DEF Drain, AnswersAt, ApiUp, AllUp, RollInv, AddrInv
  <2>2. CASE UNCHANGED podVars
    BY <1>1, <2>2 DEF podVars, AllUp
  <2> QED BY <2>1, <2>2 DEF DrainNode
<1>4. Rolls
  BY <1>1, <1>3, Leaves, Stutters DEF modeVars
<1>5. PlainInv' /\ OrderInv' /\ AddrInv'
  BY <1>1, <1>3 DEF RollInv, PlainInv, Restarting, OrderInv, Settles, modeVars, AddrInv
<1>6. ServingInv'
  <2>1. \A n \in Out' : n = pos
    BY <1>3 DEF Out
  <2> QED BY <1>1, <1>2, <1>3, <2>1 DEF ServingInv, OneNodeOut, OnlyOut, Serving, modeVars
<1>7. HostInv'
  <2>1. \A m \in Nodes \ {pos} : addr[m] # apiHost[pos]
    BY <1>1 DEF RollInv, AddrInv
  <2> QED BY <1>1, <1>3, <2>1 DEF RollInv, HostInv, Restarting
<1> QED BY <1>4, <1>5, <1>6, <1>7 DEF RollInv

LEMMA DeleteRolls ==
  ASSUME IInv, RollInv, DeleteNodePod
  PROVE  RollInv' /\ Rolls
<1> USE DEF Here, runVars, Goto
<1>1. /\ pos \in Nodes /\ pc = "delete" /\ UNCHANGED modeVars /\ OnlyOut(pos)
      /\ intended[pos] = "tablets"
  BY PosIsNode DEF DeleteNodePod, PerNode, RollInv, OrderInv, ServingInv, Restarting
<1>2. CASE Exit /\ UNCHANGED podVars
  BY <1>2, ExitRolls DEF DeleteNodePod, clusterVars, podVars, modeVars
<1>3. CASE DeletePod(pos) /\ Goto("wait_down") /\ Here
  <2>1. /\ UNCHANGED addr /\ life'[pos] # "up"
        /\ \A m \in Nodes \ {pos} : life'[m] = life[m] /\ life'[m] = "up"
    BY <1>1, <1>3 DEF DeletePod, OnlyOut, IInv, TypeOK, ClusterTypeOK
  <2>2. Rolls
    <3>1. CASE life[pos] = "up"
      <4>1. AllUp
        BY <1>1, <3>1 DEF AllUp, OnlyOut
      <4> QED BY <1>1, <2>1, <4>1, Leaves DEF modeVars
    <3>2. CASE life[pos] # "up"
      BY <1>1, <2>1, <3>2, Stutters DEF modeVars
    <3> QED BY <3>1, <3>2
  <2>3. PlainInv' /\ OrderInv' /\ AddrInv' /\ HostInv'
    BY <1>1, <1>3, <2>1
      DEF RollInv, PlainInv, Restarting, OrderInv, Settles, modeVars, AddrInv, HostInv
  <2>4. ServingInv'
    <3>1. InFlight' # {}
      BY <1>1 DEF IInv, FlightInv, LoopInv, LoopLabels, PerNode, modeVars, InFlight
    <3>2. \A n \in Out' : n = pos
      BY <2>1 DEF Out
    <3> QED BY <1>1, <1>3, <2>1, <3>1, <3>2 DEF ServingInv, OneNodeOut, OnlyOut, Serving, modeVars
  <2> QED BY <2>2, <2>3, <2>4 DEF RollInv
<1> QED BY <1>2, <1>3 DEF DeleteNodePod

\* Nobody but the node of the loop answers at its address while it restarts.
LEMMA PollBackUpRolls ==
  ASSUME IInv, RollInv, PollBackUp
  PROVE  RollInv' /\ Rolls
<1> USE DEF runVars, Goto, Stay
<1>1. /\ pos \in Nodes /\ pc = "wait_up" /\ OnlyOut(pos) /\ UNCHANGED clusterVars
      /\ \A m \in Nodes \ {pos} : addr[m] # apiHost[pos]
  BY PosIsNode DEF PollBackUp, PerNode, RollInv, ServingInv, HostInv, Restarting
<1>2. Refreshed(pos) \in {addr[pos], None}
  BY <1>1 DEF Refreshed, Answers, AnswersAt
<1>3. \A m \in Nodes \ {pos} : addr[m] # Refreshed(pos)
  BY <1>1, <1>2, NoneAssumption DEF RollInv, AddrInv, IInv, TypeOK, ClusterTypeOK
<1>4. /\ apiHost'[pos] = Refreshed(pos)
      /\ \A n \in Nodes \ {pos} : apiHost'[n] = apiHost[n]
  BY <1>1 DEF PollBackUp, IInv, TypeOK
<1>5. CASE BackUp(pos)
  <2>1. AllUp
    BY <1>1, <1>3, <1>5 DEF BackUp, LiveAddresses, AllUp, OnlyOut
  <2>2. pc' = "wait_mode" /\ UNCHANGED <<pos, cmd, force>>
    BY <1>5 DEF PollBackUp
  <2>3. HostInv'
    BY <1>1, <1>4, <2>2 DEF RollInv, HostInv, Restarting, clusterVars, Nodes
  <2>4. PlainInv'
    BY <2>2 DEF RollInv, PlainInv, Serving
  <2> QED BY <1>1, <2>1, <2>2, <2>3, <2>4, StillRolls DEF Restarting
<1>6. CASE ~BackUp(pos)
  <2>1. pc' = "wait_up" /\ UNCHANGED <<pos, cmd, force>>
    BY <1>6 DEF PollBackUp
  <2>2. HostInv'
    BY <1>1, <1>3, <1>4, <2>1 DEF RollInv, HostInv, Restarting, clusterVars, Nodes
  <2>3. PlainInv'
    BY <2>1 DEF RollInv, PlainInv, Restarting
  <2> QED BY <1>1, <2>1, <2>2, <2>3, StillRolls DEF Serving
<1> QED BY <1>5, <1>6

LEMMA RestartRolls ==
  ASSUME PlainMigrations, IInv, RollInv, Restart
  PROVE  RollInv' /\ Rolls
<1> USE DEF Here, runVars, Goto, Stay
<1>1. ASSUME NEW p \in Nodes, PickPeer(p) PROVE RollInv' /\ Rolls
  <2>1. AllUp /\ pc = "pick" /\ pos \in Nodes /\ UNCHANGED <<clusterVars, apiHost, cmd, force>>
    BY <1>1, ServesThere DEF PickPeer, Serving, IInv, TypeOK, Nodes
  <2>2. \A n \in Nodes : Moved(n) => Moved(n)'
    BY <2>1 DEF Moved, clusterVars
  <2>3. CASE pos' = pos + 1 /\ pc' = "pick"
    <3>1. \A n \in Nodes : n >= pos' => n >= pos
      BY <2>1, <2>3 DEF Nodes
    <3>2. HostInv'
      BY <2>1, <2>2, <2>3, <3>1 DEF RollInv, HostInv, Restarting, clusterVars
    <3>3. PlainInv'
      BY <2>1, <2>3 DEF RollInv, PlainInv, Serving
    <3> QED BY <2>1, <2>3, <3>2, <3>3, StillRolls DEF Restarting
  <2>4. CASE ~UsesForAll(pos, "tablets") /\ pos' = pos /\ pc' = "mark"
    <3>1. current[pos] = "vnodes"
      <4>1. args \subseteq InFlight
        BY <2>1 DEF IInv, FlightInv, LoopLabels
      <4>2. ~Settles(pos, "tablets")
        BY <2>1, <2>4, <4>1, SettledUses
      <4> QED BY <2>1, <4>2
            DEF RollInv, OrderInv, Settles, IInv, TypeOK, ClusterTypeOK, Modes
    <3>2. HostInv'
      BY <2>1, <2>2, <2>4 DEF RollInv, HostInv, Restarting, clusterVars
    <3>3. PlainInv'
      BY <2>1, <2>4 DEF RollInv, PlainInv, Serving
    <3> QED BY <2>1, <2>4, <3>1, <3>2, <3>3, StillRolls DEF Restarting
  <2> QED BY <1>1, <2>3, <2>4 DEF PickPeer
<1>2. CASE NoPeer
  BY <1>2, ExitRolls DEF NoPeer
<1>3. CASE (\E p \in Nodes : Unmark(p)) \/ NeedsRestart
  BY <1>3 DEF Unmark, NeedsRestart, RollInv, PlainInv, Serving, Restarting
<1>4. CASE SeenDown
  <2>1. /\ pc = "wait_down" /\ pc' = "wait_up" /\ OnlyOut(pos)
        /\ UNCHANGED <<clusterVars, apiHost, pos, cmd, force>>
    BY <1>4 DEF SeenDown, RollInv, ServingInv, Restarting
  <2>2. PlainInv' /\ HostInv'
    BY <2>1 DEF RollInv, PlainInv, HostInv, Restarting, clusterVars
  <2>3. OnlyOut(pos')
    BY <2>1 DEF OnlyOut
  <2> QED BY <2>1, <2>2, <2>3, StillRolls DEF Serving
<1>5. CASE PollMode
  <2>1. CASE Exit
    BY <1>5, <2>1, ExitRolls DEF PollMode
  <2>2. CASE /\ pos' = pos + 1 /\ pc' = FirstNode
             /\ UNCHANGED <<runVars, todo, peer, control, apiHost>>
    <3>1. AllUp /\ pos \in Nodes /\ pc = "wait_mode" /\ pc' = "pick"
      BY <1>5, <2>2, ServesThere, PosIsNode
        DEF PollMode, Serving, PerNode, FirstNode, RollInv, PlainInv
    <3>2. \A n \in Nodes : n >= pos' => n > pos
      BY <2>2, <3>1 DEF Nodes
    <3>3. HostInv'
      BY <1>5, <2>2, <3>1, <3>2 DEF PollMode, RollInv, HostInv, Restarting, clusterVars
    <3>4. PlainInv'
      BY <2>2, <3>1 DEF RollInv, PlainInv, Serving
    <3> QED BY <1>5, <3>1, <3>3, <3>4, StillRolls DEF PollMode, Restarting
  <2> QED BY <1>5, <2>1, <2>2 DEF PollMode
<1> QED BY <1>1, <1>2, <1>3, <1>4, <1>5, MarkRolls, DrainRolls, DeleteRolls, PollBackUpRolls
      DEF Restart

-----------------------------------------------------------------------------
(* Finalization, and the world around the script *)

LEMMA FinalizationRolls ==
  ASSUME IInv, RollInv, Finalization
  PROVE  RollInv' /\ Rolls
<1> USE DEF Here, runVars, Goto, Stay
<1>1. CASE LoopDone \/ AcceptFinal
  <2>1. AllUp
    BY <1>1, ServesThere DEF LoopDone, AcceptFinal, Serving, RollInv, PlainInv, Restarting
  <2>2. UNCHANGED <<clusterVars, apiHost, pos, cmd, force>> /\ pc' \in {"confirm_final", "finalize"}
    BY <1>1 DEF LoopDone, AcceptFinal
  <2> QED BY <2>1, <2>2, OnwardRolls
<1>2. ASSUME NEW ks \in Keyspaces, Finalize(ks) PROVE RollInv' /\ Rolls
  <2>1. AllUp /\ UNCHANGED podVars /\ UNCHANGED disruptions /\ cmd = "migrate"
    BY <1>2, ServesThere DEF Finalize, Serving, RollInv, PlainInv
  <2>2. CASE Exit /\ UNCHANGED modeVars
    BY <2>1, <2>2, ExitRolls DEF clusterVars, podVars, modeVars
  <2>3. CASE MayFinalize(ks) /\ FinalizeMigration(ks)
    <3>1. \A n \in Nodes : Settles(n, "tablets")
      <4>1. pos = N + 1 /\ \A n \in Nodes : n < N + 1
        BY <1>2, NAssumption DEF Finalize, IInv, LoopInv, AfterLoop, Nodes
      <4> QED BY <1>2, <2>1, <4>1 DEF Finalize, IInv, PassedInv, AfterLoop, Want
    <3>2. FinalMode = "tablets"
      BY <3>1 DEF Settles, FinalMode, AllIn
    <3>3. UNCHANGED <<life, addr>> /\ cmd' = "migrate" /\ force' = FALSE
          /\ pc' \in {"idle", "finalize"}
      BY <1>2, <2>1, <2>3 DEF podVars, Finalize, RollInv, PlainInv, Exit, modeVars, MayFinalize
    <3>4. OrderInv'
      <4>1. \/ UNCHANGED <<current, intended>>
            \/ \A n \in Nodes : current'[n] = "vnodes" /\ intended'[n] = "vnodes"
        BY <2>3 DEF FinalizeMigration
      <4> QED BY <3>1, <3>3, <4>1 DEF OrderInv, Settles
    <3>5. PlainInv' /\ ServingInv' /\ AddrInv' /\ HostInv'
      BY <2>1, <3>3
        DEF RollInv, PlainInv, Serving, Restarting, ServingInv, OneNodeOut, Out, AllUp, AddrInv,
            HostInv
    <3>6. (InFlight = {ks}) <=> ~\E other \in Keyspaces \ {ks} : ksState[other] = "migrating_to_tablets"
      BY <1>2, <2>3 DEF MayFinalize, InFlight
    <3>7. current' = IF \E other \in Keyspaces \ {ks} : ksState[other] = "migrating_to_tablets"
                       THEN current ELSE [n \in Nodes |-> "vnodes"]
      BY <2>3, <3>2, <3>6 DEF FinalizeMigration
    <3>8. Rolling!Complete(ks)
      BY <2>3, <3>1, <3>2, <3>3, <3>7
        DEF Rolling!Complete, MayFinalize, InFlight, Settles, FinalizeMigration, Out
    <3> QED BY <3>4, <3>5, <3>8 DEF Rolls, Rolling!Next, RollInv
  <2> QED BY <1>2, <2>2, <2>3 DEF Finalize
<1> QED BY <1>1, <1>2 DEF Finalization

\* What the cluster or an operator does to a node that is out of service already.
LEMMA OutStep ==
  ASSUME IInv, RollInv, NEW n \in Nodes, life[n] # "up", UNCHANGED <<scriptVars, ksState, intended>>,
         \A m \in Nodes \ {n} : life'[m] = life[m],
         \A m \in Nodes \ {n} : current'[m] = current[m],
         current'[n] \in {current[n], intended[n]}
  PROVE  /\ PlainInv' /\ OrderInv' /\ ServingInv'
         /\ \A m \in Nodes \ {n} : life[m] = "up"
         /\ pc \in {"idle", "cluster_up"} \cup Restarting
         /\ pc \in Restarting => n = pos
<1>1. n \in Out /\ intended[n] = "tablets" /\ InFlight # {}
  BY DEF Out, RollInv, ServingInv
<1>2. \A m \in Nodes \ {n} : life[m] = "up"
  BY <1>1 DEF RollInv, ServingInv, OneNodeOut, Out
<1>3. pc \in {"idle", "cluster_up"} \cup Restarting
  BY DEF RollInv, PlainInv, ServingInv, AllUp
<1>4. pc \in Restarting => n = pos
  BY DEF RollInv, ServingInv, OnlyOut
<1>5. PlainInv'
  BY DEF RollInv, PlainInv, scriptVars
<1>6. OrderInv'
  <2>1. \A m \in Nodes : current'[m] = "tablets" => intended'[m] = "tablets"
    BY <1>1 DEF RollInv, OrderInv
  <2>2. \A m \in Nodes : Settles(m, "tablets") => Settles(m, "tablets")'
    BY <1>1 DEF Settles
  <2>3. pc' \notin {"mark", "drain"} /\ (pc' = "delete" => intended'[pos'] = "tablets")
    BY <1>3 DEF scriptVars, Restarting, RollInv, OrderInv
  <2> QED BY <2>1, <2>2, <2>3 DEF RollInv, OrderInv, scriptVars
<1>7. ServingInv'
  <2>1. \A m \in Out' : m = n
    BY <1>2 DEF Out
  <2>2. InFlight' = InFlight
    BY DEF InFlight
  <2> QED BY <1>1, <1>2, <1>3, <1>4, <2>1, <2>2
        DEF ServingInv, OneNodeOut, Serving, Restarting, OnlyOut, scriptVars
<1> QED BY <1>2, <1>3, <1>4, <1>5, <1>6, <1>7

\* Its pod gets an address that nobody has.
LEMMA ReplacedKeepsHosts ==
  ASSUME IInv, RollInv, NEW n \in Nodes, PodReplaced(n), UNCHANGED scriptVars
  PROVE  AddrInv' /\ HostInv'
<1>1. PICK a \in FreeFor(n) : addr' = [addr EXCEPT ![n] = a]
  BY DEF PodReplaced
<1>2. /\ addr'[n] = a /\ \A m \in Nodes \ {n} : addr'[m] = addr[m] /\ addr[m] # a
      /\ life[n] # "up" /\ n \in Out /\ intended[n] = "tablets"
  BY <1>1 DEF FreeFor, IInv, TypeOK, ClusterTypeOK, PodReplaced, Out, RollInv, ServingInv
<1>3. AddrInv'
  BY <1>2 DEF RollInv, AddrInv
<1>4. /\ pc \in {"idle", "cluster_up"} \cup Restarting
      /\ pc \in Restarting => n = pos
  BY <1>2 DEF RollInv, PlainInv, ServingInv, AllUp, OnlyOut
<1>5. HostInv'
  <2>1. CASE pc = "idle"
    BY <2>1 DEF HostInv, scriptVars, Restarting
  <2>2. CASE pc = "cluster_up"
    <3>1. \A m \in Nodes \ {n} : apiHost[m] = addr[m]
      BY <1>2, <2>2 DEF RollInv, HostInv
    <3>2. \A m \in Out' : m = n
      BY <1>2 DEF Out, PodReplaced, RollInv, ServingInv, OneNodeOut, IInv, TypeOK, ClusterTypeOK
    <3>3. apiHost[n] = addr'[n] \/ Moved(n)'
      <4>1. apiHost[n] = addr[n] \/ Moved(n)
        <5>1. n >= pos
          BY <2>2 DEF IInv, LoopInv, BeforeLoop, Nodes
        <5> QED BY <2>2, <5>1 DEF RollInv, HostInv
      <4>2. \A m \in Nodes \ {n} : addr[m] # apiHost[n]
        BY <4>1 DEF Moved, RollInv, AddrInv
      <4> QED BY <1>2, <4>2 DEF Moved, scriptVars, PodReplaced, modeVars
    <3> QED BY <1>2, <2>2, <3>1, <3>2, <3>3 DEF HostInv, scriptVars, Restarting
  <2>3. CASE pc \in Restarting
    <3>1. \A m \in Nodes : m > pos => m # n
      BY <1>4, <2>3 DEF Nodes
    <3> QED BY <1>2, <1>4, <2>3, <3>1 DEF RollInv, HostInv, scriptVars, Restarting
  <2> QED BY <1>4, <2>1, <2>2, <2>3
<1> QED BY <1>3, <1>5

\* Where the addresses stay as they are, what is known of them does.
LEMMA HostsKept ==
  ASSUME RollInv, UNCHANGED <<scriptVars, addr, intended>>, Out' \subseteq Out
  PROVE  AddrInv' /\ HostInv'
<1>1. \A n \in Nodes : Moved(n) => Moved(n)'
  BY DEF Moved, scriptVars
<1> QED BY <1>1 DEF RollInv, AddrInv, HostInv, scriptVars

LEMMA WorldRolls ==
  ASSUME PlainMigrations, IInv, RollInv, World
  PROVE  RollInv' /\ Rolls
<1>1. CASE TimeOut \/ Interrupt
  BY <1>1, ExitRolls DEF TimeOut, Interrupt
<1>2. CASE GrantAccess \/ RevokeAccess
  <2>1. UNCHANGED <<clusterVars, scriptVars>>
    BY <1>2 DEF GrantAccess, RevokeAccess
  <2>2. AddrInv' /\ HostInv'
    BY <2>1, HostsKept DEF clusterVars, Out
  <2>3. PlainInv' /\ OrderInv' /\ ServingInv'
    BY <2>1 DEF clusterVars, scriptVars, RollInv, PlainInv, OrderInv, Settles, ServingInv,
                OneNodeOut, Out, AllUp, OnlyOut, InFlight
  <2> QED BY <2>1, <2>2, <2>3, Stutters DEF clusterVars, RollInv
<1>3. ASSUME NEW n \in Nodes, OperatorRestart(n) PROVE RollInv' /\ Rolls
  <2>1. /\ life[n] # "up" /\ life'[n] # "up" /\ \A m \in Nodes \ {n} : life'[m] = life[m]
        /\ UNCHANGED <<modeVars, scriptVars, addr>>
    BY <1>3 DEF OperatorRestart, AskedToRestart, DeletePod, PlainMigrations, IInv, TypeOK,
                ClusterTypeOK
  <2>2. Out' \subseteq Out
    BY <2>1 DEF Out
  <2> QED BY <2>1, <2>2, OutStep, HostsKept, Stutters DEF RollInv, modeVars
<1>4. ASSUME NEW n \in Nodes, ClusterStep(n) PROVE RollInv' /\ Rolls
  <2>0. UNCHANGED scriptVars
    BY <1>4 DEF ClusterStep
  <2>1. CASE PodReplaced(n)
    <3>1. /\ life[n] # "up" /\ life'[n] # "up" /\ \A m \in Nodes \ {n} : life'[m] = life[m]
          /\ UNCHANGED modeVars
      BY <2>1 DEF PodReplaced, IInv, TypeOK, ClusterTypeOK
    <3> QED BY <2>0, <2>1, <3>1, OutStep, ReplacedKeepsHosts, Stutters DEF RollInv, modeVars
  <2>2. CASE Boot(n)
    <3>1. /\ life[n] # "up" /\ life'[n] # "up" /\ \A m \in Nodes \ {n} : life'[m] = life[m]
          /\ UNCHANGED <<ksState, intended, addr>>
          /\ \A m \in Nodes \ {n} : current'[m] = current[m]
          /\ current'[n] \in {current[n], intended[n]}
      BY <2>2 DEF Boot, IInv, TypeOK, ClusterTypeOK
    <3>2. Out = {n} /\ Out' = {n}
      BY <2>0, <3>1, OutStep DEF Out
    <3>3. RollInv'
      BY <2>0, <3>1, <3>2, OutStep, HostsKept DEF RollInv
    <3>4. CASE current' = current
      BY <3>1, <3>3, <3>4, Stutters
    <3>5. CASE current' # current
      <4>1. current' = [current EXCEPT ![n] = intended[n]] /\ InFlight # {}
        BY <2>2, <3>5 DEF Boot
      <4>2. current[n] = "vnodes" /\ intended[n] = "tablets"
        BY <3>5, <4>1 DEF RollInv, OrderInv, Modes, IInv, TypeOK, ClusterTypeOK
      <4>3. Rolling!Convert(n)
        BY <3>1, <3>2, <4>1, <4>2 DEF Rolling!Convert, InFlight
      <4> QED BY <3>3, <4>3 DEF Rolls, Rolling!Next
    <3> QED BY <3>4, <3>5
  <2>3. CASE Serve(n)
    <3>1. /\ life[n] # "up" /\ life'[n] = "up" /\ \A m \in Nodes \ {n} : life'[m] = life[m]
          /\ UNCHANGED <<modeVars, addr>>
      BY <2>3 DEF Serve, IInv, TypeOK, ClusterTypeOK
    <3>2. Out = {n} /\ Out' = {}
      BY <2>0, <3>1, OutStep DEF Out, modeVars
    <3>3. RollInv'
      BY <2>0, <3>1, <3>2, OutStep, HostsKept DEF RollInv, modeVars
    <3>4. Rolling!Return(n)
      BY <3>1, <3>2 DEF Rolling!Return, modeVars
    <3> QED BY <3>3, <3>4 DEF Rolls, Rolling!Next
  <2>4. CASE Disrupt(n)
    BY <2>4 DEF Disrupt, PlainMigrations, IInv, TypeOK, ClusterTypeOK
  <2> QED BY <1>4, <2>1, <2>2, <2>3, <2>4 DEF ClusterStep, NodeStep
<1> QED BY <1>1, <1>2, <1>3, <1>4 DEF World

LEMMA LaunchRolls ==
  ASSUME PlainMigrations, IInv, RollInv, NEW c \in Commands, NEW ks \in SUBSET Keyspaces,
         NEW f \in ForceChoices, Launch(c, ks, f)
  PROVE  RollInv' /\ Rolls
<1>1. /\ pc' = "cluster_up" /\ cmd' = "migrate" /\ force' = FALSE
      /\ apiHost' = addr /\ UNCHANGED clusterVars
  BY DEF Launch, Goto, Stay, PlainMigrations
<1>2. PlainInv' /\ HostInv'
  BY <1>1 DEF PlainInv, HostInv, Restarting, clusterVars
<1> QED BY <1>1, <1>2, StillRolls DEF Serving, Restarting

LEMMA RollStep ==
  ASSUME PlainMigrations, IInv, RollInv, [Next]_vars
  PROVE  RollInv' /\ Rolls
<1>1. CASE \E c \in Commands, ks \in (SUBSET Keyspaces) \ {{}}, f \in ForceChoices :
             Launch(c, ks, f)
  BY <1>1, LaunchRolls
<1>2. CASE ScriptStep
  BY <1>2, PreflightRolls, RestartRolls, FinalizationRolls
    DEF ScriptStep, Preflight, Restart, Finalization
<1>3. CASE World
  BY <1>3, WorldRolls
<1>4. CASE UNCHANGED vars
  <2>1. UNCHANGED <<clusterVars, scriptVars>>
    BY <1>4 DEF vars
  <2>2. AddrInv' /\ HostInv'
    BY <2>1, HostsKept DEF clusterVars, Out
  <2>3. PlainInv' /\ OrderInv' /\ ServingInv'
    BY <2>1 DEF clusterVars, scriptVars, RollInv, PlainInv, OrderInv, Settles, ServingInv,
                OneNodeOut, Out, AllUp, OnlyOut, InFlight
  <2> QED BY <2>1, <2>2, <2>3, Stutters DEF clusterVars, RollInv
<1> QED BY <1>1, <1>2, <1>3, <1>4 DEF Next, World

LEMMA RollInit ==
  ASSUME Init
  PROVE  RollInv /\ Rolling!Init
<1>1. Out = {} /\ AllUp
  BY DEF Init, AllServing, Out, AllUp
<1>2. PlainInv /\ OrderInv /\ AddrInv
  BY DEF Init, NothingMigrated, AllServing, NoRun, PlainInv, OrderInv, AddrInv
<1>3. ServingInv /\ HostInv
  BY <1>1 DEF Init, NoRun, ServingInv, OneNodeOut, HostInv, Restarting, Serving
<1>4. Rolling!Init
  BY <1>1 DEF Init, NothingMigrated, Rolling!Init
<1> QED BY <1>2, <1>3, <1>4 DEF RollInv

LEMMA RollInvHolds ==
  ASSUME PlainMigrations
  PROVE  Spec => []RollInv
<1>1. Init => RollInv
  BY RollInit
<1>2. IInv /\ RollInv /\ [Next]_vars => RollInv'
  BY RollStep
<1> QED BY <1>1, <1>2, InvariantHolds, PTL DEF Spec

-----------------------------------------------------------------------------
(* Theorems *)

\* "upgrade - per node, ONE AT A TIME": migrations, however often interrupted and
\* repeated, never have two nodes out of service.
THEOREM OutOneAtATime == PlainMigrations => (Spec => []OneNodeOut)
<1> SUFFICES ASSUME PlainMigrations PROVE Spec => []OneNodeOut
  OBVIOUS
<1>1. RollInv => OneNodeOut
  BY DEF RollInv, ServingInv
<1> QED BY <1>1, RollInvHolds, PTL

\* Without rollbacks in between, no two nodes are marked at once: a node is marked
\* only when all before it have converted.
THEOREM MarkedOneAtATime == PlainMigrations => (Spec => []OneMarkAtATime)
<1> SUFFICES ASSUME PlainMigrations PROVE Spec => []OneMarkAtATime
  OBVIOUS
<1>1. RollInv => OneMarkAtATime
  BY DEF RollInv, OrderInv, OneMarkAtATime, Marked, Settles, Nodes
<1> QED BY <1>1, RollInvHolds, PTL

\* Where nothing restarts unasked, marks and drains reach the node they are meant for,
\* although addresses found at discovery may have changed since.
THEOREM RequestsArrive == PlainMigrations => (Spec => []RequestsReachTheirNode)
<1> SUFFICES ASSUME PlainMigrations PROVE Spec => []RequestsReachTheirNode
  OBVIOUS
<1>1. IInv /\ RollInv => RequestsReachTheirNode
  <2> SUFFICES ASSUME IInv, RollInv, pc \in {"mark", "drain"}, pos <= N,
                      NEW n \in Nodes, AnswersAt(n, apiHost[pos])
               PROVE  n = pos
    BY DEF RequestsReachTheirNode, RollInv, PlainInv, Serving, Restarting
  <2>1. pos \in Nodes /\ pos >= pos
    BY DEF IInv, TypeOK, Nodes
  <2>2. apiHost[pos] = addr[pos]
    BY <2>1 DEF RollInv, HostInv, Moved, AnswersAt
  <2> QED BY <2>1, <2>2 DEF AnswersAt, RollInv, AddrInv
<1> QED BY <1>1, RollInvHolds, InvariantHolds, PTL

\* A resumed migration takes no node out of service again that has converted.
THEOREM ConvertedStayUp == PlainMigrations => (Spec => NoNeedlessRestart)
<1> SUFFICES ASSUME PlainMigrations PROVE Spec => NoNeedlessRestart
  OBVIOUS
<1>1. IInv /\ RollInv /\ [Next]_vars => ~ConvertedNodeTakenOut
  <2> SUFFICES ASSUME IInv, RollInv, [Next]_vars, ConvertedNodeTakenOut PROVE FALSE
    OBVIOUS
  <2>1. PICK n \in Nodes : /\ life[n] = "up" /\ life'[n] = "drained"
                           /\ current[n] = "tablets" /\ intended[n] = "tablets"
    BY DEF ConvertedNodeTakenOut
  <2>2. CASE DrainNode
    <3>1. pos \in Nodes /\ apiHost[pos] = addr[pos] /\ current[pos] = "vnodes"
      BY <2>2, PosIsNode DEF DrainNode, PerNode, RollInv, HostInv, OrderInv
    <3>2. addr[n] = apiHost[pos]
      BY <2>1, <2>2 DEF DrainNode, Drain, AnswersAt, podVars
    <3> QED BY <2>1, <3>1, <3>2 DEF RollInv, AddrInv
  <2>3. ASSUME ScriptStep, ~DrainNode PROVE FALSE
    BY <2>1, <2>3
      DEF ScriptStep, CheckClusterUp, CheckRestartCapability, ClassifyForMigration,
          ClassifyForRollback, Accept, Prepare, PickPeer, NoPeer, Mark, Unmark, NeedsRestart,
          DeleteNodePod, DeletePod, SeenDown, PollBackUp, PollMode, LoopDone, AcceptFinal,
          Finalize, Stay, clusterVars, podVars, IInv, TypeOK, ClusterTypeOK
  <2>4. ASSUME World PROVE FALSE
    BY <2>1, <2>4
      DEF World, TimeOut, Interrupt, GrantAccess, RevokeAccess, OperatorRestart, DeletePod,
          ClusterStep, NodeStep, PodReplaced, Boot, Serve, Disrupt, clusterVars, IInv, TypeOK,
          ClusterTypeOK
  <2>5. ASSUME \/ \E c \in Commands, ks \in (SUBSET Keyspaces) \ {{}}, f \in ForceChoices :
                    Launch(c, ks, f)
               \/ UNCHANGED vars
        PROVE FALSE
    BY <2>1, <2>5 DEF Launch, Stay, vars, clusterVars
  <2> QED BY <2>2, <2>3, <2>4, <2>5 DEF Next, World
<1>2. IInv /\ RollInv /\ [Next]_vars => [~ConvertedNodeTakenOut]_vars
  BY <1>1
<1> QED BY <1>2, RollInvHolds, InvariantHolds, PTL DEF Spec, NoNeedlessRestart

\* Migrations by themselves, killed and repeated as often as one likes, implement
\* RollingMigration: one node at a time leaves, converts while it is out and returns, and
\* a keyspace completes when all have converted.
THEOREM MigrationRolls == PlainMigrations => (Spec => ImplementsRolling)
<1> SUFFICES ASSUME PlainMigrations PROVE Spec => ImplementsRolling
  OBVIOUS
<1>1. Init => Rolling!Init
  BY RollInit
<1>2. IInv /\ RollInv /\ [Next]_vars => [Rolling!Next]_(Rolling!vars)
  BY RollStep DEF Rolls
<1> QED BY <1>1, <1>2, RollInvHolds, InvariantHolds, PTL DEF Spec, ImplementsRolling, Rolling!Spec
=============================================================================

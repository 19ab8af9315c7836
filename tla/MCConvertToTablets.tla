------------------------- MODULE MCConvertToTablets -------------------------
(***************************************************************************)
(* Instances of ConvertToTablets for TLC.                                  *)
(***************************************************************************)
EXTENDS ConvertToTablets, TLC

Symmetry == Permutations(Addresses)

-----------------------------------------------------------------------------
(* Liveness *)

\* Operators run the script again on what is in flight, or else on what is
\* left, until there is nothing left.
Pending == IF InFlight # {} THEN InFlight
           ELSE {ks \in Keyspaces : ksState[ks] = "vnodes"}

\* Nodes that go down come back, the script goes on when it can, its waits
\* have deadlines.  Operators repair what is broken and try again: a repair is
\* possible only between two runs, hence strong fairness for both.
Fairness ==
  /\ WF_vars(ScriptStep)
  /\ WF_vars(TimeOut)
  /\ WF_vars(GrantAccess)
  /\ \A n \in Nodes : /\ WF_vars(NodeStep(n) /\ UNCHANGED <<scriptVars, envVars>>)
                      /\ SF_vars(OperatorRestart(n))

MigrateSpec == Spec /\ Fairness /\ SF_vars(Launch("migrate", Pending, FALSE))

\* Whatever was interrupted, refused, timed out or restarted, running the
\* migration again ends with every keyspace on tablets.
MigrationCompletes == <>[](\A ks \in Keyspaces : ksState[ks] = "tablets")

\* A migration that interrupted runs have left halfway: the nodes before the
\* k-th converted, the k-th perhaps marked.
Halfway ==
  /\ ksState = [ks \in Keyspaces |-> "migrating_to_tablets"]
  /\ \E k \in 1 .. N + 1, marked \in BOOLEAN :
       /\ current = [n \in Nodes |-> IF n < k THEN "tablets" ELSE "vnodes"]
       /\ intended = [n \in Nodes |-> IF n < k \/ (n = k /\ marked) THEN "tablets" ELSE "vnodes"]

RollbackInit ==
  /\ Halfway
  /\ AllServing
  /\ NoRun
  /\ mayDelete \in BOOLEAN
  /\ faults = 0

RollbackSpec ==
  /\ RollbackInit /\ [][Next]_vars
  /\ Fairness
  /\ SF_vars(Launch("rollback", InFlight, FALSE))

\* However far an unfinalized migration got, running the rollback again ends
\* with every keyspace back on vnodes.
RollbackCompletes == <>[](\A ks \in Keyspaces : ksState[ks] = "vnodes")
=============================================================================

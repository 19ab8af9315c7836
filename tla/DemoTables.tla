----------------------------- MODULE DemoTables -----------------------------
(***************************************************************************)
(* The demonstrations that share a clock and nothing else: the Alternator  *)
(* table, the CQL table of users, the keyspace vnodes_ks and the table the *)
(* Java loader fills.  They are in different keyspaces and do not meet, so *)
(* that each is explored by itself.                                        *)
(***************************************************************************)
EXTENDS UserIdTable, CqlFaker, VnodesKeyspace, JavaLoad

VARIABLE subject  \* the demonstration that is explored

vars == <<clockVars, userVars, cqlVars, vnodesVars, loaderVars, subject>>

Init ==
  /\ subject \in {"alternator", "cql", "vnodes", "java"}
  /\ ClockInit /\ UserIdInit /\ CqlInit /\ VnodesInit /\ JavaInit

OnUserIds(step) == step /\ UNCHANGED <<cqlVars, vnodesVars, loaderVars, subject>>
OnCqlUsers(step) == step /\ UNCHANGED <<userVars, vnodesVars, loaderVars, subject>>
OnVnodes(step) == step /\ UNCHANGED <<userVars, cqlVars, loaderVars, subject>>
OnJavaUsers(step) == step /\ UNCHANGED <<userVars, cqlVars, vnodesVars, subject>>

Next ==
  \/ subject = "alternator" /\ OnUserIds(UserIdStep)
  \/ subject = "cql" /\ OnCqlUsers(CqlStep)
  \/ subject = "vnodes" /\ OnVnodes(VnodesStep)
  \/ subject = "java" /\ OnJavaUsers(JavaStep)
  \/ subject \in {"alternator", "cql"} /\ Tick
       /\ UNCHANGED <<userVars, cqlVars, vnodesVars, loaderVars, subject>>

Spec == Init /\ [][Next]_vars

FairSpec ==
  Spec /\ WF_vars(OnUserIds(CleanupStep)) /\ WF_vars(OnVnodes(DemoStep))
=============================================================================

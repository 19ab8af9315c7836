-------------------------- MODULE RollingMigration --------------------------
(***************************************************************************)
(* What the migration procedure promises, without a script, requests or    *)
(* addresses: nodes leave service one at a time, change their storage only *)
(* while they are out, and a keyspace is finalized only when no storage is *)
(* in between.                                                             *)
(***************************************************************************)
CONSTANTS Nodes, Keyspaces

VARIABLES
  ksState,    \* keyspace -> vnodes, migrating_to_tablets or tablets
  storage,    \* node -> mode its storage is in
  out         \* nodes out of service

vars == <<ksState, storage, out>>

Init ==
  /\ ksState = [ks \in Keyspaces |-> "vnodes"]
  /\ storage = [n \in Nodes |-> "vnodes"]
  /\ out = {}

Leave(n) == out = {} /\ out' = {n} /\ UNCHANGED <<ksState, storage>>
Return(n) == out = {n} /\ out' = {} /\ UNCHANGED <<ksState, storage>>

Convert(n) ==
  /\ out = {n}
  /\ \E ks \in Keyspaces : ksState[ks] = "migrating_to_tablets"
  /\ storage[n] = "vnodes"
  /\ storage' = [storage EXCEPT ![n] = "tablets"]
  /\ UNCHANGED <<ksState, out>>

\* A keyspace joins a migration only while no node has converted.
Begin(ks) ==
  /\ ksState[ks] = "vnodes"
  /\ \A n \in Nodes : storage[n] = "vnodes"
  /\ ksState' = [ksState EXCEPT ![ks] = "migrating_to_tablets"]
  /\ UNCHANGED <<storage, out>>

\* Converting a node is forgotten when the last keyspace is finalized.
Complete(ks) ==
  /\ ksState[ks] = "migrating_to_tablets"
  /\ \A n \in Nodes : storage[n] = "tablets"
  /\ ksState' = [ksState EXCEPT ![ks] = "tablets"]
  /\ storage' = IF \E other \in Keyspaces \ {ks} : ksState[other] = "migrating_to_tablets"
                  THEN storage ELSE [n \in Nodes |-> "vnodes"]
  /\ UNCHANGED out

Next ==
  \/ \E n \in Nodes : Leave(n) \/ Convert(n) \/ Return(n)
  \/ \E ks \in Keyspaces : Begin(ks) \/ Complete(ks)

Spec == Init /\ [][Next]_vars
=============================================================================

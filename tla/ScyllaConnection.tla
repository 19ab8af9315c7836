--------------------------- MODULE ScyllaConnection ---------------------------
(***************************************************************************)
(* src/sample_app/scylla_connection_library.py: how the load and query     *)
(* tools get from their connection flags to a session.  A function that    *)
(* may exit or raise is the set of its results: empty when it does not     *)
(* return.  Left out: racks and data centres, which only order the nodes,  *)
(* timeouts and logging.                                                   *)
(***************************************************************************)
EXTENDS Integers, Sequences

CONSTANTS
  Loopback,         \* the names 127.0.0.1 and localhost
  NodeAddresses     \* the addresses the nodes advertise

DefaultPort == 9042
TlsPort == 9142
NoPort == 0         \* a contact point given without a port

\* -s, -l, -e and -m, and whether ./config has ca.crt, tls.crt and tls.key.
\* -s is a sequence of contact points, each with a port or with NoPort.
ConnectionArgs == [hosts : Seq([name : STRING, port : Nat]) \ {<<>>}, local_only : BOOLEAN,
                   tls : BOOLEAN, mtls : BOOLEAN, files : BOOLEAN]

Names(spec) == [i \in DOMAIN spec |-> spec[i].name]

\* The port is what follows the first colon of the whole value: a number only if
\* no later contact point follows, so that a port is understood on the last one.
ParsePort(spec) ==
  LET ported == {i \in DOMAIN spec : spec[i].port # NoPort} IN
  IF ported = {} THEN {DefaultPort}
  ELSE IF ported = {Len(spec)} THEN {spec[Len(spec)].port}
  ELSE {}

\* Mutant: -m takes the certificates but keeps the port and the user of -s and -u.
ResolvePlainly(args) ==
  IF (args.tls \/ args.mtls) /\ ~args.files THEN {}
  ELSE {[hosts |-> Names(args.hosts), login |-> "password",
         ports |-> IF args.tls THEN {TlsPort} ELSE ParsePort(args.hosts)]}

\* resolve_connection.  With -e or -m the port of -s is not looked at.
Resolve(args) ==
  IF (args.tls \/ args.mtls) /\ ~args.files THEN {}
  ELSE {[hosts |-> Names(args.hosts),
         login |-> IF args.mtls THEN "certificate" ELSE "password",
         ports |-> IF args.tls \/ args.mtls THEN {TlsPort} ELSE ParsePort(args.hosts)]}

IsLocalOnly(hosts, local_only) == hosts[1] \in Loopback \/ local_only

\* SingleEndpointTranslator: an advertised address becomes the one given endpoint.
Translate(hosts, address) == hosts[1]

\* build_cluster_and_session.  TLS is a matter of the port alone, and needs the files.
Build(resolved, args) ==
  LET local == IsLocalOnly(resolved.hosts, args.local_only) IN
  {[routes |-> IF local THEN {Translate(resolved.hosts, a) : a \in NodeAddresses}
               ELSE NodeAddresses,
    shardAware |-> ~local,
    tls |-> port = TlsPort,
    login |-> resolved.login] : port \in {p \in resolved.ports : p = TlsPort => args.files}}

\* What resolve_connection and build_cluster_and_session make of the flags.
Sessions(args) == UNION {Build(resolved, args) : resolved \in Resolve(args)}

\* The session is the one the flags ask for: encrypted and authenticated as they
\* say, and with a single endpoint never routed to an address of the cluster.
Honours(session, args) ==
  /\ args.tls \/ args.mtls => session.tls
  /\ session.login = "certificate" <=> args.mtls
  /\ IsLocalOnly(Names(args.hosts), args.local_only) =>
       session.routes \subseteq {args.hosts[1].name} /\ ~session.shardAware
=============================================================================

---------------------------- MODULE MCPrestoPods ----------------------------
(***************************************************************************)
(* Instances of PrestoPods for TLC: the specs that the operators of        *)
(* PrestoConfig tell apart.                                                *)
(***************************************************************************)
EXTENDS PrestoPods

TheUuid == <<"03f118d2", "d399">>
TheName == "mycluster"

Gi   == 1024 * MiB
Base == EmptyConf(Gi, 1000)

Keystore == {"password", "key", "name"}
Https    == [Base EXCEPT !.https = TRUE, !.keystore = Keystore]

\* Services and ports.
Port8081      == [Base EXCEPT !.port = 8081, !.type = "NodePort", !.nodePort = 30080]
Https8443     == [Https EXCEPT !.port = 8443, !.type = "LoadBalancer"]
HttpsNoKey    == [Https EXCEPT !.keystore = {"password", "name"}]
OrphanPort    == [Base EXCEPT !.nodePort = 30080]
ExternalNamed == [Base EXCEPT !.type = "ExternalName"]

\* Properties and files.
Reserved    == [Base EXCEPT !.worker.props = {<<"http-server.http.port", 9090>>}]
HttpsReserved == [Https EXCEPT !.coordinator.props = {<<"http-server.http.enabled", "false">>}]
HttpOff     == [Base EXCEPT !.coordinator.props = {<<"http-server.http.enabled", "false">>}]
HttpsWorker == [Base EXCEPT !.worker.props = {<<"http-server.http.enabled", "false">>,
                                              <<"http-server.https.enabled", "true">>,
                                              <<"http-server.https.port", 8443>>}]
HttpsClash  == [Base EXCEPT !.worker.props = {<<"http-server.https.enabled", "true">>,
                                              <<"http-server.https.port", 8080>>}]
OwnPort     == [Base EXCEPT !.files =
                  [config_properties |-> {<<"coordinator", "true">>,
                                          <<"http-server.http.port", 9090>>}]]
OwnHttps    == [Base EXCEPT !.files =
                  [config_properties |-> {<<"coordinator", "false">>,
                                          <<"http-server.https.enabled", "true">>,
                                          <<"http-server.https.port", 8443>>}]]
OwnHeap     == [Base EXCEPT !.files = [jvm_config |-> <<2000>>]]
OtherPath   == [Base EXCEPT !.path = "/presto", !.worker.heap = <<1500>>]

\* Resources and templates.
BigCoordinator == [Base EXCEPT !.coordinator.memory = 2047 * MiB, !.coordinator.cpuRequest = 500]
NegativeHeap == [Base EXCEPT !.coordinator.memory = -Gi]
NegativeLimit == [Base EXCEPT !.worker.memory = -1]
BadMemory   == [Base EXCEPT !.worker.memory = Unparsable]
HighRequest == [Base EXCEPT !.worker.cpuRequest = 2000]
NoGraceTime == [Base EXCEPT !.worker.grace = 0]
TwoVolumes  == [Base EXCEPT !.volumes = <<[name |-> <<"data">>, path |-> <<"/data">>],
                                          [name |-> <<"data">>, path |-> <<"/logs">>]>>]
\* Catalogs: two with one name, a replaced default, a clash of both sources.
Catalogs    == [Base EXCEPT
  !.catalogSpec = <<[name |-> "hive", content |-> "hive1"],
                    [name |-> "hive", content |-> "hive2"],
                    [name |-> "tpch", content |-> "mytpch"]>>,
  !.catalogSecrets = <<[secret |-> "mysecret", key |-> "jmx"],
                       [secret |-> "other", key |-> "tpch"]>>]

AllConfs ==
  [Base |-> Base, Port8081 |-> Port8081, Https |-> Https,
   Https8443 |-> Https8443, HttpsNoKey |-> HttpsNoKey, OrphanPort |-> OrphanPort,
   ExternalNamed |-> ExternalNamed, Reserved |-> Reserved, HttpsReserved |-> HttpsReserved,
   HttpOff |-> HttpOff, HttpsWorker |-> HttpsWorker, HttpsClash |-> HttpsClash,
   OwnPort |-> OwnPort, OwnHttps |-> OwnHttps, OwnHeap |-> OwnHeap,
   OtherPath |-> OtherPath, BigCoordinator |-> BigCoordinator,
   BadMemory |-> BadMemory, NegativeHeap |-> NegativeHeap,
   NegativeLimit |-> NegativeLimit, HighRequest |-> HighRequest,
   NoGraceTime |-> NoGraceTime, TwoVolumes |-> TwoVolumes, Catalogs |-> Catalogs]

=============================================================================

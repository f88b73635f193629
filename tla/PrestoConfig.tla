---------------------------- MODULE PrestoConfig ----------------------------
(***************************************************************************)
(* What the operator writes into the objects of one cluster: names,        *)
(* labels, the ports of the external service, the configuration files of   *)
(* coordinator and workers, the catalogs, and the templates of the pods.   *)
(*                                                                         *)
(* Every operator is a function of the spec c of a Presto and of the uuid  *)
(* u of its cluster.  A uuid is the pair of its first eight characters and *)
(* the rest, because names hold only the former.                           *)
(***************************************************************************)
EXTENDS PrestoKinds, Integers, Sequences

CONSTANT Unparsable   \* a quantity that resource.ParseQuantity refuses
ASSUME UnparsableAssumption == Unparsable \notin Int

Nil        == 0       \* an optional number that is left out
PrestoPort == 8080
MiB        == 1024 * 1024
DefaultTerminationGracePeriodSeconds == 7200
NoGrace    == -1      \* terminationGracePeriodSeconds is left out

(***************************************************************************)
(* Parts of a spec.                                                        *)
(*   memory, cpuLimit and cpuRequest are quantities (bytes, millicores),   *)
(*   which may be negative;                                                *)
(*   heap lists the -Xmx options among the additional JVM options, in MiB; *)
(*   props are the additional properties, pairs of a key and a value;      *)
(*   keystore says which HttpsKeyPair fields are not empty;                *)
(*   files are the additional property files, by name;                     *)
(*   path is "" where the default is used.                                 *)
(* A file of properties is the set of its lines <<key, value>>.            *)
(***************************************************************************)
NodeSpec(memory, cpu) ==
  [memory |-> memory, heap |-> <<>>, cpuLimit |-> cpu, cpuRequest |-> Nil,
   props |-> {}, grace |-> NoGrace]

EmptyConf(memory, cpu) ==
  [type |-> "", port |-> Nil, nodePort |-> Nil,
   https |-> FALSE, keystore |-> {},
   coordinator |-> NodeSpec(memory, cpu), worker |-> NodeSpec(memory, cpu),
   catalogSpec |-> <<>>, catalogSecrets |-> <<>>,
   files |-> <<>>, path |-> "", volumes |-> <<>>]

Entries(s) == {s[i] : i \in DOMAIN s}
Keys(lines) == {line[1] : line \in lines}
Unique(s) == \A i, j \in DOMAIN s : s[i] = s[j] => i = j

---------------------------------------------------------------------------
(***************************************************************************)
(* Names and labels.  A set of labels is a set of pairs; a selector        *)
(* matches the objects that have all its labels.                           *)
(***************************************************************************)
Name(prefix, u) == <<prefix, u[1]>>

PodDiscoveryServiceName(u) == Name("pod-discovery", u)
CoordinatorContainerName(u) == Name("coordinatorcontainer", u)
CoordinatorInternalName(u) ==
  <<CoordinatorContainerName(u), PodDiscoveryServiceName(u)>>
ConfigMapName(k, u) ==
  CASE k = CoordConf   -> Name("coordinatorconfig", u)
    [] k = WorkerConf  -> Name("workerconfig", u)
    [] k = CatalogConf -> Name("catalogconfig", u)

\* The stages share one map of labels: each service adds its own to it.
BaseLabels(name, u) == {<<"clusterUUID", u>>, <<"clusterName", name>>}
HeadlessLabels(name, u) == BaseLabels(name, u) \cup {<<"pod-discovery", u>>}
StageLabels(name, u) ==
  HeadlessLabels(name, u) \cup {<<"external-presto-svc", u>>}
CoordinatorPodLabels(name, u) == StageLabels(name, u) \cup {<<"coordinator", u>>}
WorkerPodLabels(name, u) == StageLabels(name, u) \cup {<<"worker", u>>}

Selects(selector, labels) == selector \subseteq labels
HeadlessSelector(name, u) == HeadlessLabels(name, u)
ExternalSelector(u) == {<<"coordinator", u>>}

---------------------------------------------------------------------------
(***************************************************************************)
(* Ports.  GetHTTPPort gives the coordinator's HTTP port and its HTTPS     *)
(* port, the latter -1 without HTTPS.                                      *)
(***************************************************************************)
Port(c) == IF c.port = Nil THEN PrestoPort ELSE c.port

GetHTTPPort(c) ==
  IF c.https
  THEN <<IF Port(c) = PrestoPort THEN PrestoPort + 1 ELSE PrestoPort, Port(c)>>
  ELSE <<Port(c), -1>>

DefaultServicePort(c) ==                                           \* mutant
  [port |-> Port(c), target |-> PrestoPort, nodePort |-> c.nodePort]
HttpsServicePort(c) ==                                             \* mutant
  [port |-> Port(c), target |-> GetHTTPPort(c)[2], nodePort |-> c.nodePort]
GetServicePort(c) ==
  [port     |-> Port(c),
   target   |-> Port(c),
   nodePort |-> IF c.type # "ClusterIP" THEN c.nodePort ELSE Nil]

---------------------------------------------------------------------------
(***************************************************************************)
(* config.properties.                                                      *)
(***************************************************************************)
SystemProps(c, u) ==
  LET ports == GetHTTPPort(c)
      host  == CoordinatorInternalName(u)
  IN {<<"coordinator", "true">>,
      <<"http-server.http.port", ports[1]>>,
      <<"node.internal-address", host>>,
      <<"discovery.uri", <<host, ports[1]>> >>,
      <<"node-scheduler.include-coordinator", "false">>,
      <<"discovery-server.enabled", "true">>,
      <<"http-server.https.enabled", IF c.https THEN "true" ELSE "false">>}
     \cup (IF c.https
           THEN {<<"http-server.http.enabled", "true">>,
                 <<"http-server.https.port", ports[2]>>,
                 <<"http-server.https.keystore.path", "httpssecret">>,
                 <<"http-server.https.keystore.key", "password">>}
           ELSE {})

WorkerServiceProps(c, u) ==                                        \* mutant
  {<<"coordinator", "false">>,
   <<"http-server.http.port", PrestoPort>>,
   <<"discovery.uri", <<CoordinatorInternalName(u), Port(c)>> >>}
WorkerSystemProps(c, u) ==
  {<<"coordinator", "false">>,
   <<"http-server.http.port", PrestoPort>>,
   <<"discovery.uri", <<CoordinatorInternalName(u), GetHTTPPort(c)[1]>> >>}

\* An additional property may not name one the operator sets.
Reserves(system, node) == Keys(system) \cap Keys(node.props) # {}
ConfigProps(system, node) == system \cup node.props

\* HTTPS needs a password, a key and the name of the secret.
KeystoreMissing(c) == c.https /\ c.keystore # {"password", "key", "name"}

(***************************************************************************)
(* jvm.config: the -Xmx options in their order, of which the JVM takes the *)
(* last.  Go's division rounds towards zero.                               *)
(***************************************************************************)
MemoryMb(memory) ==
  IF memory >= 0 THEN memory \div MiB ELSE -((-memory) \div MiB)
JVMConfig(node) == <<MemoryMb(node.memory)>> \o node.heap
Heap(options) == options[Len(options)]

GetPrestoPath(c) == IF c.path = "" THEN "/etc/presto" ELSE c.path

(***************************************************************************)
(* The files of a config map; the shutdown script is represented by the    *)
(* path written into it.  Additional files replace generated ones of the   *)
(* same name.                                                              *)
(***************************************************************************)
BuildConfigMap(c, u, isCoordinator) ==
  LET node   == IF isCoordinator THEN c.coordinator ELSE c.worker
      system == IF isCoordinator THEN SystemProps(c, u) ELSE WorkerSystemProps(c, u)
      generated == [node_properties   |-> {<<"node.environment", "prestoproduction">>,
                                           <<"node.data-dir", "/data/presto">>},
                    config_properties |-> ConfigProps(system, node),
                    jvm_config        |-> JVMConfig(node),
                    presto_shutdown   |-> GetPrestoPath(c)]
  IN [f \in DOMAIN generated \cup DOMAIN c.files |->
        IF f \in DOMAIN c.files THEN c.files[f] ELSE generated[f]]

---------------------------------------------------------------------------
(***************************************************************************)
(* Catalogs.  The config map holds the catalogs of the spec, of two with   *)
(* one name the last, and the default catalogs that the spec and the       *)
(* secrets do not define.                                                  *)
(***************************************************************************)
DefaultCatalogs == {"jmx", "tpch", "tpcds"}
CatalogNames(c) == {s.name : s \in Entries(c.catalogSpec)}
SecretKeys(c)   == {s.key : s \in Entries(c.catalogSecrets)}

SpecDefaultCatalogs(c) == IF c.catalogSpec = <<>> THEN DefaultCatalogs ELSE {}  \* mutant
GetDefaultCatalogs(c) == DefaultCatalogs \ (CatalogNames(c) \cup SecretKeys(c))

BuildCatalogConfigMap(c) ==
  LET last(n) == CHOOSE i \in DOMAIN c.catalogSpec :
                   /\ c.catalogSpec[i].name = n
                   /\ \A j \in DOMAIN c.catalogSpec :
                        c.catalogSpec[j].name = n => j <= i
  IN [n \in CatalogNames(c) \cup GetDefaultCatalogs(c) |->
        IF n \in GetDefaultCatalogs(c) THEN n ELSE c.catalogSpec[last(n)].content]

\* The mounted directory: the files of the config map, then one per secret.
\* The later source of a projected volume wins.
CatalogDirectory(data, secrets) ==
  LET keys == {s.key : s \in Entries(secrets)}
  IN [n \in DOMAIN data \cup keys |->
        IF n \in keys THEN (CHOOSE s \in Entries(secrets) : s.key = n).secret
                      ELSE data[n]]

\* What the user gives for catalog n: in the spec c that the config map is built
\* from, and in the spec t of the template.
UserFiles(c, t, n) ==
  {s.content : s \in {x \in Entries(c.catalogSpec) : x.name = n}}
  \cup {s.secret : s \in {x \in Entries(t.catalogSecrets) : x.key = n}}

---------------------------------------------------------------------------
(***************************************************************************)
(* Pod templates.  Without a request of CPU the limit is requested.  The   *)
(* limit of the coordinator's memory is taken from the worker's spec.      *)
(***************************************************************************)
Resources(node, memory) ==
  [cpu     |-> node.cpuLimit,
   memory  |-> memory,
   request |-> IF node.cpuRequest = Nil THEN node.cpuLimit ELSE node.cpuRequest]
CoordinatorResources(c) == Resources(c.coordinator, c.worker.memory)

WorkerResources(c) == Resources(c.worker, c.worker.memory)

\* The names of the volumes and the paths they are mounted at.
Volumes(c, u, isCoordinator) ==
  <<Name("catalogvol", u),
    Name(IF isCoordinator THEN "coordinatorconfvol" ELSE "workerconfvol", u)>>
  \o [i \in DOMAIN c.volumes |-> c.volumes[i].name]
  \o (IF isCoordinator /\ c.https THEN <<Name("httpssecret", u)>> ELSE <<>>)

MountPaths(c, isCoordinator) ==
  << <<GetPrestoPath(c)>>, <<GetPrestoPath(c), "catalog">> >>
  \o (IF isCoordinator /\ c.https THEN << <<"/etc/httpssecret">> >> ELSE <<>>)
  \o [i \in DOMAIN c.volumes |-> c.volumes[i].path]

CoordinatorTemplate(c, name, u) ==
  [labels    |-> CoordinatorPodLabels(name, u),
   resources |-> CoordinatorResources(c),
   hostname  |-> CoordinatorContainerName(u),
   subdomain |-> PodDiscoveryServiceName(u),
   maps      |-> {ConfigMapName(CoordConf, u), ConfigMapName(CatalogConf, u)},
   secrets   |-> c.catalogSecrets,
   keystore  |-> c.https]

GivenPeriod(c) == IF c.worker.grace = NoGrace THEN 0 ELSE c.worker.grace  \* mutant
GracePeriod(c) ==
  IF c.worker.grace = NoGrace THEN DefaultTerminationGracePeriodSeconds
                              ELSE c.worker.grace

WorkerTemplate(c, name, u) ==
  [labels    |-> WorkerPodLabels(name, u),
   resources |-> WorkerResources(c),
   maps      |-> {ConfigMapName(WorkerConf, u), ConfigMapName(CatalogConf, u)},
   secrets   |-> c.catalogSecrets,
   path      |-> GetPrestoPath(c),
   grace     |-> GracePeriod(c)]

---------------------------------------------------------------------------
(***************************************************************************)
(* The stages that refuse a spec.  The services and the config maps are    *)
(* checked in every reconcile that comes to the stage, the templates only  *)
(* when the replica set is to be created.                                  *)
(***************************************************************************)
ServiceRefused(c) == c.type = "ExternalName"
CoordinatorConfigRefused(c, u) ==
  \/ KeystoreMissing(c)
  \/ Reserves(SystemProps(c, u), c.coordinator)
  \/ c.coordinator.memory = Unparsable
WorkerConfigRefused(c, u) ==
  \/ Reserves(WorkerSystemProps(c, u), c.worker)
  \/ c.worker.memory = Unparsable

TemplateRefused(resources) ==
  \E q \in {resources.cpu, resources.memory, resources.request} : q = Unparsable

RefusedAlways(c, u) ==
  (IF ServiceRefused(c) THEN {ExternalSvc} ELSE {})
  \cup (IF CoordinatorConfigRefused(c, u) THEN {CoordConf} ELSE {})
  \cup (IF WorkerConfigRefused(c, u) THEN {WorkerConf} ELSE {})
RefusedOnCreate(c) ==
  (IF TemplateRefused(CoordinatorResources(c)) THEN {CoordRS} ELSE {})
  \cup (IF TemplateRefused(WorkerResources(c)) THEN {WorkerRS} ELSE {})

(***************************************************************************)
(* External: what the API server refuses.  A node port needs a type that   *)
(* has one (the type left out is ClusterIP); a template needs distinct     *)
(* volumes and mount paths, quantities that are not negative, a request    *)
(* within the limit, and no two secrets projected to one file.             *)
(***************************************************************************)
ServiceRejected(c) ==
  GetServicePort(c).nodePort # Nil /\ c.type \notin {"NodePort", "LoadBalancer"}
TemplateRejected(c, u, isCoordinator) ==
  LET r == IF isCoordinator THEN CoordinatorResources(c) ELSE WorkerResources(c)
      given == {r.cpu, r.memory, r.request} \ {Unparsable}
  IN \/ ~ Unique(Volumes(c, u, isCoordinator))
     \/ ~ Unique(MountPaths(c, isCoordinator))
     \/ \E q \in given : q < 0
     \/ {r.request, r.cpu} \subseteq given /\ r.request > r.cpu
     \/ ~ Unique([i \in DOMAIN c.catalogSecrets |-> c.catalogSecrets[i].key])
Rejected(c, u) ==
  (IF ServiceRejected(c) THEN {ExternalSvc} ELSE {})
  \cup (IF TemplateRejected(c, u, TRUE) THEN {CoordRS} ELSE {})
  \cup (IF TemplateRejected(c, u, FALSE) THEN {WorkerRS} ELSE {})

=============================================================================

----------------------------- MODULE PrestoPods -----------------------------
(***************************************************************************)
(* One cluster at work.  The stages of the reconciler build its objects    *)
(* one after the other, each from the spec that holds at that time; the    *)
(* pods run with what the objects say: the coordinator and a worker start, *)
(* the worker finds the coordinator, executes tasks, and is terminated     *)
(* through the shutdown script; clients connect to the external service.   *)
(*                                                                         *)
(* The pods, Presto's servers and the network are external: they are       *)
(* modelled as far as the configuration decides what they do.              *)
(***************************************************************************)
EXTENDS PrestoConfig, FiniteSets

CONSTANTS
  Conf,         \* the specs users write, by a short name
  None,         \* no spec
  Uuid,         \* the uuid of the cluster
  PrestoName,   \* the name of the Presto
  MaxEdits,     \* bound on edits of the spec
  MaxTasks      \* bound on the tasks of a worker

ASSUME PodsAssumption ==
  /\ None \notin DOMAIN Conf
  /\ MaxEdits \in Nat /\ MaxTasks \in Nat

\* Ports are numbers, properties are pairs, and those by which a server is told
\* where to listen have values it can read; the catalogs are a list.  The
\* additional properties are a map.  Heap options are numbers, also in a
\* jvm.config of the user.
ASSUME ConfAssumption ==
  \A n \in DOMAIN Conf :
    /\ Conf[n].port \in Nat /\ Conf[n].https \in BOOLEAN
    /\ \A node \in {Conf[n].coordinator, Conf[n].worker} :
         /\ node.memory \in Int \cup {Unparsable} /\ node.heap \in Seq(Int)
         /\ \A a, b \in node.props : a[1] = b[1] => a = b
    /\ "jvm_config" \in DOMAIN Conf[n].files => Conf[n].files.jvm_config \in Seq(Int)
    /\ \A line \in Conf[n].coordinator.props \cup Conf[n].worker.props :
         /\ line = <<line[1], line[2]>>
         /\ line[1] = "http-server.http.enabled" => line[2] \in {"true", "false"}
         /\ line[1] = "http-server.https.port" => line[2] \in Nat \ {Nil}
    /\ Len(Conf[n].catalogSpec) \in Nat
    /\ DOMAIN Conf[n].catalogSpec = 1..Len(Conf[n].catalogSpec)

VARIABLES
  spec,         \* the name of Presto.Spec
  edits,        \* edits left
  data,         \* the content of each object, None before it exists
  built,        \* the name of the spec it was built from
  coordinator,  \* "none" or "up": the coordinator's server
  server,       \* the worker's server: "none", "up", "draining" or "down"
  joined,       \* the coordinator knows the worker and gives it tasks
  tasks,        \* tasks the worker executes
  hook,         \* the shutdown script: "no", "http", "https", "wait", "ended"
  lost,         \* the worker's server ended with tasks
  expired,      \* the grace period ended
  client        \* what the last client met

vars == <<spec, edits, data, built, coordinator, server, joined, tasks, hook, lost,
          expired, client>>
pods == <<coordinator, server, joined, tasks, hook, lost, expired>>

Names == DOMAIN Conf

Init ==
  /\ spec \in Names
  /\ edits = MaxEdits
  /\ data = [k \in Mandatory |-> None]
  /\ built = [k \in Mandatory |-> None]
  /\ coordinator = "none" /\ server = "none"
  /\ joined = FALSE /\ tasks = 0
  /\ hook = "no" /\ lost = FALSE /\ expired = FALSE
  /\ client = "none"

---------------------------------------------------------------------------
(***************************************************************************)
(* The reconciler.  A reconcile comes to stage k through the earlier ones, *)
(* which find their objects but check the spec again.                      *)
(***************************************************************************)
Exists(k) == built[k] # None
Of(k) == Conf[built[k]]

Content(k, c) ==
  CASE k = Headless    -> [name |-> PodDiscoveryServiceName(Uuid),
                           selector |-> HeadlessSelector(PrestoName, Uuid)]
    [] k = ExternalSvc -> [ports |-> GetServicePort(c), selector |-> ExternalSelector(Uuid)]
    [] k = CoordConf   -> BuildConfigMap(c, Uuid, TRUE)
    [] k = WorkerConf  -> BuildConfigMap(c, Uuid, FALSE)
    [] k = CatalogConf -> BuildCatalogConfigMap(c)
    [] k = CoordRS     -> CoordinatorTemplate(c, PrestoName, Uuid)
    [] k = WorkerRS    -> WorkerTemplate(c, PrestoName, Uuid)

Build(k) ==
  /\ ~ Exists(k)
  /\ \A j \in 1..(k - 1) : Exists(j)
  /\ RefusedAlways(Conf[spec], Uuid) \cap 1..k = {}
  /\ k \notin RefusedOnCreate(Conf[spec]) \cup Rejected(Conf[spec], Uuid)
  /\ data' = [data EXCEPT ![k] = Content(k, Conf[spec])]
  /\ built' = [built EXCEPT ![k] = spec]
  /\ UNCHANGED <<spec, edits, pods, client>>

EditSpec ==
  /\ edits > 0
  /\ spec' \in Names \ {spec}
  /\ edits' = edits - 1
  /\ UNCHANGED <<data, built, pods, client>>

---------------------------------------------------------------------------
(***************************************************************************)
(* What the objects say.                                                   *)
(***************************************************************************)
CoordinatorLines == data[CoordConf].config_properties
WorkerLines      == data[WorkerConf].config_properties

Value(lines, key, default) ==
  IF key \in Keys(lines) THEN (CHOOSE line \in lines : line[1] = key)[2]
                         ELSE default

\* The ports a server listens on, with Presto's defaults.
Listens(lines) ==
  (IF Value(lines, "http-server.http.enabled", "true") = "true"
   THEN {<<"http", Value(lines, "http-server.http.port", 8080)>>} ELSE {})
  \cup (IF Value(lines, "http-server.https.enabled", "false") = "true"
        THEN {<<"https", Value(lines, "http-server.https.port", 8443)>>} ELSE {})

\* Presto refuses a property given twice, and two listeners on one port.
Startable(lines) ==
  /\ \A a, b \in lines : a[1] = b[1] => a = b
  /\ \A a, b \in Listens(lines) : a[2] = b[2] => a = b

\* The JVM ends at once if one of its -Xmx options is not positive.
JvmAccepts(options) == \A heap \in Entries(options) : heap > 0

\* A pod waits for the config maps its volumes name.
MapsExist(template) ==
  template.maps \subseteq
    {ConfigMapName(k, Uuid) : k \in {j \in {CoordConf, WorkerConf, CatalogConf} : Exists(j)}}

---------------------------------------------------------------------------
(***************************************************************************)
(* Coordinator and workers.                                                *)
(***************************************************************************)
\* With HTTPS the server reads its keystore from the mounted secret.
CoordinatorCanStart ==
  /\ MapsExist(data[CoordRS])
  /\ JvmAccepts(data[CoordConf].jvm_config)
  /\ Startable(CoordinatorLines)
  /\ Value(CoordinatorLines, "http-server.https.enabled", "false") = "true"
       => data[CoordRS].keystore
WorkerCanStart ==
  /\ MapsExist(data[WorkerRS])
  /\ JvmAccepts(data[WorkerConf].jvm_config)
  /\ Startable(WorkerLines)

CoordinatorStarts ==
  /\ Exists(CoordRS) /\ coordinator = "none"
  /\ CoordinatorCanStart
  /\ coordinator' = "up"
  /\ UNCHANGED <<spec, edits, data, built, server, joined, tasks, hook, lost, expired,
                 client>>

WorkerStarts ==
  /\ Exists(WorkerRS) /\ server = "none"
  /\ WorkerCanStart
  /\ server' = "up"
  /\ lost' = FALSE /\ expired' = FALSE
  /\ UNCHANGED <<spec, edits, data, built, coordinator, joined, tasks, hook, client>>

\* A host name resolves through the headless service.
Resolves(host) ==
  /\ coordinator = "up" /\ Exists(Headless)
  /\ host = <<data[CoordRS].hostname, data[CoordRS].subdomain>>
  /\ host[2] = data[Headless].name
  /\ Selects(data[Headless].selector, data[CoordRS].labels)

FindsCoordinator ==
  LET uri == Value(WorkerLines, "discovery.uri", <<>>)
  IN /\ uri # <<>>
     /\ Resolves(uri[1])
     /\ <<"http", uri[2]>> \in Listens(CoordinatorLines)

Join ==
  /\ server = "up" /\ ~ joined
  /\ FindsCoordinator
  /\ joined' = TRUE
  /\ UNCHANGED <<spec, edits, data, built, coordinator, server, tasks, hook, lost,
                 expired, client>>

AssignTask ==
  /\ joined /\ server \in {"up", "draining"}
  /\ tasks < MaxTasks
  /\ tasks' = tasks + 1
  /\ UNCHANGED <<spec, edits, data, built, coordinator, server, joined, hook, lost,
                 expired, client>>

FinishTask ==
  /\ tasks > 0
  /\ tasks' = tasks - 1
  /\ UNCHANGED <<spec, edits, data, built, coordinator, server, joined, hook, lost,
                 expired, client>>

---------------------------------------------------------------------------
(***************************************************************************)
(* Termination of the worker's pod: the preStop hook runs the script, then *)
(* the server gets SIGTERM; the grace period bounds both.  Without a grace *)
(* period the hook does not run.                                           *)
(***************************************************************************)
Running == server \in {"up", "draining"}

TerminateWorker ==
  /\ Running /\ hook = "no"
  /\ hook' = IF data[WorkerRS].grace = 0 THEN "ended" ELSE "http"
  /\ UNCHANGED <<spec, edits, data, built, coordinator, server, joined, tasks, lost,
                 expired, client>>

\* The script reads the ports from the path written into it; it finds the
\* file there if the config map is mounted at this path.
ScriptPort(key) ==
  IF data[WorkerConf].presto_shutdown = data[WorkerRS].path
  THEN Value(WorkerLines, key, Nil) ELSE Nil
HttpPort  == ScriptPort("http-server.http.port")
HttpsPort == ScriptPort("http-server.https.port")
Answers(protocol, port) ==
  Running /\ <<protocol, port>> \in Listens(WorkerLines)

\* Mutant: the script waits, whether the server took the request or not.
RequestUnchecked(protocol, port, next) ==
  /\ hook' = "wait"
  /\ server' = IF Answers(protocol, port) THEN "draining" ELSE server
  /\ UNCHANGED <<spec, edits, data, built, coordinator, joined, tasks, lost, expired,
                 client>>

\* A request to the server to shut down; if it fails, the script goes on.
Request(protocol, port, next) ==
  /\ IF Answers(protocol, port)
     THEN server' = "draining" /\ hook' = "wait"
     ELSE hook' = next /\ UNCHANGED server
  /\ UNCHANGED <<spec, edits, data, built, coordinator, joined, tasks, lost, expired,
                 client>>

RequestOverHttp == hook = "http" /\ Request("http", HttpPort, "https")
RequestOverHttps == hook = "https" /\ Request("https", HttpsPort, "ended")

SkipWait ==                                                        \* mutant
  /\ hook = "wait"
  /\ hook' = "ended"
  /\ UNCHANGED <<spec, edits, data, built, coordinator, server, joined, tasks, lost,
                 expired, client>>

UntilItSaysDown ==                                                 \* mutant
  /\ hook = "wait"
  /\ Answers("http", HttpPort) /\ server = "down"
  /\ hook' = "ended"
  /\ UNCHANGED <<spec, edits, data, built, coordinator, server, joined, tasks, lost,
                 expired, client>>

\* The loop ends when the HTTP port no longer answers.
WaitForServer ==
  /\ hook = "wait"
  /\ ~ Answers("http", HttpPort)
  /\ hook' = "ended"
  /\ UNCHANGED <<spec, edits, data, built, coordinator, server, joined, tasks, lost,
                 expired, client>>

\* The coordinator learns that the worker is shutting down.
NoticeDraining ==
  /\ server = "draining" /\ joined
  /\ joined' = FALSE
  /\ UNCHANGED <<spec, edits, data, built, coordinator, server, tasks, hook, lost,
                 expired, client>>

ServerDrained ==
  /\ server = "draining" /\ ~ joined /\ tasks = 0
  /\ server' = "down"
  /\ UNCHANGED <<spec, edits, data, built, coordinator, joined, tasks, hook, lost,
                 expired, client>>

ServerKilled ==
  /\ server' = "down" /\ joined' = FALSE
  /\ lost' = (tasks > 0) /\ tasks' = 0

Sigterm ==
  /\ hook = "ended" /\ Running
  /\ ServerKilled
  /\ UNCHANGED <<spec, edits, data, built, coordinator, hook, expired, client>>

GraceExpires ==
  /\ hook \in {"http", "https", "wait"} /\ Running
  /\ ServerKilled
  /\ expired' = TRUE /\ hook' = "ended"
  /\ UNCHANGED <<spec, edits, data, built, coordinator, client>>

\* The replica set replaces the pod.
PodRemoved ==
  /\ hook = "ended" /\ server = "down"
  /\ server' = "none" /\ hook' = "no"
  /\ UNCHANGED <<spec, edits, data, built, coordinator, joined, tasks, lost, expired,
                 client>>

---------------------------------------------------------------------------
(***************************************************************************)
(* A client connects to the external service, which leads to a ready pod   *)
(* that its selector matches.                                              *)
(***************************************************************************)
Endpoints ==
  {p \in {"coordinator", "worker"} :
     IF p = "coordinator"
     THEN coordinator = "up" /\ Selects(data[ExternalSvc].selector, data[CoordRS].labels)
     ELSE server = "up" /\ Selects(data[ExternalSvc].selector, data[WorkerRS].labels)}

Connect ==
  /\ Exists(ExternalSvc)
  /\ \E p \in Endpoints :
       LET met == {l \in Listens(CoordinatorLines) : l[2] = data[ExternalSvc].ports.target}
       IN client' = IF p = "worker" THEN p
                    ELSE IF met = {} THEN "refused" ELSE (CHOOSE l \in met : TRUE)[1]
  /\ UNCHANGED <<spec, edits, data, built, pods>>

Next ==
  \/ \E k \in Mandatory : Build(k)
  \/ EditSpec
  \/ CoordinatorStarts \/ WorkerStarts \/ Join \/ AssignTask \/ FinishTask
  \/ TerminateWorker \/ RequestOverHttp \/ RequestOverHttps \/ WaitForServer
  \/ NoticeDraining \/ ServerDrained \/ Sigterm \/ GraceExpires \/ PodRemoved
  \/ Connect

Spec == Init /\ [][Next]_vars

(***************************************************************************)
(* Kubernetes starts the pods it can start and removes ended ones; Presto  *)
(* announces a worker until the coordinator knows it, and a worker asked   *)
(* to shut down finishes its tasks.  Nothing is assumed of the reconciler, *)
(* of users and of clients, and not that the grace period ever ends.       *)
(***************************************************************************)
Script  == RequestOverHttp \/ RequestOverHttps \/ WaitForServer
Kubelet == Sigterm \/ PodRemoved
Drain   == NoticeDraining \/ ServerDrained

Fairness ==
  /\ WF_vars(CoordinatorStarts) /\ WF_vars(WorkerStarts) /\ WF_vars(Join)
  /\ WF_vars(Script) /\ WF_vars(Kubelet) /\ WF_vars(Drain) /\ WF_vars(FinishTask)

FairSpec == Spec /\ Fairness

---------------------------------------------------------------------------
(***************************************************************************)
(* Properties.                                                             *)
(***************************************************************************)
TypeOK ==
  /\ spec \in Names
  /\ edits \in 0..MaxEdits
  /\ built \in [Mandatory -> Names \cup {None}]
  /\ coordinator \in {"none", "up"}
  /\ server \in {"none", "up", "draining", "down"}
  /\ hook \in {"no", "http", "https", "wait", "ended"}
  /\ tasks \in 0..MaxTasks
  /\ {joined, lost, expired} \subseteq BOOLEAN
  /\ client \in {"none", "http", "https", "refused", "worker"}
  /\ \A k \in {CoordConf, WorkerConf} :
       Exists(k) => Entries(data[k].jvm_config) \subseteq Int
  /\ Exists(ExternalSvc) => data[ExternalSvc].ports.target \in Nat

\* No file of the user replaces config.properties or the script.
Generated(k) ==
  {"config_properties", "presto_shutdown"} \cap DOMAIN Of(k).files = {}

\* Two objects were built from the same settings of the coordinator's ports.
SamePorts(j, k) ==
  Port(Of(j)) = Port(Of(k)) /\ Of(j).https = Of(k).https

\* The user leaves the coordinator's HTTP server on.
HttpOn(k) == <<"http-server.http.enabled", "false">> \notin Of(k).coordinator.props

\* Clients of the external service reach the coordinator, never a worker, and
\* meet HTTPS exactly if it is enabled: the internal HTTP port stays hidden.
\* This holds of a service and a configuration built from the same ports
\* (getServicePort, getHTTPPort, the selector of createOrGetService).
ClientsMeetCoordinator ==
  /\ client # "worker"
  /\ client # "none" /\ SamePorts(ExternalSvc, CoordConf)
       /\ Generated(CoordConf) /\ HttpOn(CoordConf)
     => client = IF Of(CoordConf).https THEN "https" ELSE "http"

\* A terminated worker loses its tasks only if the grace period ends before
\* they do, or the script cannot watch the server: there is no grace period,
\* the server does not serve HTTP, or the file the script reads is not where
\* the config map is mounted (presto_shutdown.sh, createPrestoPodSpec).
TasksSurviveShutdown ==
  lost => \/ expired
          \/ Of(WorkerRS).worker.grace = 0
          \/ ~ Generated(WorkerConf)
          \/ <<"http-server.http.enabled", "false">> \in Of(WorkerConf).worker.props
          \/ GetPrestoPath(Of(WorkerConf)) # GetPrestoPath(Of(WorkerRS))

\* Once the script has asked the server to shut down it blocks until the
\* server is down, as its comment says, if the server serves HTTP on the port
\* the operator wrote, or the grace period ends first.
ScriptBlocks ==
  hook = "ended" /\ server = "draining" /\ Generated(WorkerConf)
    => <<"http-server.http.enabled", "false">> \in WorkerLines

\* The catalog directory of a running server holds the catalogs of the spec that
\* the config map was built from, those of the secrets in the template and the
\* default ones, with the content of the user where the user gives one.  Whatever
\* is edited in between, only a default catalog that a secret was to replace can
\* be missing, if that secret is taken out again before the template is built
\* (buildCatalogConfigMap, getDefaultCatalogs, getCatalogVolumeMount).
CatalogsComplete ==
  \A k \in {j \in {CoordRS, WorkerRS} : Exists(j)} :
    LET c == Of(CatalogConf)
        t == Of(k)
        directory == CatalogDirectory(data[CatalogConf], data[k].secrets)
    IN /\ CatalogNames(c) \cup SecretKeys(t) \subseteq DOMAIN directory
       /\ DefaultCatalogs \ DOMAIN directory \subseteq SecretKeys(c) \ SecretKeys(t)
       /\ \A n \in DOMAIN directory :
            directory[n] \in IF UserFiles(c, t, n) = {} THEN DefaultCatalogs \cap {n}
                                                       ELSE UserFiles(c, t, n)

\* The part of the spec that a config map is built from.
Node(k) == IF k = CoordConf THEN Of(k).coordinator ELSE Of(k).worker

\* The heap that the user asks for is one the JVM accepts.
Sized(k) ==
  IF "jvm_config" \in DOMAIN Of(k).files
  THEN JvmAccepts(Of(k).files.jvm_config)
  ELSE Node(k).memory >= MiB /\ JvmAccepts(Node(k).heap)

\* The settings with which a cluster can work: the ports were not edited
\* between the two configurations, nor HTTPS before the template, and the
\* user did not switch the coordinator's HTTP off, replace a generated file, give
\* the worker's HTTPS the port of its HTTP or ask for a heap that is no heap.
Workable ==
  /\ \A k \in Mandatory : Exists(k)
  /\ SamePorts(CoordConf, WorkerConf)
  /\ Of(CoordConf).https => Of(CoordRS).https
  /\ \A k \in {CoordConf, WorkerConf} : Generated(k) /\ Sized(k)
  /\ HttpOn(CoordConf)
  /\ <<"http-server.https.port", PrestoPort>> \notin Of(WorkerConf).worker.props

\* Nothing the operator wrote keeps a workable cluster from working: both servers
\* can start with the objects they got, whatever specs these were built from, and
\* the worker's configuration leads to the running coordinator: its host resolves
\* through the headless service, and it listens on the port (BuildConfigMap,
\* workerConfigPropsMap, createPrestoPodSpec).
WorkableCanJoin ==
  Workable => /\ CoordinatorCanStart /\ WorkerCanStart
              /\ coordinator = "up" => FindsCoordinator

\* A built cluster comes to work: its servers start, and the worker finds the
\* coordinator at the host and the port written into its configuration
\* (workerConfigPropsMap, coordinatorConfigPropsMap, the headless service,
\* hostname and subdomain of createPrestoPodSpec).
WorkersJoin == Workable ~> joined \/ hook # "no"

\* The termination of a worker ends although the grace period may last for
\* ever, whatever the script meets: its loop does not hang when the server is
\* down, cannot be asked to shut down, or does not serve HTTP.
TerminationEnds == hook # "no" ~> hook = "no"

\* The loop of the script waits only for a server that was asked to shut down:
\* it never waits for one that has no reason to end (presto_shutdown.sh).
WaitsForDraining == hook = "wait" => server \in {"draining", "down"}

---------------------------------------------------------------------------
(***************************************************************************)
(* A statement of the documentation that does not hold.                    *)
(***************************************************************************)

\* docs/prestoresource.md: coordinator and worker are used to specify the
\* properties of coordinator and worker.  So the heap that the operator derives
\* from the coordinator's memory limit fits into the coordinator's container.
CoordinatorHeapFits ==
  /\ coordinator = "up" /\ built[CoordConf] = built[CoordRS]
  /\ Of(CoordConf).coordinator.heap = <<>>
  /\ "jvm_config" \notin DOMAIN Of(CoordConf).files
  => Heap(data[CoordConf].jvm_config) * MiB <= data[CoordRS].resources.memory

=============================================================================

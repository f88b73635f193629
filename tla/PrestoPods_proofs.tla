-------------------------- MODULE PrestoPods_proofs --------------------------
(***************************************************************************)
(* Proofs about PrestoPods, for every set of specs: what clients meet,     *)
(* what the shutdown script guarantees, which catalogs the servers find,   *)
(* and that a workable cluster can work.                                   *)
(***************************************************************************)
EXTENDS PrestoPods, PrestoConfig_proofs

HttpEnabled  == "http-server.http.enabled"
HttpsEnabled == "http-server.https.enabled"
HttpPortKey  == "http-server.http.port"
HttpsPortKey == "http-server.https.port"
Off          == <<HttpEnabled, "false">>

-----------------------------------------------------------------------------
(***************************************************************************)
(* Reading a file of properties.                                           *)
(***************************************************************************)

LEMMA ValueGiven ==
  ASSUME NEW lines, NEW key, NEW default, NEW v, <<key, v>> \in lines,
         \A line \in lines : line[1] = key => line[2] = v
  PROVE  Value(lines, key, default) = v
<1>1. key \in Keys(lines)
  <2>1. <<key, v>>[1] = key
    OBVIOUS
  <2> QED BY <2>1 DEF Keys
<1> DEFINE line == CHOOSE x \in lines : x[1] = key
<1>2. line \in lines /\ line[1] = key
  BY <1>1 DEF Keys
<1>3. Value(lines, key, default) = line[2]
  BY <1>1 DEF Value
<1> HIDE DEF line
<1> QED BY <1>2, <1>3

LEMMA ValueRead ==
  ASSUME NEW lines, NEW key, NEW default
  PROVE  \/ Value(lines, key, default) = default
         \/ \E line \in lines : /\ line[1] = key
                                /\ Value(lines, key, default) = line[2]
<1>1. CASE key \notin Keys(lines)
  BY <1>1 DEF Value
<1>2. CASE key \in Keys(lines)
  <2> DEFINE line == CHOOSE x \in lines : x[1] = key
  <2>1. line \in lines /\ line[1] = key
    BY <1>2 DEF Keys
  <2>2. Value(lines, key, default) = line[2]
    BY <1>2 DEF Value
  <2> HIDE DEF line
  <2> QED BY <2>1, <2>2
<1> QED BY <1>1, <1>2

\* A key of the system properties has its system value.
LEMMA SystemValue ==
  ASSUME NEW system, NEW node, ~ Reserves(system, node), NEW key, NEW v, NEW default,
         <<key, v>> \in system,
         \A line \in system : line[1] = key => line[2] = v
  PROVE  Value(ConfigProps(system, node), key, default) = v
<1>1. key \in Keys(system)
  <2>1. <<key, v>>[1] = key
    OBVIOUS
  <2> QED BY <2>1 DEF Keys
<1>2. \A line \in ConfigProps(system, node) : line[1] = key => line[2] = v
  BY <1>1, SystemPropsKept
<1>3. <<key, v>> \in ConfigProps(system, node)
  BY DEF ConfigProps
<1> QED BY <1>2, <1>3, ValueGiven

-----------------------------------------------------------------------------
(***************************************************************************)
(* Where the servers listen.                                               *)
(***************************************************************************)

\* With a configuration that was not refused, and HTTP left on, the coordinator
\* listens where getHTTPPort says.
LEMMA CoordinatorListens ==
  ASSUME NEW n \in Names, ~ Reserves(SystemProps(Conf[n], Uuid), Conf[n].coordinator),
         Off \notin Conf[n].coordinator.props
  PROVE  LET c == Conf[n]
         IN Listens(ConfigProps(SystemProps(c, Uuid), c.coordinator))
              = {<<"http", GetHTTPPort(c)[1]>>}
                  \cup (IF c.https THEN {<<"https", GetHTTPPort(c)[2]>>} ELSE {})
<1> DEFINE c == Conf[n]
           system == SystemProps(c, Uuid)
           lines == ConfigProps(system, c.coordinator)
<1>1. Value(lines, HttpPortKey, 8080) = GetHTTPPort(c)[1]
  <2>1. <<HttpPortKey, GetHTTPPort(c)[1]>> \in system
    BY DEF SystemProps, HttpPortKey
  <2>2. \A line \in system : line[1] = HttpPortKey => line[2] = GetHTTPPort(c)[1]
    BY DEF SystemProps, HttpPortKey
  <2> HIDE DEF system
  <2> QED BY <2>1, <2>2, SystemValue DEF system
<1>2. Value(lines, HttpsEnabled, "false") = IF c.https THEN "true" ELSE "false"
  <2> DEFINE v == IF c.https THEN "true" ELSE "false"
  <2>1. <<HttpsEnabled, v>> \in system
    BY DEF SystemProps, HttpsEnabled
  <2>2. \A line \in system : line[1] = HttpsEnabled => line[2] = v
    BY DEF SystemProps, HttpsEnabled
  <2> HIDE DEF system, v
  <2> QED BY <2>1, <2>2, SystemValue DEF system, v
<1>3. Value(lines, HttpEnabled, "true") = "true"
  <2>1. \A line \in system : line[1] = HttpEnabled => line[2] = "true"
    BY DEF SystemProps, HttpEnabled
  <2>2. \A line \in c.coordinator.props : line[1] = HttpEnabled => line[2] = "true"
    <3> SUFFICES ASSUME NEW line \in c.coordinator.props, line[1] = HttpEnabled
                 PROVE  line[2] = "true"
      OBVIOUS
    <3>1. line = <<line[1], line[2]>> /\ line[2] \in {"true", "false"}
      BY ConfAssumption DEF Names, HttpEnabled
    <3> QED BY <3>1 DEF Off
  <2>3. \A line \in lines : line[1] = HttpEnabled => line[2] = "true"
    BY <2>1, <2>2 DEF ConfigProps
  <2> HIDE DEF lines
  <2> QED BY <2>3, ValueRead
<1>4. CASE c.https
  <2>1. Value(lines, HttpsPortKey, 8443) = GetHTTPPort(c)[2]
    <3>1. <<HttpsPortKey, GetHTTPPort(c)[2]>> \in system
      BY <1>4 DEF SystemProps, HttpsPortKey
    <3>2. \A line \in system : line[1] = HttpsPortKey => line[2] = GetHTTPPort(c)[2]
      BY <1>4 DEF SystemProps, HttpsPortKey
    <3> HIDE DEF system
    <3> QED BY <3>1, <3>2, SystemValue DEF system
  <2> HIDE DEF lines
  <2>2. Listens(lines) = {<<"http", GetHTTPPort(c)[1]>>, <<"https", GetHTTPPort(c)[2]>>}
    BY <1>1, <1>2, <1>3, <1>4, <2>1
       DEF Listens, HttpPortKey, HttpsPortKey, HttpEnabled, HttpsEnabled
  <2> QED BY <1>4, <2>2 DEF lines
<1>5. CASE ~ c.https
  <2> HIDE DEF lines
  <2>1. Listens(lines) = {<<"http", GetHTTPPort(c)[1]>>}
    BY <1>1, <1>2, <1>3, <1>5
       DEF Listens, HttpPortKey, HttpsPortKey, HttpEnabled, HttpsEnabled
  <2> QED BY <1>5, <2>1 DEF lines
<1> QED BY <1>4, <1>5

\* A worker serves HTTP on the default port, which is also what its script reads,
\* unless the user switches it off; an HTTPS port is not 0.
LEMMA WorkerListens ==
  ASSUME NEW n \in Names, ~ Reserves(WorkerSystemProps(Conf[n], Uuid), Conf[n].worker)
  PROVE  LET lines == ConfigProps(WorkerSystemProps(Conf[n], Uuid), Conf[n].worker)
         IN /\ Value(lines, HttpPortKey, Nil) = PrestoPort
            /\ <<"http", PrestoPort>> \in Listens(lines) \/ Off \in lines
            /\ <<"http", Nil>> \notin Listens(lines)
            /\ <<"https", Nil>> \notin Listens(lines)
            /\ Off \in lines => Off \in Conf[n].worker.props
<1> DEFINE c == Conf[n]
           system == WorkerSystemProps(c, Uuid)
           lines == ConfigProps(system, c.worker)
<1>1. \A default : Value(lines, HttpPortKey, default) = PrestoPort
  <2>1. <<HttpPortKey, PrestoPort>> \in system
    BY DEF WorkerSystemProps, HttpPortKey
  <2>2. \A line \in system : line[1] = HttpPortKey => line[2] = PrestoPort
    BY DEF WorkerSystemProps, HttpPortKey
  <2> HIDE DEF system
  <2> QED BY <2>1, <2>2, SystemValue DEF system
<1>2. ASSUME NEW line \in lines, line[1] \in {HttpEnabled, HttpsPortKey}
      PROVE  line \in c.worker.props
  BY <1>2 DEF ConfigProps, WorkerSystemProps, HttpEnabled, HttpsPortKey
<1>3. Value(lines, HttpEnabled, "true") = "true" \/ Off \in lines
  <2>1. ASSUME NEW line \in lines, line[1] = HttpEnabled, line[2] # "true"
        PROVE  Off \in lines
    <3>1. line \in c.worker.props
      BY <1>2, <2>1
    <3>2. line = <<line[1], line[2]>> /\ line[2] \in {"true", "false"}
      BY <2>1, <3>1, ConfAssumption DEF Names, HttpEnabled
    <3>3. line = Off
      BY <2>1, <3>2 DEF Off
    <3> QED BY <3>3
  <2> HIDE DEF lines
  <2> QED BY <2>1, ValueRead
<1>4. Value(lines, HttpsPortKey, 8443) # Nil
  <2>1. ASSUME NEW line \in lines, line[1] = HttpsPortKey PROVE line[2] # Nil
    <3>1. line \in c.worker.props
      BY <1>2, <2>1
    <3> QED BY <2>1, <3>1, ConfAssumption DEF Names, HttpsPortKey
  <2>2. 8443 # Nil
    BY DEF Nil
  <2> HIDE DEF lines
  <2> QED BY <2>1, <2>2, ValueRead
<1>5. Off \in lines => Off \in c.worker.props
  BY <1>2 DEF Off
<1>6. PrestoPort # Nil
  BY DEF PrestoPort, Nil
<1> HIDE DEF lines
<1>7. <<"http", PrestoPort>> \in Listens(lines) \/ Off \in lines
  BY <1>1, <1>3 DEF Listens, HttpEnabled, HttpPortKey
<1>8. <<"http", Nil>> \notin Listens(lines) /\ <<"https", Nil>> \notin Listens(lines)
  BY <1>1, <1>4, <1>6 DEF Listens, HttpPortKey, HttpsPortKey
<1> QED BY <1>1, <1>5, <1>7, <1>8 DEF lines

-----------------------------------------------------------------------------
(***************************************************************************)
(* The objects: each holds what its spec says, was built from a spec that  *)
(* no stage up to its own refuses, and after the objects before it.        *)
(***************************************************************************)
ObjectsInv ==
  /\ spec \in Names
  /\ built \in [Mandatory -> Names \cup {None}]
  /\ DOMAIN data = Mandatory
  /\ \A k \in Mandatory : Exists(k) =>
       /\ data[k] = Content(k, Of(k))
       /\ RefusedAlways(Of(k), Uuid) \cap 1..k = {}
       /\ \A j \in 1..(k - 1) : Exists(j)

LEMMA HeadlessContent ==
  ASSUME NEW c
  PROVE  Content(Headless, c)
           = [name |-> PodDiscoveryServiceName(Uuid),
              selector |-> HeadlessSelector(PrestoName, Uuid)]
  BY DEF Content, Headless, ExternalSvc, CoordConf, WorkerConf,
     CatalogConf, CoordRS, WorkerRS
LEMMA ServiceContent ==
  ASSUME NEW c
  PROVE  Content(ExternalSvc, c)
           = [ports |-> GetServicePort(c), selector |-> ExternalSelector(Uuid)]
  BY DEF Content, Headless, ExternalSvc, CoordConf, WorkerConf,
     CatalogConf, CoordRS, WorkerRS
LEMMA CoordConfContent ==
  ASSUME NEW c PROVE Content(CoordConf, c) = BuildConfigMap(c, Uuid, TRUE)
  BY DEF Content, Headless, ExternalSvc, CoordConf, WorkerConf,
     CatalogConf, CoordRS, WorkerRS
LEMMA WorkerConfContent ==
  ASSUME NEW c PROVE Content(WorkerConf, c) = BuildConfigMap(c, Uuid, FALSE)
  BY DEF Content, Headless, ExternalSvc, CoordConf, WorkerConf,
     CatalogConf, CoordRS, WorkerRS
LEMMA CatalogConfContent ==
  ASSUME NEW c PROVE Content(CatalogConf, c) = BuildCatalogConfigMap(c)
  BY DEF Content, Headless, ExternalSvc, CoordConf, WorkerConf,
     CatalogConf, CoordRS, WorkerRS
LEMMA CoordRSContent ==
  ASSUME NEW c PROVE Content(CoordRS, c) = CoordinatorTemplate(c, PrestoName, Uuid)
  BY DEF Content, Headless, ExternalSvc, CoordConf, WorkerConf,
     CatalogConf, CoordRS, WorkerRS
LEMMA WorkerRSContent ==
  ASSUME NEW c PROVE Content(WorkerRS, c) = WorkerTemplate(c, PrestoName, Uuid)
  BY DEF Content, Headless, ExternalSvc, CoordConf, WorkerConf,
     CatalogConf, CoordRS, WorkerRS

\* What exists is never changed.
Kept == \A k \in Mandatory :
          Exists(k) => data'[k] = data[k] /\ built'[k] = built[k]

LEMMA BuildKeepsObjects ==
  ASSUME ObjectsInv, NEW k \in Mandatory, Build(k) PROVE ObjectsInv' /\ Kept
<1>1. /\ data' = [data EXCEPT ![k] = Content(k, Conf[spec])]
      /\ built' = [built EXCEPT ![k] = spec] /\ UNCHANGED spec /\ ~ Exists(k)
      /\ RefusedAlways(Conf[spec], Uuid) \cap 1..k = {}
      /\ \A j \in 1..(k - 1) : Exists(j)
  BY DEF Build
<1>2. /\ data'[k] = Content(k, Conf[spec]) /\ built'[k] = spec
      /\ \A j \in Mandatory \ {k} : data'[j] = data[j] /\ built'[j] = built[j]
  BY <1>1 DEF ObjectsInv
<1>3. Kept
  BY <1>1, <1>2 DEF Kept
<1>4. \A j \in Mandatory : Exists(j) => Exists(j)'
  BY <1>3 DEF Kept, Exists
<1>5. ASSUME NEW j \in Mandatory, Exists(j)'
      PROVE  /\ (data[j] = Content(j, Of(j)))'
             /\ (RefusedAlways(Of(j), Uuid) \cap 1..j = {})'
             /\ \A i \in 1..(j - 1) : Exists(i)'
  <2>1. \A i \in 1..(j - 1) : i \in Mandatory
    BY DEF Mandatory
  <2>2. CASE j = k
    <3>1. Of(k)' = Conf[spec]
      BY <1>2 DEF Of
    <3> QED BY Zenon, <1>1, <1>2, <1>4, <2>1, <2>2, <3>1 DEF Content
  <2>3. CASE j # k
    <3>1. Exists(j) /\ Of(j)' = Of(j) /\ data'[j] = data[j]
      BY <1>2, <1>5, <2>3 DEF Exists, Of
    <3> QED BY Zenon, <1>4, <2>1, <3>1 DEF ObjectsInv, Content
  <2> QED BY <2>2, <2>3
<1>6. spec' \in Names /\ built' \in [Mandatory -> Names \cup {None}]
      /\ DOMAIN data' = Mandatory
  BY <1>1 DEF ObjectsInv
<1> QED BY <1>3, <1>5, <1>6 DEF ObjectsInv

LEMMA ObjectsUnchanged ==
  ASSUME ObjectsInv, spec' \in Names, UNCHANGED <<data, built>>
  PROVE  ObjectsInv' /\ Kept
  BY Zenon DEF ObjectsInv, Kept, Exists, Of, Content

LEMMA NextKeepsObjects ==
  ASSUME ObjectsInv, [Next]_vars PROVE ObjectsInv' /\ Kept
<1>1. ASSUME NEW k \in Mandatory, Build(k) PROVE ObjectsInv' /\ Kept
  BY <1>1, BuildKeepsObjects
<1>2. CASE EditSpec
  BY <1>2, ObjectsUnchanged DEF EditSpec
<1>3. CASE UNCHANGED <<spec, data, built>>
  BY <1>3, ObjectsUnchanged DEF ObjectsInv
<1> QED BY <1>1, <1>2, <1>3
        DEF Next, vars, CoordinatorStarts, WorkerStarts, Join, AssignTask, FinishTask,
            TerminateWorker, RequestOverHttp, RequestOverHttps, Request, WaitForServer,
            NoticeDraining, ServerDrained, Sigterm, GraceExpires, PodRemoved, Connect

LEMMA InitObjects == ASSUME Init PROVE ObjectsInv
  BY DEF Init, ObjectsInv, Exists

LEMMA Objects == Spec => []ObjectsInv
<1>1. Init => ObjectsInv
  BY InitObjects
<1>2. ObjectsInv /\ [Next]_vars => ObjectsInv'
  BY NextKeepsObjects
<1> QED BY <1>1, <1>2, PTL DEF Spec

-----------------------------------------------------------------------------
(***************************************************************************)
(* Catalogs.                                                               *)
(***************************************************************************)

\* Servers find every catalog they should, with the user's content where there
\* is one, for every list of catalogs and of secrets and any edits between the
\* config map and the template.
THEOREM CatalogsAreComplete == Spec => []CatalogsComplete
<1>1. ASSUME ObjectsInv PROVE CatalogsComplete
  <2> SUFFICES ASSUME NEW k \in {CoordRS, WorkerRS}, Exists(k)
               PROVE  LET c == Of(CatalogConf)
                          t == Of(k)
                          directory == CatalogDirectory(data[CatalogConf], data[k].secrets)
                      IN /\ CatalogNames(c) \cup SecretKeys(t) \subseteq DOMAIN directory
                         /\ DefaultCatalogs \ DOMAIN directory
                              \subseteq SecretKeys(c) \ SecretKeys(t)
                         /\ \A n \in DOMAIN directory :
                              directory[n] \in IF UserFiles(c, t, n) = {}
                                               THEN DefaultCatalogs \cap {n}
                                               ELSE UserFiles(c, t, n)
    BY Zenon DEF CatalogsComplete
  <2>1. k \in Mandatory /\ CatalogConf \in Mandatory /\ CatalogConf \in 1..(k - 1)
    BY DEF Mandatory, CatalogConf, CoordRS, WorkerRS
  <2>2. Exists(CatalogConf)
    BY <1>1, <2>1 DEF ObjectsInv
  <2>3. data[CatalogConf] = Content(CatalogConf, Of(CatalogConf))
        /\ data[k] = Content(k, Of(k))
    BY <1>1, <2>1, <2>2 DEF ObjectsInv
  <2>4. data[CatalogConf] = BuildCatalogConfigMap(Of(CatalogConf))
    BY <2>3, CatalogConfContent
  <2>5. data[k].secrets = Of(k).catalogSecrets
    <3>1. \/ data[k] = CoordinatorTemplate(Of(k), PrestoName, Uuid)
          \/ data[k] = WorkerTemplate(Of(k), PrestoName, Uuid)
      BY <2>3, CoordRSContent, WorkerRSContent
    <3> QED BY <3>1 DEF CoordinatorTemplate, WorkerTemplate
  <2>6. built[CatalogConf] \in Names
    BY <1>1, <2>1, <2>2 DEF ObjectsInv, Exists
  <2> DEFINE c == Of(CatalogConf)
             t == Of(k)
             directory == CatalogDirectory(BuildCatalogConfigMap(c), t.catalogSecrets)
  <2>7. DOMAIN c.catalogSpec = 1..Len(c.catalogSpec) /\ Len(c.catalogSpec) \in Nat
    BY <2>6, ConfAssumption DEF Of, Names
  <2>8. /\ CatalogNames(c) \cup SecretKeys(t) \subseteq DOMAIN directory
        /\ DefaultCatalogs \ DOMAIN directory \subseteq SecretKeys(c) \ SecretKeys(t)
    BY Zenon, CatalogsKept
  <2>9. \A n \in DOMAIN directory :
          directory[n] \in IF UserFiles(c, t, n) = {} THEN DefaultCatalogs \cap {n}
                                                     ELSE UserFiles(c, t, n)
    BY Zenon, <2>7, CatalogContent
  <2>10. CatalogDirectory(data[CatalogConf], data[k].secrets) = directory
    BY <2>4, <2>5
  <2> HIDE DEF c, t, directory
  <2> QED BY Zenon, <2>8, <2>9, <2>10 DEF c, t
<1> QED BY <1>1, Objects, PTL

-----------------------------------------------------------------------------
(***************************************************************************)
(* Clients.                                                                *)
(***************************************************************************)
PodsInv ==
  /\ coordinator = "up" => Exists(CoordRS)
  /\ server # "none" => Exists(WorkerRS)
  /\ client # "none" => Exists(CoordRS)
  /\ lost => Exists(WorkerRS)
  /\ hook # "no" => server # "none"

\* What the existence of a replica set tells of the earlier objects.
LEMMA CoordinatorBuilt ==
  ASSUME ObjectsInv, Exists(CoordRS)
  PROVE  /\ Exists(ExternalSvc) /\ Exists(CoordConf)
         /\ data[ExternalSvc].ports = GetServicePort(Of(ExternalSvc))
         /\ data[ExternalSvc].selector = ExternalSelector(Uuid)
         /\ data[CoordConf] = BuildConfigMap(Of(CoordConf), Uuid, TRUE)
         /\ built[CoordConf] \in Names /\ Of(CoordConf) = Conf[built[CoordConf]]
         /\ ~ Reserves(SystemProps(Of(CoordConf), Uuid), Of(CoordConf).coordinator)
<1>1. /\ ExternalSvc \in Mandatory /\ CoordConf \in Mandatory /\ CoordRS \in Mandatory
      /\ ExternalSvc \in 1..(CoordRS - 1) /\ CoordConf \in 1..(CoordRS - 1)
  BY DEF Mandatory, ExternalSvc, CoordConf, CoordRS
<1>2. Exists(ExternalSvc) /\ Exists(CoordConf)
  BY <1>1 DEF ObjectsInv
<1>3. /\ data[ExternalSvc] = Content(ExternalSvc, Of(ExternalSvc))
      /\ data[CoordConf] = Content(CoordConf, Of(CoordConf))
      /\ RefusedAlways(Of(CoordConf), Uuid) \cap 1..CoordConf = {}
  BY <1>1, <1>2 DEF ObjectsInv
<1>4. /\ data[ExternalSvc].ports = GetServicePort(Of(ExternalSvc))
      /\ data[ExternalSvc].selector = ExternalSelector(Uuid)
  BY <1>3, ServiceContent
<1>5. data[CoordConf] = BuildConfigMap(Of(CoordConf), Uuid, TRUE)
  BY Zenon, <1>3, CoordConfContent
<1>6. built[CoordConf] \in Names
  BY <1>1, <1>2 DEF ObjectsInv, Exists
<1>7. ~ CoordinatorConfigRefused(Of(CoordConf), Uuid)
  <2>1. CoordConf \in 1..CoordConf
    BY DEF CoordConf
  <2> QED BY <1>3, <2>1 DEF RefusedAlways
<1> QED BY <1>2, <1>4, <1>5, <1>6, <1>7 DEF CoordinatorConfigRefused, Of

\* The lines of a generated config.properties.
LEMMA GeneratedLines ==
  ASSUME NEW c, {"config_properties", "presto_shutdown"} \cap DOMAIN c.files = {}
  PROVE  /\ BuildConfigMap(c, Uuid, TRUE).config_properties
              = ConfigProps(SystemProps(c, Uuid), c.coordinator)
         /\ BuildConfigMap(c, Uuid, FALSE).config_properties
              = ConfigProps(WorkerSystemProps(c, Uuid), c.worker)
         /\ BuildConfigMap(c, Uuid, FALSE).presto_shutdown = GetPrestoPath(c)
  BY DEF BuildConfigMap

LEMMA ListensKinds ==
  ASSUME NEW lines, NEW l \in Listens(lines) PROVE l[1] \in {"http", "https"}
  BY DEF Listens

LEMMA WorkerLabels ==
  ASSUME ObjectsInv, Exists(WorkerRS)
  PROVE  data[WorkerRS] = WorkerTemplate(Of(WorkerRS), PrestoName, Uuid)
<1>1. WorkerRS \in Mandatory
  BY DEF Mandatory, WorkerRS
<1> QED BY <1>1, WorkerRSContent DEF ObjectsInv

LEMMA OrderedReplicaSets ==
  ASSUME ObjectsInv, Exists(WorkerRS) PROVE Exists(CoordRS)
<1>1. WorkerRS \in Mandatory /\ CoordRS \in 1..(WorkerRS - 1)
  BY DEF Mandatory, WorkerRS, CoordRS
<1> QED BY <1>1 DEF ObjectsInv

LEMMA ConnectMeets ==
  ASSUME ObjectsInv, PodsInv, Connect PROVE ClientsMeetCoordinator' /\ Exists(CoordRS)
<1>1. /\ UNCHANGED <<built, data>>
      /\ \E p \in Endpoints :
           LET met == {l \in Listens(CoordinatorLines) :
                         l[2] = data[ExternalSvc].ports.target}
           IN client' = IF p = "worker" THEN p
                        ELSE IF met = {} THEN "refused" ELSE (CHOOSE l \in met : TRUE)[1]
  BY DEF Connect
<1> DEFINE met == {l \in Listens(CoordinatorLines) :
                     l[2] = data[ExternalSvc].ports.target}
           first == CHOOSE l \in met : TRUE
<1>2. Exists(CoordRS)
  <2>1. CASE coordinator = "up"
    BY <2>1 DEF PodsInv
  <2>2. CASE server = "up"
    BY <2>2, OrderedReplicaSets DEF PodsInv
  <2> QED BY <1>1, <2>1, <2>2 DEF Endpoints
<1>3. "worker" \notin Endpoints
  <2> SUFFICES ASSUME "worker" \in Endpoints PROVE FALSE
    OBVIOUS
  <2>1. server = "up" /\ Selects(data[ExternalSvc].selector, data[WorkerRS].labels)
    BY DEF Endpoints
  <2>2. data[WorkerRS].labels = WorkerPodLabels(PrestoName, Uuid)
    BY <2>1, WorkerLabels DEF PodsInv, WorkerTemplate
  <2> QED BY <1>2, <2>1, <2>2, CoordinatorBuilt, ExternalSelectsCoordinator
<1>4. client' = IF met = {} THEN "refused" ELSE first[1]
  BY <1>1, <1>3
<1>5. met # {} => first \in met
  OBVIOUS
<1>6. client' # "worker"
  <2> HIDE DEF first
  <2>1. met # {} => first[1] \in {"http", "https"}
    BY <1>5, ListensKinds
  <2> QED BY <1>4, <2>1
<1>7. ASSUME SamePorts(ExternalSvc, CoordConf), Generated(CoordConf), HttpOn(CoordConf)
      PROVE  client' = IF Of(CoordConf).https THEN "https" ELSE "http"
  <2> DEFINE c == Of(CoordConf)
  <2>1. CoordinatorLines = ConfigProps(SystemProps(c, Uuid), c.coordinator)
    BY Zenon, <1>2, <1>7, CoordinatorBuilt, GeneratedLines DEF CoordinatorLines, Generated
  <2>2. Listens(CoordinatorLines)
          = {<<"http", GetHTTPPort(c)[1]>>}
              \cup (IF c.https THEN {<<"https", GetHTTPPort(c)[2]>>} ELSE {})
    BY <1>2, <1>7, <2>1, CoordinatorBuilt, CoordinatorListens
       DEF HttpOn, Off, HttpEnabled
  <2>3. data[ExternalSvc].ports.target = Port(c)
    <3>1. \A x : GetServicePort(x).target = Port(x)
      BY DEF GetServicePort
    <3> QED BY Zenon, <1>2, <1>7, <3>1, CoordinatorBuilt DEF SamePorts
  <2>4. c.port \in Nat /\ c.https \in BOOLEAN
    BY <1>2, CoordinatorBuilt, ConfAssumption DEF Names
  <2>5. GetHTTPPort(c)[1] # GetHTTPPort(c)[2]
    BY <2>4, PortsDiffer
  <2>6. CASE c.https
    <3>1. GetHTTPPort(c)[2] = Port(c)
      BY <2>6 DEF GetHTTPPort
    <3>2. met = {<<"https", Port(c)>>}
      BY <2>2, <2>3, <2>5, <2>6, <3>1
    <3>3. first = <<"https", Port(c)>>
      BY <3>2
    <3> QED BY <1>4, <2>6, <3>2, <3>3
  <2>7. CASE ~ c.https
    <3>1. GetHTTPPort(c)[1] = Port(c)
      BY <2>7 DEF GetHTTPPort
    <3>2. met = {<<"http", Port(c)>>}
      BY <2>2, <2>3, <2>7, <3>1
    <3>3. first = <<"http", Port(c)>>
      BY <3>2
    <3> QED BY <1>4, <2>7, <3>2, <3>3
  <2> QED BY <2>6, <2>7
<1> QED BY <1>1, <1>2, <1>6, <1>7
        DEF ClientsMeetCoordinator, SamePorts, Generated, HttpOn, Of

LEMMA ExistsKept ==
  ASSUME Kept, NEW k \in Mandatory, Exists(k)
  PROVE  Exists(k)' /\ Of(k)' = Of(k) /\ data'[k] = data[k]
  BY DEF Kept, Exists, Of

LEMMA PodsKept ==
  ASSUME ObjectsInv, PodsInv, [Next]_vars PROVE PodsInv'
<1>1. CoordRS \in Mandatory /\ WorkerRS \in Mandatory
  BY DEF Mandatory, CoordRS, WorkerRS
<1>2. Kept
  BY NextKeepsObjects
<1>3. Exists(CoordRS) => Exists(CoordRS)'
  BY <1>1, <1>2, ExistsKept
<1>4. Exists(WorkerRS) => Exists(WorkerRS)'
  BY <1>1, <1>2, ExistsKept
<1>5. CASE UNCHANGED <<coordinator, server, client, lost, hook>>
  BY <1>3, <1>4, <1>5 DEF PodsInv
<1>6. CASE Connect
  <2>1. Exists(CoordRS) /\ UNCHANGED <<coordinator, server, lost, hook>>
    BY <1>6, ConnectMeets DEF Connect, pods
  <2> QED BY <1>3, <1>4, <2>1 DEF PodsInv
<1>7. CASE CoordinatorStarts
  BY <1>3, <1>4, <1>7 DEF CoordinatorStarts, PodsInv
<1>8. CASE WorkerStarts
  BY <1>3, <1>4, <1>8 DEF WorkerStarts, PodsInv
<1>9. CASE \/ TerminateWorker \/ RequestOverHttp \/ RequestOverHttps \/ WaitForServer
           \/ ServerDrained \/ Sigterm \/ GraceExpires \/ PodRemoved
  <2>1. UNCHANGED <<coordinator, client>> /\ server # "none"
    BY <1>9 DEF TerminateWorker, RequestOverHttp, RequestOverHttps, Request,
                WaitForServer, ServerDrained, Sigterm, GraceExpires, PodRemoved, Running,
                PodsInv
  <2>2. Exists(WorkerRS)'
    BY <1>4, <2>1 DEF PodsInv
  <2>3. hook' # "no" => server' # "none"
    BY <1>9, <2>1 DEF TerminateWorker, RequestOverHttp, RequestOverHttps, Request,
                WaitForServer, ServerDrained, Sigterm, GraceExpires, PodRemoved,
                ServerKilled
  <2> QED BY <1>3, <2>1, <2>2, <2>3 DEF PodsInv
<1> QED BY <1>5, <1>6, <1>7, <1>8, <1>9
        DEF Next, vars, pods, Build, EditSpec, Join, AssignTask, FinishTask,
            NoticeDraining

LEMMA ClientsKept ==
  ASSUME ObjectsInv, PodsInv, ClientsMeetCoordinator, [Next]_vars
  PROVE  ClientsMeetCoordinator'
<1>1. CASE Connect
  BY <1>1, ConnectMeets
<1>2. CASE UNCHANGED client
  <2>1. CASE client = "none"
    BY <1>2, <2>1 DEF ClientsMeetCoordinator
  <2>2. CASE client # "none"
    <3>1. Exists(ExternalSvc) /\ Exists(CoordConf)
      BY <2>2, CoordinatorBuilt DEF PodsInv
    <3>2. ExternalSvc \in Mandatory /\ CoordConf \in Mandatory
      BY DEF Mandatory, ExternalSvc, CoordConf
    <3>3. Of(ExternalSvc)' = Of(ExternalSvc) /\ Of(CoordConf)' = Of(CoordConf)
      BY <3>1, <3>2, NextKeepsObjects, ExistsKept
    <3> QED BY <1>2, <3>3
            DEF ClientsMeetCoordinator, SamePorts, Generated, HttpOn
  <2> QED BY <2>1, <2>2
<1> QED BY <1>1, <1>2
        DEF Next, vars, Build, EditSpec, CoordinatorStarts, WorkerStarts, Join,
            AssignTask, FinishTask, TerminateWorker, RequestOverHttp, RequestOverHttps,
            Request, WaitForServer, NoticeDraining, ServerDrained, Sigterm, GraceExpires,
            PodRemoved

LEMMA Pods == Spec => []PodsInv
<1>1. Init => PodsInv
  BY DEF Init, PodsInv
<1>2. ObjectsInv /\ PodsInv /\ [Next]_vars => PodsInv'
  BY PodsKept
<1> QED BY <1>1, <1>2, Objects, PTL DEF Spec

\* Clients of the external service meet the coordinator, over HTTPS exactly if it
\* is enabled, for every set of specs and however the spec is edited.
THEOREM ClientsReachCoordinator == Spec => []ClientsMeetCoordinator
<1>1. Init => ClientsMeetCoordinator
  BY DEF Init, ClientsMeetCoordinator
<1>2. ObjectsInv /\ PodsInv /\ ClientsMeetCoordinator /\ [Next]_vars
        => ClientsMeetCoordinator'
  BY ClientsKept
<1> QED BY <1>1, <1>2, Objects, Pods, PTL DEF Spec

-----------------------------------------------------------------------------
(***************************************************************************)
(* The shutdown script.                                                    *)
(***************************************************************************)

\* The script finds its file where the config map is mounted.
SamePath == GetPrestoPath(Of(WorkerConf)) = GetPrestoPath(Of(WorkerRS))

\* The script cannot watch the server.
Unwatched ==
  \/ Of(WorkerRS).worker.grace = 0
  \/ ~ Generated(WorkerConf)
  \/ Off \in Of(WorkerConf).worker.props
  \/ ~ SamePath

\* A server is asked only over a port that the script read from its file; it
\* gets to HTTPS, or to its end with the server up, only if it cannot watch it.
ScriptInv ==
  /\ server = "draining" => hook \in {"wait", "ended"}
  /\ hook \in {"http", "https"} => server = "up"
  /\ server = "draining" /\ Generated(WorkerConf) => SamePath
  /\ hook = "https" => Unwatched
  /\ hook = "ended" /\ server = "up" => Unwatched
  /\ hook = "ended" /\ server = "draining" /\ Generated(WorkerConf)
       => Off \in WorkerLines
  /\ lost => expired \/ Unwatched

LEMMA WorkerBuilt ==
  ASSUME ObjectsInv, Exists(WorkerRS)
  PROVE  /\ Exists(WorkerConf)
         /\ data[WorkerConf] = BuildConfigMap(Of(WorkerConf), Uuid, FALSE)
         /\ built[WorkerConf] \in Names /\ Of(WorkerConf) = Conf[built[WorkerConf]]
         /\ ~ Reserves(WorkerSystemProps(Of(WorkerConf), Uuid), Of(WorkerConf).worker)
<1>1. /\ WorkerConf \in Mandatory /\ WorkerRS \in Mandatory
      /\ WorkerConf \in 1..(WorkerRS - 1)
  BY DEF Mandatory, WorkerConf, WorkerRS
<1>2. Exists(WorkerConf)
  BY <1>1 DEF ObjectsInv
<1>3. /\ data[WorkerConf] = Content(WorkerConf, Of(WorkerConf))
      /\ RefusedAlways(Of(WorkerConf), Uuid) \cap 1..WorkerConf = {}
  BY <1>1, <1>2 DEF ObjectsInv
<1>4. data[WorkerConf] = BuildConfigMap(Of(WorkerConf), Uuid, FALSE)
  BY Zenon, <1>3, WorkerConfContent
<1>5. built[WorkerConf] \in Names
  BY <1>1, <1>2 DEF ObjectsInv, Exists
<1>6. ~ WorkerConfigRefused(Of(WorkerConf), Uuid)
  <2>1. WorkerConf \in 1..WorkerConf
    BY DEF WorkerConf
  <2> QED BY <1>3, <2>1 DEF RefusedAlways
<1> QED BY <1>2, <1>4, <1>5, <1>6 DEF WorkerConfigRefused, Of

\* What the script reads and meets, if no file of the user replaces its files.
LEMMA ScriptReads ==
  ASSUME ObjectsInv, Exists(WorkerRS), Generated(WorkerConf)
  PROVE  /\ SamePath => HttpPort = PrestoPort
         /\ ~ SamePath => HttpPort = Nil /\ HttpsPort = Nil
         /\ <<"http", PrestoPort>> \in Listens(WorkerLines) \/ Off \in WorkerLines
         /\ <<"http", Nil>> \notin Listens(WorkerLines)
         /\ <<"https", Nil>> \notin Listens(WorkerLines)
         /\ Off \in WorkerLines => Off \in Of(WorkerConf).worker.props
<1> DEFINE c == Of(WorkerConf)
<1>1. WorkerLines = ConfigProps(WorkerSystemProps(c, Uuid), c.worker)
  BY Zenon, WorkerBuilt, GeneratedLines DEF WorkerLines, Generated
<1>2. data[WorkerConf].presto_shutdown = GetPrestoPath(c)
  BY Zenon, WorkerBuilt, GeneratedLines DEF Generated
<1>3. data[WorkerRS].path = GetPrestoPath(Of(WorkerRS))
  <2>1. \A d, name, u : WorkerTemplate(d, name, u).path = GetPrestoPath(d)
    BY DEF WorkerTemplate
  <2> QED BY <2>1, WorkerLabels
<1>4. /\ Value(WorkerLines, HttpPortKey, Nil) = PrestoPort
      /\ <<"http", PrestoPort>> \in Listens(WorkerLines) \/ Off \in WorkerLines
      /\ <<"http", Nil>> \notin Listens(WorkerLines)
      /\ <<"https", Nil>> \notin Listens(WorkerLines)
      /\ Off \in WorkerLines => Off \in c.worker.props
  BY <1>1, WorkerBuilt, WorkerListens
<1>5. /\ SamePath => HttpPort = PrestoPort
      /\ ~ SamePath => HttpPort = Nil /\ HttpsPort = Nil
  BY <1>2, <1>3, <1>4 DEF SamePath, HttpPort, HttpsPort, ScriptPort, HttpPortKey
<1> QED BY <1>4, <1>5

\* None of the facts about what was built changes.
LEMMA WorkerKept ==
  ASSUME ObjectsInv, Kept, Exists(WorkerRS)
  PROVE  /\ Unwatched' <=> Unwatched
         /\ SamePath' <=> SamePath
         /\ Generated(WorkerConf)' <=> Generated(WorkerConf)
         /\ WorkerLines' = WorkerLines
<1>1. WorkerConf \in Mandatory /\ WorkerRS \in Mandatory
  BY DEF Mandatory, WorkerConf, WorkerRS
<1>2. /\ Of(WorkerConf)' = Of(WorkerConf) /\ Of(WorkerRS)' = Of(WorkerRS)
      /\ data'[WorkerConf] = data[WorkerConf]
  BY <1>1, WorkerBuilt, ExistsKept
<1> QED BY <1>2 DEF Unwatched, SamePath, Generated, WorkerLines

\* A request is answered only if the script reads the right file, and fails only
\* if it cannot watch the server.
LEMMA RequestMeets ==
  ASSUME ObjectsInv, Exists(WorkerRS), server = "up"
  PROVE  /\ Answers("http", HttpPort) /\ Generated(WorkerConf) => SamePath
         /\ Answers("https", HttpsPort) /\ Generated(WorkerConf) => SamePath
         /\ ~ Answers("http", HttpPort) => Unwatched
  BY ScriptReads DEF Answers, Running, Unwatched

LEMMA ScriptKept ==
  ASSUME ObjectsInv, PodsInv, ScriptInv, [Next]_vars PROVE ScriptInv'
<1>1. Kept
  BY NextKeepsObjects
<1>2. Exists(WorkerRS) =>
        /\ Unwatched' <=> Unwatched
        /\ SamePath' <=> SamePath
        /\ Generated(WorkerConf)' <=> Generated(WorkerConf)
        /\ WorkerLines' = WorkerLines
  BY <1>1, WorkerKept
<1>3. CASE UNCHANGED <<server, hook, lost, expired>>
  <2>1. CASE Exists(WorkerRS)
    BY <1>2, <1>3, <2>1 DEF ScriptInv
  <2>2. CASE ~ Exists(WorkerRS)
    <3>1. server = "none" /\ hook = "no" /\ ~ lost
      BY <2>2 DEF PodsInv
    <3> QED BY <1>3, <3>1 DEF ScriptInv
  <2> QED BY <2>1, <2>2
<1>4. CASE WorkerStarts
  <2>1. server' = "up" /\ hook' = hook /\ hook = "no" /\ lost' = FALSE
    BY <1>4 DEF WorkerStarts, PodsInv
  <2> QED BY <2>1 DEF ScriptInv
<1>5. CASE TerminateWorker
  <2>1. server = "up" /\ Exists(WorkerRS) /\ UNCHANGED <<server, lost, expired>>
    BY <1>5 DEF TerminateWorker, Running, ScriptInv, PodsInv
  <2>2. hook' = "http" \/ (hook' = "ended" /\ data[WorkerRS].grace = 0)
    BY <1>5 DEF TerminateWorker
  <2>3. data[WorkerRS].grace = 0 => Unwatched
    <3>1. \A d, name, u : WorkerTemplate(d, name, u).grace = GracePeriod(d)
      BY DEF WorkerTemplate
    <3>2. data[WorkerRS].grace = GracePeriod(Of(WorkerRS))
      BY <2>1, <3>1, WorkerLabels
    <3> QED BY <3>2 DEF GracePeriod, Unwatched,
                        DefaultTerminationGracePeriodSeconds
  <2> QED BY <1>2, <2>1, <2>2, <2>3 DEF ScriptInv
<1>6. CASE RequestOverHttp
  <2>1. server = "up" /\ Exists(WorkerRS) /\ UNCHANGED <<lost, expired>>
    BY <1>6 DEF RequestOverHttp, Request, ScriptInv, PodsInv
  <2>2. \/ Answers("http", HttpPort) /\ server' = "draining" /\ hook' = "wait"
        \/ ~ Answers("http", HttpPort) /\ server' = "up" /\ hook' = "https"
    BY <1>6, <2>1 DEF RequestOverHttp, Request
  <2> QED BY <1>2, <2>1, <2>2, RequestMeets DEF ScriptInv
<1>7. CASE RequestOverHttps
  <2>1. /\ server = "up" /\ Exists(WorkerRS) /\ Unwatched
        /\ UNCHANGED <<lost, expired>>
    BY <1>7 DEF RequestOverHttps, Request, ScriptInv, PodsInv
  <2>2. \/ Answers("https", HttpsPort) /\ server' = "draining" /\ hook' = "wait"
        \/ server' = "up" /\ hook' = "ended"
    BY <1>7, <2>1 DEF RequestOverHttps, Request
  <2> QED BY <1>2, <2>1, <2>2, RequestMeets DEF ScriptInv
<1>8. CASE WaitForServer
  <2>1. /\ hook = "wait" /\ ~ Answers("http", HttpPort) /\ hook' = "ended"
        /\ UNCHANGED <<server, lost, expired>> /\ Exists(WorkerRS)
    BY <1>8 DEF WaitForServer, PodsInv
  <2>2. CASE server = "draining"
    <3>1. Generated(WorkerConf) => Off \in WorkerLines
      BY <2>1, <2>2, ScriptReads DEF Answers, Running, ScriptInv
    <3> QED BY <1>2, <2>1, <2>2, <3>1 DEF ScriptInv
  <2>3. CASE server = "up"
    <3>1. Unwatched
      BY <2>1, <2>3, RequestMeets
    <3> QED BY <1>2, <2>1, <2>3, <3>1 DEF ScriptInv
  <2>4. CASE server \notin {"up", "draining"}
    BY <1>2, <2>1, <2>4 DEF ScriptInv
  <2> QED BY <2>2, <2>3, <2>4
<1>9. CASE ServerDrained
  <2>1. server' = "down" /\ UNCHANGED <<hook, lost, expired>> /\ Exists(WorkerRS)
        /\ hook \in {"wait", "ended"}
    BY <1>9 DEF ServerDrained, PodsInv, ScriptInv
  <2> QED BY <1>2, <2>1 DEF ScriptInv
<1>10. CASE Sigterm
  <2>1. /\ hook = "ended" /\ hook' = hook /\ server' = "down" /\ Exists(WorkerRS)
        /\ server \in {"up", "draining"} /\ UNCHANGED expired
    BY <1>10 DEF Sigterm, Running, ServerKilled, PodsInv
  <2>2. Unwatched
    <3>1. CASE server = "up"
      BY <2>1, <3>1 DEF ScriptInv
    <3>2. CASE server = "draining"
      BY <2>1, <3>2, ScriptReads DEF ScriptInv, Unwatched
    <3> QED BY <2>1, <3>1, <3>2
  <2> QED BY <1>2, <2>1, <2>2 DEF ScriptInv
<1>11. CASE GraceExpires
  <2>1. server' = "down" /\ hook' = "ended" /\ expired' = TRUE
    BY <1>11 DEF GraceExpires, ServerKilled
  <2> QED BY <2>1 DEF ScriptInv
<1>12. CASE PodRemoved
  <2>1. server' = "none" /\ hook' = "no" /\ UNCHANGED <<lost, expired>>
    BY <1>12 DEF PodRemoved
  <2>2. Exists(WorkerRS)
    BY <1>12 DEF PodRemoved, PodsInv
  <2> QED BY <1>2, <2>1, <2>2 DEF ScriptInv
<1> QED BY <1>3, <1>4, <1>5, <1>6, <1>7, <1>8, <1>9, <1>10, <1>11, <1>12
        DEF Next, vars, pods, Build, EditSpec, CoordinatorStarts, Join, AssignTask,
            FinishTask, NoticeDraining, Connect

LEMMA Shutdown == Spec => []ScriptInv
<1>1. Init => ScriptInv
  BY DEF Init, ScriptInv
<1>2. ObjectsInv /\ PodsInv /\ ScriptInv /\ [Next]_vars => ScriptInv'
  BY ScriptKept
<1> QED BY <1>1, <1>2, Objects, Pods, PTL DEF Spec

\* The script does not end before the server it asked to shut down, as long as
\* the server serves HTTP and the files the operator generated are in place.
THEOREM ScriptWaits == Spec => []ScriptBlocks
<1>1. ScriptInv => ScriptBlocks
  BY DEF ScriptInv, ScriptBlocks, Off, HttpEnabled
<1> QED BY <1>1, Shutdown, PTL

\* A terminated worker finishes its tasks, for every set of specs, unless the
\* grace period is too short or the script cannot watch the server.
THEOREM TasksAreFinished == Spec => []TasksSurviveShutdown
<1>1. ScriptInv => TasksSurviveShutdown
  BY DEF ScriptInv, TasksSurviveShutdown, Unwatched, SamePath, Off, HttpEnabled
<1> QED BY <1>1, Shutdown, PTL

-----------------------------------------------------------------------------
(***************************************************************************)
(* Types.                                                                  *)
(***************************************************************************)

\* The memory that a config map is built from has been parsed by its stage.
LEMMA ConfigBuilt ==
  ASSUME ObjectsInv, NEW k \in {CoordConf, WorkerConf}, Exists(k)
  PROVE  /\ data[k].jvm_config = IF "jvm_config" \in DOMAIN Of(k).files
                                 THEN Of(k).files.jvm_config ELSE JVMConfig(Node(k))
         /\ "jvm_config" \in DOMAIN Of(k).files => Of(k).files.jvm_config \in Seq(Int)
         /\ Node(k).memory \in Int /\ Node(k).heap \in Seq(Int)
<1>1. k \in Mandatory /\ k \in 1..k /\ CoordConf # WorkerConf
  BY DEF Mandatory, CoordConf, WorkerConf
<1>2. /\ data[k] = Content(k, Of(k)) /\ RefusedAlways(Of(k), Uuid) \cap 1..k = {}
      /\ built[k] \in Names
  BY <1>1 DEF ObjectsInv, Exists
<1>3. data[k] = IF k = CoordConf THEN BuildConfigMap(Of(k), Uuid, TRUE)
                               ELSE BuildConfigMap(Of(k), Uuid, FALSE)
  BY Zenon, <1>1, <1>2, CoordConfContent, WorkerConfContent
<1>4. \A c : /\ BuildConfigMap(c, Uuid, TRUE).jvm_config
                  = IF "jvm_config" \in DOMAIN c.files THEN c.files.jvm_config
                                                      ELSE JVMConfig(c.coordinator)
             /\ BuildConfigMap(c, Uuid, FALSE).jvm_config
                  = IF "jvm_config" \in DOMAIN c.files THEN c.files.jvm_config
                                                      ELSE JVMConfig(c.worker)
  BY DEF BuildConfigMap
<1>5. Node(k).memory # Unparsable
  BY <1>1, <1>2 DEF RefusedAlways, CoordinatorConfigRefused, WorkerConfigRefused, Node
<1>6. Node(k).memory \in Int \cup {Unparsable} /\ Node(k).heap \in Seq(Int)
  BY <1>2, ConfAssumption DEF Node, Of, Names
<1>7. "jvm_config" \in DOMAIN Of(k).files => Of(k).files.jvm_config \in Seq(Int)
  BY <1>2, ConfAssumption DEF Of, Names
<1>8. data[k].jvm_config = IF "jvm_config" \in DOMAIN Of(k).files
                           THEN Of(k).files.jvm_config ELSE JVMConfig(Node(k))
  BY Zenon, <1>3, <1>4 DEF Node
<1>9. Node(k).memory \in Int
  BY Zenon, <1>5, <1>6
<1> QED BY Zenon, <1>6, <1>7, <1>8, <1>9

LEMMA MemoryMbTyped ==
  ASSUME NEW m \in Int
  PROVE  MemoryMb(m) \in Int /\ (m >= MiB => MemoryMb(m) > 0)
  BY DEF MemoryMb, MiB

LEMMA SeqOfInt ==
  /\ \A x \in Int : <<x>> \in Seq(Int)
  /\ \A a, b \in Seq(Int) : a \o b \in Seq(Int)
  /\ \A a \in Seq(Int) : Entries(a) \subseteq Int
  BY DEF Entries

LEMMA EntriesAfter ==
  ASSUME NEW x \in Int, NEW options \in Seq(Int)
  PROVE  Entries(<<x>> \o options) \subseteq {x} \cup Entries(options)
  BY DEF Entries

LEMMA HeapOptions ==
  ASSUME ObjectsInv, NEW k \in {CoordConf, WorkerConf}, Exists(k)
  PROVE  Entries(data[k].jvm_config) \subseteq Int
<1>1. JVMConfig(Node(k)) \in Seq(Int)
  <2>1. <<MemoryMb(Node(k).memory)>> \in Seq(Int)
    BY Zenon, ConfigBuilt, MemoryMbTyped, SeqOfInt
  <2> QED BY Zenon, <2>1, ConfigBuilt, SeqOfInt DEF JVMConfig
<1>2. data[k].jvm_config \in Seq(Int)
  BY Zenon, <1>1, ConfigBuilt
<1> QED BY Zenon, <1>2, SeqOfInt

\* A spec with a heap gives a configuration with which the JVM starts.
LEMMA SizedStarts ==
  ASSUME ObjectsInv, NEW k \in {CoordConf, WorkerConf}, Exists(k), Sized(k)
  PROVE  JvmAccepts(data[k].jvm_config)
<1>1. CASE "jvm_config" \in DOMAIN Of(k).files
  BY Zenon, <1>1, ConfigBuilt DEF Sized
<1>2. CASE "jvm_config" \notin DOMAIN Of(k).files
  <2> DEFINE mb == MemoryMb(Node(k).memory)
  <2>1. /\ mb \in Int /\ mb > 0 /\ Node(k).heap \in Seq(Int)
        /\ JvmAccepts(Node(k).heap)
    BY Zenon, <1>2, ConfigBuilt, MemoryMbTyped DEF Sized
  <2>2. data[k].jvm_config = <<mb>> \o Node(k).heap
    BY Zenon, <1>2, ConfigBuilt DEF JVMConfig
  <2> HIDE DEF mb
  <2>3. Entries(data[k].jvm_config) \subseteq {mb} \cup Entries(Node(k).heap)
    BY Zenon, <2>1, <2>2, EntriesAfter
  <2> QED BY Zenon, <2>1, <2>3 DEF JvmAccepts
<1> QED BY <1>1, <1>2

\* The external service leads to a port.
LEMMA TargetTyped ==
  ASSUME ObjectsInv, Exists(ExternalSvc)
  PROVE  data[ExternalSvc].ports.target \in Nat
<1>1. ExternalSvc \in Mandatory
  BY DEF ExternalSvc, Mandatory
<1>2. /\ data[ExternalSvc] = Content(ExternalSvc, Of(ExternalSvc))
      /\ built[ExternalSvc] \in Names
  BY <1>1 DEF ObjectsInv, Exists
<1>3. \A c : GetServicePort(c).target = Port(c)
  BY DEF GetServicePort
<1>4. data[ExternalSvc].ports.target = Port(Of(ExternalSvc))
  BY <1>2, <1>3, ServiceContent
<1>5. Of(ExternalSvc).port \in Nat
  BY <1>2, ConfAssumption DEF Of, Names
<1> QED BY <1>4, <1>5 DEF Port, PrestoPort

LEMMA ConnectTyped ==
  ASSUME Connect PROVE client' \in {"http", "https", "refused", "worker"}
<1> DEFINE met == {l \in Listens(CoordinatorLines) :
                     l[2] = data[ExternalSvc].ports.target}
           first == CHOOSE l \in met : TRUE
<1>1. PICK p \in Endpoints : client' = IF p = "worker" THEN p
                               ELSE IF met = {} THEN "refused" ELSE first[1]
  BY DEF Connect
<1>2. met # {} => first \in met
  OBVIOUS
<1> HIDE DEF first
<1>3. met # {} => first[1] \in {"http", "https"}
  BY <1>2, ListensKinds
<1> QED BY <1>1, <1>3

\* The types of the pods' variables.
ControlInv ==
  /\ edits \in 0..MaxEdits
  /\ coordinator \in {"none", "up"}
  /\ server \in {"none", "up", "draining", "down"}
  /\ hook \in {"no", "http", "https", "wait", "ended"}
  /\ tasks \in 0..MaxTasks
  /\ joined \in BOOLEAN /\ lost \in BOOLEAN /\ expired \in BOOLEAN
  /\ client \in {"none", "http", "https", "refused", "worker"}

LEMMA ControlKept ==
  ASSUME ControlInv, [Next]_vars PROVE ControlInv'
<1> USE DEF ControlInv
<1>1. CASE UNCHANGED <<edits, pods, client>>
  BY <1>1 DEF pods
<1>2. CASE EditSpec
  BY <1>2, PodsAssumption DEF EditSpec, pods
<1>3. CASE CoordinatorStarts \/ WorkerStarts \/ Join \/ NoticeDraining
  BY <1>3 DEF CoordinatorStarts, WorkerStarts, Join, NoticeDraining
<1>4. CASE AssignTask \/ FinishTask
  BY <1>4, PodsAssumption DEF AssignTask, FinishTask
<1>5. CASE \/ TerminateWorker \/ RequestOverHttp \/ RequestOverHttps \/ WaitForServer
           \/ ServerDrained \/ PodRemoved
  BY <1>5 DEF TerminateWorker, RequestOverHttp, RequestOverHttps, Request,
              WaitForServer, ServerDrained, PodRemoved
<1>6. CASE Sigterm \/ GraceExpires
  <2>1. 0 \in 0..MaxTasks /\ (tasks > 0) \in BOOLEAN
    BY PodsAssumption
  <2>2. /\ UNCHANGED <<edits, coordinator, client>>
        /\ server' = "down" /\ joined' = FALSE /\ lost' = (tasks > 0) /\ tasks' = 0
        /\ hook' = "ended" /\ (expired' = expired \/ expired' = TRUE)
    BY Zenon, <1>6 DEF Sigterm, GraceExpires, ServerKilled
  <2>3. lost' \in BOOLEAN /\ expired' \in BOOLEAN /\ joined' \in BOOLEAN
    BY Zenon, <2>1, <2>2
  <2>4. /\ edits' \in 0..MaxEdits /\ tasks' \in 0..MaxTasks
        /\ coordinator' \in {"none", "up"}
        /\ client' \in {"none", "http", "https", "refused", "worker"}
    BY Zenon, <2>1, <2>2
  <2> QED BY Zenon, <2>2, <2>3, <2>4
<1>7. CASE Connect
  BY <1>7, ConnectTyped DEF Connect, pods
<1> QED BY <1>1, <1>2, <1>3, <1>4, <1>5, <1>6, <1>7 DEF Next, vars, pods, Build

LEMMA Control == Spec => []ControlInv
<1>1. Init => ControlInv
  <2>1. MaxEdits \in 0..MaxEdits /\ 0 \in 0..MaxTasks
    BY PodsAssumption
  <2> QED BY Zenon, <2>1 DEF Init, ControlInv
<1>2. ControlInv /\ [Next]_vars => ControlInv'
  BY ControlKept
<1> QED BY <1>1, <1>2, PTL DEF Spec

\* Every variable keeps its type for every set of specs; every heap option is a
\* number, because no config map is built from a memory that does not parse, and
\* the external service leads to a port.
THEOREM PodsTypes == Spec => []TypeOK
<1>1. ASSUME ObjectsInv, ControlInv PROVE TypeOK
  <2>1. \A k \in {CoordConf, WorkerConf} :
          Exists(k) => Entries(data[k].jvm_config) \subseteq Int
    BY Zenon, <1>1, HeapOptions
  <2>2. Exists(ExternalSvc) => data[ExternalSvc].ports.target \in Nat
    BY Zenon, <1>1, TargetTyped
  <2> QED BY Zenon, <1>1, <2>1, <2>2 DEF ObjectsInv, ControlInv, TypeOK
<1> QED BY <1>1, Objects, Control, PTL

-----------------------------------------------------------------------------
(***************************************************************************)
(* Coordinator and worker find each other.                                 *)
(***************************************************************************)
Functional(lines) == \A a, b \in lines : a[1] = b[1] => a = b

LEMMA SystemFunctional ==
  ASSUME NEW c
  PROVE  Functional(SystemProps(c, Uuid)) /\ Functional(WorkerSystemProps(c, Uuid))
<1>1. Functional(SystemProps(c, Uuid))
  BY DEF Functional, SystemProps
<1>2. Functional(WorkerSystemProps(c, Uuid))
  BY DEF Functional, WorkerSystemProps
<1> QED BY <1>1, <1>2

\* Properties that the stage lets pass are given once.
LEMMA ConfigFunctional ==
  ASSUME NEW system, NEW node, Functional(system), Functional(node.props),
         ~ Reserves(system, node)
  PROVE  Functional(ConfigProps(system, node))
<1> SUFFICES ASSUME NEW a \in ConfigProps(system, node),
                    NEW b \in ConfigProps(system, node), a[1] = b[1]
             PROVE  a = b
  BY DEF Functional
<1>1. CASE a \in system /\ b \in system
  BY <1>1 DEF Functional
<1>2. CASE a \in node.props /\ b \in node.props
  BY <1>2 DEF Functional
<1>3. ASSUME NEW x \in system, NEW y \in node.props, x[1] = y[1] PROVE FALSE
  BY <1>3 DEF Reserves, Keys
<1> QED BY <1>1, <1>2, <1>3 DEF ConfigProps

LEMMA PropsFunctional ==
  ASSUME NEW n \in Names
  PROVE  Functional(Conf[n].coordinator.props) /\ Functional(Conf[n].worker.props)
  BY ConfAssumption DEF Names, Functional

\* The lines of a worker that was not refused: no key twice, the address of the
\* coordinator, and listeners on different ports.
LEMMA WorkerConfigured ==
  ASSUME NEW n \in Names, ~ Reserves(WorkerSystemProps(Conf[n], Uuid), Conf[n].worker),
         <<HttpsPortKey, PrestoPort>> \notin Conf[n].worker.props
  PROVE  LET lines == ConfigProps(WorkerSystemProps(Conf[n], Uuid), Conf[n].worker)
         IN /\ Startable(lines)
            /\ Value(lines, "discovery.uri", <<>>)
                 = <<CoordinatorInternalName(Uuid), GetHTTPPort(Conf[n])[1]>>
<1> DEFINE c == Conf[n]
           system == WorkerSystemProps(c, Uuid)
           lines == ConfigProps(system, c.worker)
           uri == <<CoordinatorInternalName(Uuid), GetHTTPPort(c)[1]>>
<1>1. Functional(lines)
  BY SystemFunctional, PropsFunctional, ConfigFunctional
<1>2. Value(lines, "discovery.uri", <<>>) = uri
  <2>1. <<"discovery.uri", uri>> \in system
    BY DEF WorkerSystemProps
  <2>2. \A line \in system : line[1] = "discovery.uri" => line[2] = uri
    BY DEF WorkerSystemProps
  <2> HIDE DEF system, uri
  <2> QED BY <2>1, <2>2, SystemValue DEF system
<1>3. Value(lines, HttpPortKey, 8080) = PrestoPort
  <2>1. <<HttpPortKey, PrestoPort>> \in system
    BY DEF WorkerSystemProps, HttpPortKey
  <2>2. \A line \in system : line[1] = HttpPortKey => line[2] = PrestoPort
    BY DEF WorkerSystemProps, HttpPortKey
  <2> HIDE DEF system
  <2> QED BY <2>1, <2>2, SystemValue DEF system
<1>4. Value(lines, HttpsPortKey, 8443) # PrestoPort
  <2>1. ASSUME NEW line \in lines, line[1] = HttpsPortKey PROVE line[2] # PrestoPort
    <3>1. line \in c.worker.props
      BY <2>1 DEF ConfigProps, WorkerSystemProps, HttpsPortKey
    <3>2. line = <<line[1], line[2]>>
      BY <3>1, ConfAssumption DEF Names
    <3> QED BY <2>1, <3>1, <3>2
  <2>2. 8443 # PrestoPort
    BY DEF PrestoPort
  <2> HIDE DEF lines
  <2> QED BY <2>1, <2>2, ValueRead
<1> HIDE DEF lines
<1>5. \A a, b \in Listens(lines) : a[2] = b[2] => a = b
  BY <1>3, <1>4 DEF Listens, HttpPortKey, HttpsPortKey
<1> QED BY Zenon, <1>1, <1>2, <1>5 DEF Startable, Functional, lines

\* The same for the coordinator, which needs its keystore only with HTTPS.
LEMMA CoordinatorConfigured ==
  ASSUME NEW n \in Names, ~ Reserves(SystemProps(Conf[n], Uuid), Conf[n].coordinator),
         Off \notin Conf[n].coordinator.props
  PROVE  LET lines == ConfigProps(SystemProps(Conf[n], Uuid), Conf[n].coordinator)
         IN /\ Startable(lines)
            /\ <<"http", GetHTTPPort(Conf[n])[1]>> \in Listens(lines)
            /\ Value(lines, "http-server.https.enabled", "false") = "true" => Conf[n].https
<1> DEFINE c == Conf[n]
           system == SystemProps(c, Uuid)
           lines == ConfigProps(system, c.coordinator)
<1>1. Functional(lines)
  BY SystemFunctional, PropsFunctional, ConfigFunctional
<1>2. Listens(lines) = {<<"http", GetHTTPPort(c)[1]>>}
                         \cup (IF c.https THEN {<<"https", GetHTTPPort(c)[2]>>} ELSE {})
  BY CoordinatorListens
<1>3. GetHTTPPort(c)[1] # GetHTTPPort(c)[2]
  BY ConfAssumption, PortsDiffer DEF Names
<1> HIDE DEF lines
<1>4. \A a, b \in Listens(lines) : a[2] = b[2] => a = b
  BY <1>2, <1>3
<1>5. Value(lines, "http-server.https.enabled", "false") = "true"
        => <<"https", Value(lines, "http-server.https.port", 8443)>> \in Listens(lines)
  BY DEF Listens
<1>6. ASSUME NEW port, <<"https", port>> \in Listens(lines) PROVE c.https
  BY <1>2, <1>6
<1>7. Startable(lines)
  BY Zenon, <1>1, <1>4 DEF Startable, Functional
<1>8. <<"http", GetHTTPPort(c)[1]>> \in Listens(lines)
  BY <1>2
<1>9. Value(lines, "http-server.https.enabled", "false") = "true" => c.https
  BY <1>5, <1>6
<1> QED BY Zenon, <1>7, <1>8, <1>9 DEF lines

\* The objects of a complete cluster, where no file of the user replaces one.
LEMMA ClusterObjects ==
  ASSUME ObjectsInv, \A k \in Mandatory : Exists(k),
         Generated(CoordConf), Generated(WorkerConf)
  PROVE  /\ CoordinatorLines = ConfigProps(SystemProps(Of(CoordConf), Uuid),
                                           Of(CoordConf).coordinator)
         /\ WorkerLines = ConfigProps(WorkerSystemProps(Of(WorkerConf), Uuid),
                                      Of(WorkerConf).worker)
         /\ data[CoordRS] = CoordinatorTemplate(Of(CoordRS), PrestoName, Uuid)
         /\ data[WorkerRS] = WorkerTemplate(Of(WorkerRS), PrestoName, Uuid)
         /\ data[Headless].name = PodDiscoveryServiceName(Uuid)
         /\ data[Headless].selector = HeadlessSelector(PrestoName, Uuid)
<1>1. {Headless, CoordRS, WorkerRS} \subseteq Mandatory
  BY DEF Mandatory, Headless, CoordRS, WorkerRS
<1>2. Exists(CoordRS) /\ Exists(WorkerRS)
  BY <1>1
<1>3. CoordinatorLines = ConfigProps(SystemProps(Of(CoordConf), Uuid),
                                     Of(CoordConf).coordinator)
  BY Zenon, <1>2, CoordinatorBuilt, GeneratedLines DEF CoordinatorLines, Generated
<1>4. WorkerLines = ConfigProps(WorkerSystemProps(Of(WorkerConf), Uuid),
                                Of(WorkerConf).worker)
  BY Zenon, <1>2, WorkerBuilt, GeneratedLines DEF WorkerLines, Generated
<1>5. data[CoordRS] = CoordinatorTemplate(Of(CoordRS), PrestoName, Uuid)
  BY Zenon, <1>1, <1>2, CoordRSContent DEF ObjectsInv
<1>6. /\ data[Headless].name = PodDiscoveryServiceName(Uuid)
      /\ data[Headless].selector = HeadlessSelector(PrestoName, Uuid)
  <2>1. data[Headless] = Content(Headless, Of(Headless))
    BY <1>1 DEF ObjectsInv
  <2> QED BY <2>1, HeadlessContent
<1> QED BY Zenon, <1>2, <1>3, <1>4, <1>5, <1>6, WorkerLabels

\* The config maps that a template names exist.
LEMMA MapsAreThere ==
  ASSUME ObjectsInv, \A k \in Mandatory : Exists(k),
         Generated(CoordConf), Generated(WorkerConf)
  PROVE  MapsExist(data[CoordRS]) /\ MapsExist(data[WorkerRS])
<1>1. Exists(CoordConf) /\ Exists(WorkerConf) /\ Exists(CatalogConf)
  BY DEF Mandatory, CoordConf, WorkerConf, CatalogConf
<1>2. \A c : /\ CoordinatorTemplate(c, PrestoName, Uuid).maps
                  = {ConfigMapName(CoordConf, Uuid), ConfigMapName(CatalogConf, Uuid)}
             /\ WorkerTemplate(c, PrestoName, Uuid).maps
                  = {ConfigMapName(WorkerConf, Uuid), ConfigMapName(CatalogConf, Uuid)}
  BY DEF CoordinatorTemplate, WorkerTemplate
<1>3. /\ data[CoordRS].maps
           = {ConfigMapName(CoordConf, Uuid), ConfigMapName(CatalogConf, Uuid)}
      /\ data[WorkerRS].maps
           = {ConfigMapName(WorkerConf, Uuid), ConfigMapName(CatalogConf, Uuid)}
  BY Zenon, <1>2, ClusterObjects
<1> QED BY Zenon, <1>1, <1>3 DEF MapsExist

\* Whatever specs the objects of a workable cluster were built from, its servers
\* can start, and the worker's configuration leads to the coordinator.
THEOREM WorkableClusters == Spec => []WorkableCanJoin
<1>1. ASSUME ObjectsInv, Workable
      PROVE  CoordinatorCanStart /\ WorkerCanStart /\ (coordinator = "up" => FindsCoordinator)
  <2> DEFINE c == Of(CoordConf)
             w == Of(WorkerConf)
  <2>1. /\ \A k \in Mandatory : Exists(k)
        /\ Generated(CoordConf) /\ Generated(WorkerConf)
        /\ Exists(CoordRS) /\ Exists(WorkerRS) /\ Exists(Headless)
    BY <1>1 DEF Workable, Mandatory, CoordRS, WorkerRS, Headless
  <2>2. /\ Startable(CoordinatorLines)
        /\ <<"http", GetHTTPPort(c)[1]>> \in Listens(CoordinatorLines)
        /\ Value(CoordinatorLines, "http-server.https.enabled", "false") = "true"
             => c.https
    <3>1. Off \notin c.coordinator.props
      BY <1>1 DEF Workable, HttpOn, Off, HttpEnabled
    <3> QED BY Zenon, <1>1, <2>1, <3>1, ClusterObjects, CoordinatorBuilt,
               CoordinatorConfigured
  <2>3. /\ Startable(WorkerLines)
        /\ Value(WorkerLines, "discovery.uri", <<>>)
             = <<CoordinatorInternalName(Uuid), GetHTTPPort(w)[1]>>
    <3>1. <<HttpsPortKey, PrestoPort>> \notin w.worker.props
      BY <1>1 DEF Workable, HttpsPortKey
    <3> QED BY Zenon, <1>1, <2>1, <3>1, ClusterObjects, WorkerBuilt, WorkerConfigured
  <2>4. GetHTTPPort(c)[1] = GetHTTPPort(w)[1]
    BY <1>1 DEF Workable, SamePorts, GetHTTPPort
  <2>8. JvmAccepts(data[CoordConf].jvm_config) /\ JvmAccepts(data[WorkerConf].jvm_config)
    <3>1. Exists(CoordConf) /\ Exists(WorkerConf) /\ Sized(CoordConf) /\ Sized(WorkerConf)
      BY <1>1 DEF Workable, Mandatory, CoordConf, WorkerConf
    <3> QED BY Zenon, <1>1, <3>1, SizedStarts
  <2>5. CoordinatorCanStart
    <3>1. \A d : CoordinatorTemplate(d, PrestoName, Uuid).keystore = d.https
      BY DEF CoordinatorTemplate
    <3>2. c.https => data[CoordRS].keystore
      BY Zenon, <1>1, <2>1, <3>1, ClusterObjects DEF Workable
    <3> QED BY Zenon, <1>1, <2>1, <2>2, <2>8, <3>2, MapsAreThere DEF CoordinatorCanStart
  <2>6. WorkerCanStart
    BY Zenon, <1>1, <2>1, <2>3, <2>8, MapsAreThere DEF WorkerCanStart
  <2>7. ASSUME coordinator = "up" PROVE FindsCoordinator
    <3> DEFINE host == CoordinatorInternalName(Uuid)
               uri == <<host, GetHTTPPort(w)[1]>>
    <3>1. /\ host = <<CoordinatorContainerName(Uuid), PodDiscoveryServiceName(Uuid)>>
          /\ host[2] = PodDiscoveryServiceName(Uuid)
      BY DEF CoordinatorInternalName
    <3>2. /\ data[CoordRS].hostname = CoordinatorContainerName(Uuid)
          /\ data[CoordRS].subdomain = PodDiscoveryServiceName(Uuid)
          /\ data[CoordRS].labels = CoordinatorPodLabels(PrestoName, Uuid)
      <4>1. data[CoordRS] = CoordinatorTemplate(Of(CoordRS), PrestoName, Uuid)
        BY Zenon, <1>1, <2>1, ClusterObjects
      <4>2. \A x : LET t == CoordinatorTemplate(x, PrestoName, Uuid)
                   IN /\ t.hostname = CoordinatorContainerName(Uuid)
                      /\ t.subdomain = PodDiscoveryServiceName(Uuid)
                      /\ t.labels = CoordinatorPodLabels(PrestoName, Uuid)
        BY DEF CoordinatorTemplate
      <4> QED BY Zenon, <4>1, <4>2
    <3>3. Selects(data[Headless].selector, data[CoordRS].labels)
      <4>1. Selects(HeadlessSelector(PrestoName, Uuid),
                    CoordinatorPodLabels(PrestoName, Uuid))
        BY HeadlessSelectsCluster
      <4> QED BY Zenon, <1>1, <2>1, <3>2, <4>1, ClusterObjects
    <3>4. Resolves(host)
      BY Zenon, <1>1, <2>1, <2>7, <3>1, <3>2, <3>3, ClusterObjects DEF Resolves
    <3> HIDE DEF host
    <3>5. uri # <<>> /\ uri[1] = host /\ uri[2] = GetHTTPPort(c)[1]
      BY <2>4
    <3>6. Value(WorkerLines, "discovery.uri", <<>>) = uri
      BY <2>3 DEF host
    <3> HIDE DEF uri
    <3> QED BY Zenon, <2>2, <3>4, <3>5, <3>6 DEF FindsCoordinator
  <2> QED BY Zenon, <2>5, <2>6, <2>7
<1>2. ObjectsInv => WorkableCanJoin
  BY Zenon, <1>1 DEF WorkableCanJoin
<1> QED BY <1>2, Objects, PTL

-----------------------------------------------------------------------------
(***************************************************************************)
(* Termination.                                                            *)
(***************************************************************************)

\* The script never waits for a server that was not asked to shut down.
THEOREM ScriptWaitsForDraining == Spec => []WaitsForDraining
<1>1. Init => WaitsForDraining
  BY DEF Init, WaitsForDraining
<1>2. ASSUME PodsInv, ScriptInv, WaitsForDraining, [Next]_vars PROVE WaitsForDraining'
  <2>1. CASE UNCHANGED <<server, hook>>
    BY <1>2, <2>1 DEF WaitsForDraining
  <2>2. CASE WorkerStarts
    BY <1>2, <2>2 DEF WorkerStarts, PodsInv, WaitsForDraining
  <2>3. CASE TerminateWorker \/ RequestOverHttp \/ RequestOverHttps \/ WaitForServer
    BY <1>2, <2>3 DEF TerminateWorker, RequestOverHttp, RequestOverHttps, Request,
                      WaitForServer, WaitsForDraining
  <2>4. CASE ServerDrained \/ Sigterm \/ GraceExpires \/ PodRemoved
    BY <1>2, <2>4 DEF ServerDrained, Sigterm, GraceExpires, ServerKilled, PodRemoved,
                      WaitsForDraining
  <2> QED BY <1>2, <2>1, <2>2, <2>3, <2>4
          DEF Next, vars, pods, Build, EditSpec, CoordinatorStarts, Join, AssignTask,
              FinishTask, NoticeDraining, Connect
<1> QED BY <1>1, <1>2, Pods, Shutdown, PTL DEF Spec

=============================================================================

------------------------- MODULE PrestoConfig_proofs -------------------------
(***************************************************************************)
(* Facts about the content of the objects, for every spec.                 *)
(***************************************************************************)
EXTENDS PrestoConfig, WellFoundedInduction, TLAPS

-----------------------------------------------------------------------------
(***************************************************************************)
(* Names and labels.                                                       *)
(***************************************************************************)

\* The selector of the external service matches the coordinator pod of its own
\* cluster, no coordinator pod of another uuid, and no worker pod at all, although
\* every stage adds its labels to the one map that the pods get in the end.
THEOREM ExternalSelectsCoordinator ==
  ASSUME NEW u, NEW v, NEW name
  PROVE  /\ Selects(ExternalSelector(u), CoordinatorPodLabels(name, v)) <=> u = v
         /\ ~ Selects(ExternalSelector(u), WorkerPodLabels(name, v))
<1> USE DEF Selects, ExternalSelector, StageLabels, HeadlessLabels, BaseLabels
<1>1. Selects(ExternalSelector(u), CoordinatorPodLabels(name, v)) => u = v
  BY DEF CoordinatorPodLabels
<1>2. u = v => Selects(ExternalSelector(u), CoordinatorPodLabels(name, v))
  BY DEF CoordinatorPodLabels
<1>3. ~ Selects(ExternalSelector(u), WorkerPodLabels(name, v))
  BY DEF WorkerPodLabels
<1> QED BY <1>1, <1>2, <1>3

\* The headless service, whose selector is a copy of the map made before the
\* other labels were added, matches all pods of its cluster and no other pod.
THEOREM HeadlessSelectsCluster ==
  ASSUME NEW u, NEW v, NEW name, NEW other,
         NEW labels \in {CoordinatorPodLabels(other, v), WorkerPodLabels(other, v)}
  PROVE  Selects(HeadlessSelector(name, u), labels) <=> u = v /\ name = other
<1> USE DEF Selects, HeadlessSelector, StageLabels, HeadlessLabels, BaseLabels,
            CoordinatorPodLabels, WorkerPodLabels
<1>1. Selects(HeadlessSelector(name, u), labels) => u = v /\ name = other
  OBVIOUS
<1>2. u = v /\ name = other => Selects(HeadlessSelector(name, u), labels)
  OBVIOUS
<1> QED BY <1>1, <1>2

-----------------------------------------------------------------------------
(***************************************************************************)
(* Ports and properties.                                                   *)
(***************************************************************************)

LEMMA PortIsNat == ASSUME NEW c, c.port \in Nat PROVE Port(c) \in Nat
  BY DEF Port, PrestoPort

\* The coordinator never listens twice on one port: the internal HTTP port moves
\* away when HTTPS is given the default port.
THEOREM PortsDiffer ==
  ASSUME NEW c, c.port \in Nat
  PROVE  /\ GetHTTPPort(c)[1] \in Nat
         /\ GetHTTPPort(c)[1] # GetHTTPPort(c)[2]
  BY PortIsNat DEF GetHTTPPort, PrestoPort

\* The service leads to the port of the protocol that clients are to use.
THEOREM ServiceTargetsListener ==
  ASSUME NEW c
  PROVE  GetServicePort(c).target = GetHTTPPort(c)[IF c.https THEN 2 ELSE 1]
  BY DEF GetServicePort, GetHTTPPort

\* Additional properties that do not name a key of the operator add lines for
\* other keys only.
LEMMA SystemPropsKept ==
  ASSUME NEW system, NEW node, ~ Reserves(system, node),
         NEW line \in ConfigProps(system, node), line[1] \in Keys(system)
  PROVE  line \in system
<1>1. line[1] \in Keys(node.props) => FALSE
  BY DEF Reserves
<1> QED BY <1>1 DEF ConfigProps, Keys

LEMMA KeyKept ==
  ASSUME NEW system, NEW node, ~ Reserves(system, node), NEW key, NEW own, NEW value,
         <<key, own>> \in system, <<key, value>> \in ConfigProps(system, node)
  PROVE  <<key, value>> \in system
<1>1. <<key, own>>[1] = key /\ <<key, value>>[1] = key
  OBVIOUS
<1>2. key \in Keys(system)
  BY <1>1 DEF Keys
<1> QED BY Zenon, <1>1, <1>2, SystemPropsKept

\* Without a file of the user's own, a config map holds the lines of the operator
\* and the additional ones.
LEMMA GeneratedProps ==
  ASSUME NEW c, NEW u, "config_properties" \notin DOMAIN c.files
  PROVE  /\ BuildConfigMap(c, u, TRUE).config_properties
              = ConfigProps(SystemProps(c, u), c.coordinator)
         /\ BuildConfigMap(c, u, FALSE).config_properties
              = ConfigProps(WorkerSystemProps(c, u), c.worker)
  BY DEF BuildConfigMap

\* The config maps of a spec that both stages accept lead the workers to the
\* coordinator, whatever properties the user adds: the worker's file has one
\* discovery URI, its host is the only internal address in the coordinator's file
\* and its port the only HTTP port there, and the port of HTTPS is the one that the
\* external service leads to.
THEOREM AcceptedConfigsAgree ==
  ASSUME NEW c, NEW u, "config_properties" \notin DOMAIN c.files,
         ~ CoordinatorConfigRefused(c, u), ~ WorkerConfigRefused(c, u),
         NEW uri, NEW host, NEW port, NEW https,
         <<"discovery.uri", uri>> \in BuildConfigMap(c, u, FALSE).config_properties,
         <<"node.internal-address", host>> \in BuildConfigMap(c, u, TRUE).config_properties,
         <<"http-server.http.port", port>> \in BuildConfigMap(c, u, TRUE).config_properties
  PROVE  /\ uri = <<host, port>>
         /\ c.https /\ <<"http-server.https.port", https>>
                         \in BuildConfigMap(c, u, TRUE).config_properties
              => https = GetServicePort(c).target
<1>1. /\ ~ Reserves(SystemProps(c, u), c.coordinator)
      /\ ~ Reserves(WorkerSystemProps(c, u), c.worker)
  BY DEF CoordinatorConfigRefused, WorkerConfigRefused
<1>2. /\ <<"discovery.uri", <<CoordinatorInternalName(u), GetHTTPPort(c)[1]>> >>
           \in WorkerSystemProps(c, u)
      /\ <<"node.internal-address", CoordinatorInternalName(u)>> \in SystemProps(c, u)
      /\ <<"http-server.http.port", GetHTTPPort(c)[1]>> \in SystemProps(c, u)
      /\ c.https => <<"http-server.https.port", GetHTTPPort(c)[2]>> \in SystemProps(c, u)
  BY DEF WorkerSystemProps, SystemProps
<1>3. <<"discovery.uri", uri>> \in WorkerSystemProps(c, u)
  BY Zenon, <1>1, <1>2, GeneratedProps, KeyKept
<1> DEFINE lines == BuildConfigMap(c, u, TRUE).config_properties
<1>4. \A key, own, value : <<key, own>> \in SystemProps(c, u) /\ <<key, value>> \in lines
                            => <<key, value>> \in SystemProps(c, u)
  <2>1. lines = ConfigProps(SystemProps(c, u), c.coordinator)
    BY Zenon, GeneratedProps
  <2> QED BY Zenon, <1>1, <2>1, KeyKept
<1>5. <<"node.internal-address", host>> \in SystemProps(c, u)
  BY Zenon, <1>2, <1>4
<1>6. <<"http-server.http.port", port>> \in SystemProps(c, u)
  BY Zenon, <1>2, <1>4
<1>7. uri = <<CoordinatorInternalName(u), GetHTTPPort(c)[1]>>
  BY <1>3 DEF WorkerSystemProps
<1>8. host = CoordinatorInternalName(u) /\ port = GetHTTPPort(c)[1]
  BY <1>5, <1>6 DEF SystemProps
<1>9. ASSUME c.https, <<"http-server.https.port", https>> \in lines
      PROVE  https = GetServicePort(c).target
  <2>1. <<"http-server.https.port", https>> \in SystemProps(c, u)
    BY Zenon, <1>2, <1>4, <1>9
  <2>2. https = GetHTTPPort(c)[2]
    BY <1>9, <2>1 DEF SystemProps
  <2> QED BY <1>9, <2>2, ServiceTargetsListener
<1> QED BY <1>7, <1>8, <1>9

-----------------------------------------------------------------------------
(***************************************************************************)
(* Catalogs.                                                               *)
(***************************************************************************)

\* No catalog is lost, although the template may be built from a later spec t than
\* the config map: only a default catalog can be missing that a secret of the
\* earlier spec was to replace.
THEOREM CatalogsKept ==
  ASSUME NEW c, NEW t
  PROVE  LET directory == CatalogDirectory(BuildCatalogConfigMap(c), t.catalogSecrets)
         IN /\ CatalogNames(c) \cup SecretKeys(t) \subseteq DOMAIN directory
            /\ DefaultCatalogs \ DOMAIN directory \subseteq SecretKeys(c) \ SecretKeys(t)
<1>1. DOMAIN CatalogDirectory(BuildCatalogConfigMap(c), t.catalogSecrets)
        = CatalogNames(c) \cup GetDefaultCatalogs(c) \cup SecretKeys(t)
  BY DEF CatalogDirectory, BuildCatalogConfigMap, SecretKeys
<1> QED BY <1>1 DEF GetDefaultCatalogs

\* Among the catalogs of the spec with one name there is a last.
LEMMA LastExists ==
  ASSUME NEW N \in Nat, NEW S, S \subseteq 1..N, S # {}
  PROVE  \E i \in S : \A j \in S : j <= i
<1> DEFINE T == {N - i : i \in S}
           Less == OpToRel(<, Nat)
<1>1. T \subseteq Nat /\ T # {}
  <2>1. ASSUME NEW i \in S PROVE N - i \in Nat
    OBVIOUS
  <2> QED BY Zenon, <2>1
<1>2. \A x, y \in Nat : x < y => <<x, y>> \in Less
  BY DEF OpToRel
<1> HIDE DEF T, Less
<1>3. IsWellFoundedOn(Less, Nat)
  BY Zenon, NatLessThanWellFounded DEF Less
<1>4. PICK t \in T : \A x \in T : ~ (<<x, t>> \in Less)
  BY Zenon, <1>1, <1>3, WFMin
<1>5. ASSUME NEW x \in T PROVE t <= x
  <2>1. x \in Nat /\ t \in Nat
    BY <1>1
  <2>2. ~ (x < t)
    BY <1>2, <1>4, <2>1, Zenon
  <2> QED BY <2>1, <2>2
<1>6. PICK i \in S : t = N - i
  BY DEF T
<1>7. \A j \in S : N - i <= N - j
  BY Zenon, <1>5, <1>6 DEF T
<1>8. \A j \in S : j <= i
  BY <1>7
<1> QED BY <1>8

\* A catalog of the directory has the content of the spec or of a secret, and is
\* the default catalog only where neither gives it, also if the template is built from a
\* later spec t than the config map.
THEOREM CatalogContent ==
  ASSUME NEW c, NEW t, NEW N \in Nat, DOMAIN c.catalogSpec = 1..N,
         NEW n \in DOMAIN CatalogDirectory(BuildCatalogConfigMap(c), t.catalogSecrets)
  PROVE  CatalogDirectory(BuildCatalogConfigMap(c), t.catalogSecrets)[n]
           \in IF UserFiles(c, t, n) = {} THEN DefaultCatalogs \cap {n}
                                          ELSE UserFiles(c, t, n)
<1> DEFINE directory == CatalogDirectory(BuildCatalogConfigMap(c), t.catalogSecrets)
           given == {x.content : x \in {y \in Entries(c.catalogSpec) : y.name = n}}
           secret == {x.secret : x \in {y \in Entries(t.catalogSecrets) : y.key = n}}
<1> SUFFICES directory[n] \in IF given \cup secret = {} THEN DefaultCatalogs \cap {n}
                                                        ELSE given \cup secret
  BY Zenon DEF UserFiles
<1>1. CASE n \in SecretKeys(t)
  <2>1. \E s \in Entries(t.catalogSecrets) : s.key = n
    BY <1>1 DEF SecretKeys
  <2> DEFINE s == CHOOSE x \in Entries(t.catalogSecrets) : x.key = n
  <2>2. s \in Entries(t.catalogSecrets) /\ s.key = n
    BY <2>1
  <2>3. directory[n] = s.secret
    BY <1>1 DEF CatalogDirectory, SecretKeys
  <2> HIDE DEF s
  <2>4. directory[n] \in secret
    BY <2>2, <2>3
  <2> QED BY <2>4
<1>2. CASE n \notin SecretKeys(t) /\ n \in CatalogNames(c)
  <2> DEFINE S == {i \in DOMAIN c.catalogSpec : c.catalogSpec[i].name = n}
             last == CHOOSE i \in DOMAIN c.catalogSpec :
                       /\ c.catalogSpec[i].name = n
                       /\ \A j \in DOMAIN c.catalogSpec :
                            c.catalogSpec[j].name = n => j <= i
  <2>1. S \subseteq 1..N /\ S # {}
    BY <1>2 DEF CatalogNames, Entries
  <2>2. \E i \in S : \A j \in S : j <= i
    BY Zenon, <2>1, LastExists
  <2>3. last \in DOMAIN c.catalogSpec /\ c.catalogSpec[last].name = n
    BY <2>2
  <2>4. directory[n] = c.catalogSpec[last].content
    BY <1>2 DEF CatalogDirectory, BuildCatalogConfigMap, GetDefaultCatalogs, SecretKeys
  <2> HIDE DEF last
  <2>5. directory[n] \in given
    BY <2>3, <2>4 DEF Entries
  <2> QED BY <2>5
<1>3. CASE n \notin SecretKeys(t) /\ n \notin CatalogNames(c)
  <2>1. n \in GetDefaultCatalogs(c)
    BY <1>3 DEF CatalogDirectory, BuildCatalogConfigMap, SecretKeys
  <2>2. directory[n] = n
    BY Zenon, <1>3, <2>1 DEF CatalogDirectory, BuildCatalogConfigMap, SecretKeys
  <2>3. given = {} /\ secret = {}
    BY <1>3 DEF CatalogNames, SecretKeys
  <2>4. n \in DefaultCatalogs
    BY <2>1 DEF GetDefaultCatalogs
  <2> QED BY Zenon, <2>2, <2>3, <2>4
<1> QED BY Zenon, <1>1, <1>2, <1>3

=============================================================================

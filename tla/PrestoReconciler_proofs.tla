----------------------- MODULE PrestoReconciler_proofs -----------------------
(***************************************************************************)
(* Proofs about PrestoReconciler, for every set of specs, labels and       *)
(* phases and every value of the bounds.                                   *)
(***************************************************************************)
EXTENDS PrestoReconciler, TLAPS

-----------------------------------------------------------------------------
(***************************************************************************)
(* Registration for the periodic events.  The invariant needs only that a  *)
(* process that is not running has no registrations.                       *)
(***************************************************************************)

RegistrationInv ==
  /\ RegistrationTracksCache
  /\ up # "up" => ~registered

\* What every step but the start of a reconcile, a delivery of the Presto and a
\* restart does to the variables of RegistrationInv.
KeepsRegistration ==
  /\ UNCHANGED <<seen, registered, up>>
  /\ queued => queued'

LEMMA StagesKeepRegistration ==
  ASSUME queued \in BOOLEAN,
         \/ StageCallFails \/ HeadlessServiceConfig \/ ServiceConfig
         \/ RelistService \/ CoordinatorConfig \/ WorkerConfig \/ CatalogConfig
         \/ CoordinatorReplicaset \/ WorkerReplicaset \/ HpaReplicaset
         \/ ReportPhase
  PROVE  KeepsRegistration
<1>1. UNCHANGED <<seen, registered, up>>
  BY Zenon DEF StageCallFails, HeadlessServiceConfig, ServiceConfig, RelistService,
         CoordinatorConfig, WorkerConfig, CatalogConfig, ConfigMapStage,
         CoordinatorReplicaset, WorkerReplicaset, HpaReplicaset, ReportPhase,
         StageFrame, caches, process
<1>2. CASE ~WorkerReplicaset /\ ~HpaReplicaset
  <2>1. UNCHANGED queued
    BY <1>2 DEF StageCallFails, HeadlessServiceConfig, ServiceConfig,
         RelistService, CoordinatorConfig, WorkerConfig, CatalogConfig,
         ConfigMapStage, CoordinatorReplicaset, ReportPhase
  <2> QED BY <1>1, <2>1 DEF KeepsRegistration
<1>3. CASE WorkerReplicaset
  <2>1. UNCHANGED queued
    BY <1>3 DEF WorkerReplicaset, UpdateObject
  <2> QED BY <1>1, <2>1 DEF KeepsRegistration
<1>4. CASE HpaReplicaset
  <2>1. queued => queued'
    BY Zenon, <1>4 DEF HpaReplicaset, UpdateObject, Return
  <2> QED BY <1>1, <2>1 DEF KeepsRegistration
<1> QED BY <1>2, <1>3, <1>4

LEMMA OthersKeepRegistration ==
  ASSUME queued \in BOOLEAN,
         \/ ReconcileGetFails \/ AssignUuid \/ UpdateStatus
         \/ (\E K \in Informers : DeliverOwned(K)) \/ Tick \/ Outside
  PROVE  KeepsRegistration
<1>1. CASE ReconcileGetFails
  BY <1>1 DEF ReconcileGetFails, KeepsRegistration, caches, process
<1>2. CASE AssignUuid
  BY <1>2 DEF AssignUuid, KeepsRegistration, Return, caches, process
<1>3. CASE UpdateStatus
  BY <1>3 DEF UpdateStatus, KeepsRegistration, Return, caches, process
<1>4. CASE \E K \in Informers : DeliverOwned(K)
  BY <1>4 DEF DeliverOwned, KeepsRegistration, process
<1>5. CASE Tick
  BY <1>5 DEF Tick, KeepsRegistration, caches, process
<1>6. CASE Outside
  <2>1. OutsideFrame
    BY Zenon, <1>6 DEF Outside, CreatePresto, EditSpec, Relabel, DeletePresto,
         DeleteOwned, CollectGarbage, Remove, HpaScales, ReplicaSetReports,
         WriteReplicaSet
  <2> QED BY <2>1 DEF OutsideFrame, KeepsRegistration, caches, process
<1> QED BY <1>1, <1>2, <1>3, <1>4, <1>5, <1>6

LEMMA RegistrationStep ==
  ASSUME RegistrationInv, queued \in BOOLEAN, registered \in BOOLEAN,
         [Next]_vars
  PROVE  RegistrationInv'
<1>1. CASE KeepsRegistration
  BY <1>1 DEF KeepsRegistration, RegistrationInv, RegistrationTracksCache, Exists
<1>2. CASE Reconcile
  BY <1>2 DEF Reconcile, RegistrationInv, RegistrationTracksCache, Exists, caches
<1>3. CASE ReconcileNotFound
  BY <1>3 DEF ReconcileNotFound, RegistrationInv, RegistrationTracksCache,
       Exists, caches
<1>4. CASE HpaPanics \/ Crash
  BY <1>4 DEF HpaPanics, Crash, Stop, RegistrationInv, RegistrationTracksCache
<1>5. CASE DeliverPresto
  \* Whether the cache holds a Presto changes only if the uid does, and then
  \* the watch event is queued.
  BY Zenon, <1>5 DEF DeliverPresto, RegistrationInv, RegistrationTracksCache, Exists,
       process
<1>6. CASE Restart
  BY Zenon, <1>6 DEF Restart, RegistrationInv, RegistrationTracksCache, Exists
<1>7. CASE UNCHANGED vars
  BY <1>7 DEF vars, RegistrationInv, RegistrationTracksCache, Exists
<1> QED
  BY <1>1, <1>2, <1>3, <1>4, <1>5, <1>6, <1>7, StagesKeepRegistration,
     OthersKeepRegistration DEF Next, Reconciler

-----------------------------------------------------------------------------
(***************************************************************************)
(* Types.                                                                  *)
(***************************************************************************)

LEMMA EmptyTypes ==
  /\ NoSpec \in SpecType /\ EmptyStatus \in StatusType
  /\ NoPresto \in PrestoType /\ NoObject \in ObjectType
  /\ NoUpdate \in UpdateType /\ Failure \in UpdateType
<1>1. NoSpec \in SpecType
  BY DEF NoSpec, SpecType
<1>2. EmptyStatus \in StatusType
  BY DEF EmptyStatus, NoAddress, StatusType, States
<1>3. NoPresto \in PrestoType
  BY <1>1, <1>2 DEF NoPresto, PrestoType
<1>4. NoObject \in ObjectType
  BY <1>1 DEF NoObject, ObjectType, Kinds, WorkerRS
<1>5. NoUpdate \in UpdateType /\ Failure \in UpdateType
  BY DEF NoUpdate, Failure, Update, UpdateType, States
<1> QED BY <1>1, <1>2, <1>3, <1>4, <1>5

LEMMA StatusTypes ==
  ASSUME NEW p \in PrestoType, NEW s \in StatusType, NEW u \in UpdateType,
         NEW id \in Nat
  PROVE  /\ p.status \in StatusType
         /\ [p EXCEPT !.status = s] \in PrestoType
         /\ [s EXCEPT !.uuid = id] \in StatusType
         /\ Applied(s, u) \in StatusType
<1>1. p.status \in StatusType /\ [p EXCEPT !.status = s] \in PrestoType
  BY DEF PrestoType
<1>2. [s EXCEPT !.uuid = id] \in StatusType
  BY DEF StatusType
<1>3. Applied(s, u) \in StatusType
  <2> DEFINE names == [k \in Kinds |-> IF k = u.name THEN u.value ELSE s.names[k]]
  <2>1. names \in [Kinds -> Nat]
    BY DEF StatusType, UpdateType
  <2> DEFINE addr == IF u.name = ExternalSvc THEN <<u.value, u.num>> ELSE s.addr
  <2>3. addr \in Nat \X Nat
    BY DEF StatusType, UpdateType
  <2> HIDE DEF names, addr
  <2>2. [s EXCEPT !.names = names,
                  !.addr = addr,
                  !.desired = IF u.name = WorkerRS THEN u.num ELSE @,
                  !.state = u.state] \in StatusType
    BY Zenon, <2>1, <2>3 DEF StatusType, UpdateType
  <2> QED BY Zenon, <2>2 DEF Applied, names, addr
<1> QED BY <1>1, <1>2, <1>3

LEMMA PrestoEditTypes ==
  ASSUME NEW p \in PrestoType, NEW spec \in SpecType, NEW L \in SUBSET Labels,
         NEW id \in Nat
  PROVE  /\ [p EXCEPT !.spec = spec, !.gen = @ + 1] \in PrestoType
         /\ [p EXCEPT !.labels = L] \in PrestoType
         /\ [uid |-> id, gen |-> 1, labels |-> L, spec |-> spec,
             status |-> EmptyStatus] \in PrestoType
<1>1. [p EXCEPT !.spec = spec, !.gen = @ + 1] \in PrestoType
  <2> DEFINE next == p.gen + 1
  <2>1. next \in Nat
    BY DEF PrestoType
  <2> HIDE DEF next
  <2>2. [p EXCEPT !.spec = spec, !.gen = next] \in PrestoType
    BY Zenon, <2>1 DEF PrestoType
  <2> QED BY <2>2 DEF next
<1>2. [p EXCEPT !.labels = L] \in PrestoType
  BY DEF PrestoType
<1>3. [uid |-> id, gen |-> 1, labels |-> L, spec |-> spec,
       status |-> EmptyStatus] \in PrestoType
  BY EmptyTypes DEF PrestoType
<1> QED BY <1>1, <1>2, <1>3

LEMMA ObjectTypes ==
  ASSUME NEW o \in ObjectType, NEW spec \in SpecType, NEW r \in Nat
  PROVE  /\ Id(o) \in Nat \X Nat \X Nat
         /\ o.kind \in Kinds /\ o.n \in Nat /\ o.replicas \in Nat
         /\ [o EXCEPT !.replicas = r] \in ObjectType
         /\ [o EXCEPT !.spec = spec, !.target = r] \in ObjectType
<1>1. o.kind \in Kinds /\ o.n \in Nat /\ o.replicas \in Nat /\ o.uuid \in Nat
  BY DEF ObjectType
<1>2. Id(o) \in Nat \X Nat \X Nat
  BY <1>1 DEF Id, Kinds
<1>3. [o EXCEPT !.replicas = r] \in ObjectType
  BY DEF ObjectType
<1>4. [o EXCEPT !.spec = spec, !.target = r] \in ObjectType
  BY Zenon DEF ObjectType
<1> QED BY <1>1, <1>2, <1>3, <1>4

LEMMA UpdateTypes ==
  ASSUME NEW k \in 0..8, NEW v \in Nat, NEW num \in Nat, NEW state \in States,
         NEW next \in {"done", "error", "next"}
  PROVE  Update(k, v, num, state, next) \in UpdateType
  BY DEF Update, UpdateType

\* The parts of TypeOK that the stages change.
StoreOK  == /\ objs \subseteq ObjectType /\ made \subseteq Kinds \X Nat \X Nat
            /\ behind \subseteq Nat \X Nat \X Nat
ThreadOK == /\ local \in PrestoType /\ wrs \in ObjectType /\ upd \in UpdateType
            /\ pc \in Pcs /\ at \in 0..8
BudgetOK == budget \in [Bounds -> Nat]

LEMMA SpendType ==
  ASSUME BudgetOK, NEW b \in Bounds, Spend(b) PROVE BudgetOK'
  BY DEF BudgetOK, Spend

LEMMA FailType ==
  ASSUME ThreadOK, Fail PROVE ThreadOK'
  BY EmptyTypes DEF ThreadOK, Fail, Post, Pcs

LEMMA PostType ==
  ASSUME ThreadOK, NEW u \in UpdateType, Post(u) PROVE ThreadOK'
  BY DEF ThreadOK, Post, Pcs

LEMMA ProceedType ==
  ASSUME ThreadOK, NEW k \in 0..8, Proceed(k) PROVE ThreadOK'
  BY DEF ThreadOK, Proceed, Pcs

LEMMA ClearType ==
  ASSUME ClearThread PROVE ThreadOK'
  BY EmptyTypes DEF ThreadOK, ClearThread, Pcs

LEMMA ReportTypes ==
  ASSUME ThreadOK
  PROVE  /\ uuid \in Nat /\ local.uid \in Nat /\ local.spec \in SpecType
         /\ local.spec.count \in Nat
         /\ \A k \in Kinds : Created(k) \in UpdateType
         /\ \A o \in ObjectType, next \in {"done", "next"} :
              Found(o, next) \in UpdateType
         /\ \A n \in Nat, state \in States : Workers(n, state) \in UpdateType
<1>1. /\ uuid \in Nat /\ local.uid \in Nat /\ local.spec \in SpecType
      /\ local.spec.count \in Nat
  BY DEF ThreadOK, PrestoType, StatusType, SpecType, uuid
<1>2. "Pending" \in States /\ Kinds \subseteq 0..8 /\ ExternalSvc \in 0..8
      /\ WorkerRS \in 0..8
  BY DEF States, Kinds, ExternalSvc, WorkerRS
<1>3. \A o \in ObjectType : o.n \in Nat
  BY DEF ObjectType
<1> QED BY <1>1, <1>2, <1>3, UpdateTypes DEF Created, Found, Workers

LEMMA StoreObjectType ==
  ASSUME StoreOK, ThreadOK, NEW k \in Kinds, NEW r \in Nat, NEW t \in Nat,
         StoreObject(k, r, t)
  PROVE  StoreOK'
<1>1. PICK n \in 1..MaxNames :
        LET o == [kind |-> k, uid |-> local.uid, uuid |-> uuid, n |-> n,
                  spec |-> local.spec, replicas |-> r, target |-> t]
        IN /\ objs' = objs \cup {o}
           /\ made' = made \cup {<<k, local.uid, uuid>>}
           /\ behind' = behind \cup {Id(o)}
  BY DEF StoreObject
<1> DEFINE o == [kind |-> k, uid |-> local.uid, uuid |-> uuid, n |-> n,
                 spec |-> local.spec, replicas |-> r, target |-> t]
<1>2. o \in ObjectType
  <2>1. uuid \in Nat /\ local.uid \in Nat /\ local.spec \in SpecType
    BY ReportTypes
  <2>2. n \in Nat
    BY BoundsAssumption
  <2> QED BY <2>1, <2>2 DEF ObjectType
<1>3. Id(o) \in Nat \X Nat \X Nat
  BY Zenon, <1>2, ReportTypes, ObjectTypes
<1> HIDE DEF o
<1>4. objs' = objs \cup {o} /\ behind' = behind \cup {Id(o)}
  BY <1>1 DEF o
<1> QED BY <1>1, <1>2, <1>3, <1>4, ReportTypes DEF StoreOK

\* What a stage has of TypeOK before it, and restores.
StageOK == StoreOK /\ ThreadOK /\ BudgetOK

LEMMA UnchangedType ==
  ASSUME StageOK, StoreUnchanged PROVE StoreOK' /\ BudgetOK'
  BY DEF StageOK, StoreOK, BudgetOK, StoreUnchanged

LEMMA KindTypes ==
  /\ {Headless, ExternalSvc, CoordConf, WorkerConf, CatalogConf, CoordRS,
      WorkerRS, HPA} \subseteq Kinds
  /\ Kinds \subseteq 0..8 /\ "faults" \in Bounds
  BY DEF Headless, ExternalSvc, CoordConf, WorkerConf, CatalogConf, CoordRS,
         WorkerRS, HPA, Kinds, Bounds

LEMMA CreateNamedType ==
  ASSUME StageOK, NEW k \in Kinds, CreateNamed(k, Post(Created(k)))
  PROVE  StageOK'
<1>1. CASE NameTaken(k)
  BY <1>1, FailType DEF CreateNamed, StageOK, StoreOK, BudgetOK
<1>2. CASE StoreObject(k, 0, 0) /\ Post(Created(k)) /\ UNCHANGED budget
  BY <1>2, StoreObjectType, PostType, ReportTypes DEF StageOK, BudgetOK
<1>3. CASE StoreObject(k, 0, 0) /\ Fail /\ Spend("faults")
  BY <1>3, StoreObjectType, FailType, SpendType, KindTypes DEF StageOK
<1> QED BY <1>1, <1>2, <1>3 DEF CreateNamed, Create

LEMMA StageCallFailsType ==
  ASSUME StageOK, StageCallFails PROVE StageOK'
  BY FailType, SpendType, KindTypes DEF StageOK, StageCallFails, StoreOK

LEMMA HeadlessServiceConfigType ==
  ASSUME StageOK, HeadlessServiceConfig PROVE StageOK'
<1>1. CASE Proceed(ExternalSvc) /\ StoreUnchanged
  BY Zenon, <1>1, ProceedType, UnchangedType, KindTypes DEF StageOK
<1>2. CASE CreateNamed(Headless, Post(Created(Headless)))
  BY Zenon, <1>2, CreateNamedType, KindTypes
<1> QED BY <1>1, <1>2 DEF HeadlessServiceConfig

LEMMA ListedType ==
  ASSUME listed \subseteq ObjectType, NEW K, NEW o \in Listed(K)
  PROVE  o \in ObjectType
  BY DEF Listed

LEMMA ServiceConfigType ==
  ASSUME StageOK, listed \subseteq ObjectType, ServiceConfig PROVE StageOK'
<1> DEFINE Created2 == pc' = "relist" /\ UNCHANGED <<at, local, wrs, upd>>
<1>1. CASE Fail /\ StoreUnchanged
  BY <1>1, FailType, UnchangedType DEF StageOK
<1>2. CASE StoreUnchanged /\ Proceed(CoordConf)
  BY Zenon, <1>2, ProceedType, UnchangedType, KindTypes DEF StageOK
<1>3. ASSUME StoreUnchanged, NEW o \in Listed({ExternalSvc}),
             Post(Found(o, "next"))
      PROVE  StageOK'
  <2>1. Found(o, "next") \in UpdateType
    BY ListedType, ReportTypes DEF StageOK
  <2> QED BY <1>3, <2>1, PostType, UnchangedType DEF StageOK
<1>4. CASE CreateNamed(ExternalSvc, Created2)
  <2>1. CASE NameTaken(ExternalSvc)
    BY <1>4, <2>1, FailType DEF CreateNamed, StageOK, StoreOK, BudgetOK
  <2>2. CASE StoreObject(ExternalSvc, 0, 0) /\ Created2 /\ UNCHANGED budget
    <3>1. ThreadOK'
      BY <2>2 DEF ThreadOK, StageOK, Pcs
    <3> QED BY Zenon, <2>2, <3>1, StoreObjectType, KindTypes DEF StageOK, BudgetOK
  <2>3. CASE StoreObject(ExternalSvc, 0, 0) /\ Fail /\ Spend("faults")
    BY Zenon, <2>3, StoreObjectType, FailType, SpendType, KindTypes DEF StageOK
  <2> QED BY <1>4, <2>1, <2>2, <2>3 DEF CreateNamed, Create
<1> QED BY <1>1, <1>2, <1>3, <1>4 DEF ServiceConfig

LEMMA RelistServiceType ==
  ASSUME StageOK, listed \subseteq ObjectType, RelistService PROVE StageOK'
<1>1. ASSUME NEW o \in Listed({ExternalSvc}), Post(Found(o, "done"))
      PROVE  ThreadOK'
  <2>1. Found(o, "done") \in UpdateType
    BY ListedType, ReportTypes DEF StageOK
  <2> QED BY <1>1, <2>1, PostType DEF StageOK
<1>2. ASSUME Post(Update(0, 0, 0, "Pending", "done")) PROVE ThreadOK'
  <2>1. Update(0, 0, 0, "Pending", "done") \in UpdateType
    BY DEF Update, UpdateType, States
  <2> QED BY <1>2, <2>1, PostType DEF StageOK
<1> QED BY <1>1, <1>2, UnchangedType DEF RelistService, StageOK

LEMMA ConfigMapStageType ==
  ASSUME StageOK, NEW k \in CoordConf..CatalogConf, ConfigMapStage(k)
  PROVE  StageOK'
<1>0. k \in Kinds /\ k + 1 \in 0..8
  BY DEF CoordConf, CatalogConf, Kinds
<1>1. CASE Fail /\ StoreUnchanged
  BY <1>1, FailType, UnchangedType DEF StageOK
<1>2. CASE Proceed(k + 1) /\ StoreUnchanged
  BY <1>0, <1>2, ProceedType, UnchangedType DEF StageOK
<1>3. CASE CreateNamed(k, Post(Created(k)))
  BY <1>0, <1>3, CreateNamedType
<1> QED BY <1>1, <1>2, <1>3 DEF ConfigMapStage

LEMMA ConfigTypes ==
  ASSUME StageOK, CoordinatorConfig \/ WorkerConfig \/ CatalogConfig
  PROVE  StageOK'
<1>1. {CoordConf, WorkerConf, CatalogConf} \subseteq CoordConf..CatalogConf
  BY DEF CoordConf, WorkerConf, CatalogConf
<1> QED
  BY <1>1, ConfigMapStageType DEF CoordinatorConfig, WorkerConfig, CatalogConfig

LEMMA CoordinatorReplicasetType ==
  ASSUME StageOK, CoordinatorReplicaset PROVE StageOK'
<1>1. CASE Fail /\ StoreUnchanged
  BY <1>1, FailType, UnchangedType DEF StageOK
<1>2. CASE Proceed(WorkerRS) /\ StoreUnchanged
  BY Zenon, <1>2, ProceedType, UnchangedType, KindTypes DEF StageOK
<1>3. CASE StoreObject(CoordRS, 1, 0) /\ Post(Created(CoordRS))
             /\ UNCHANGED budget
  BY Zenon, <1>3, StoreObjectType, PostType, ReportTypes, KindTypes
     DEF StageOK, BudgetOK
<1>4. CASE StoreObject(CoordRS, 1, 0) /\ Fail /\ Spend("faults")
  BY Zenon, <1>4, StoreObjectType, FailType, SpendType, KindTypes DEF StageOK
<1> QED BY <1>1, <1>2, <1>3, <1>4 DEF CoordinatorReplicaset, Create

\* The store and the budget after an update, whatever follows it.
LEMMA UpdateObjectType ==
  ASSUME StageOK, NEW o \in ObjectType, NEW new \in ObjectType,
         objs' = (objs \ {o}) \cup {new}, behind' = behind \cup {Id(o)},
         UNCHANGED made
  PROVE  StoreOK'
<1>1. Id(o) \in Nat \X Nat \X Nat
  BY Zenon, EmptyTypes, ObjectTypes
<1> QED BY <1>1 DEF StageOK, StoreOK

LEMMA WorkerReplicasetType ==
  ASSUME StageOK, listed \subseteq ObjectType, WorkerReplicaset
  PROVE  StageOK'
<1> USE DEF StageOK
<1>1. CASE Fail /\ StoreUnchanged
  BY <1>1, FailType, UnchangedType
<1>2. ASSUME NEW o \in Listed({WorkerRS}), StoreUnchanged,
             pc' = "stage" /\ at' = HPA /\ wrs' = o,
             UNCHANGED <<queued, local, upd>>
      PROVE  StageOK'
  <2>1. ThreadOK'
    BY Zenon, <1>2, ListedType, KindTypes DEF ThreadOK, Pcs
  <2> QED BY <1>2, <2>1, UnchangedType
<1>3. ASSUME NEW o \in Listed({WorkerRS}),
             UpdateObject(o, [o EXCEPT !.replicas = local.spec.count],
                          Post(Workers(local.spec.count, "Pending"))
                            /\ UNCHANGED queued)
      PROVE  StageOK'
  <2> DEFINE new == [o EXCEPT !.replicas = local.spec.count]
  <2>1. o \in ObjectType /\ new \in ObjectType
    BY Zenon, ListedType, ObjectTypes, ReportTypes
  <2>2. Workers(local.spec.count, "Pending") \in UpdateType
    BY Zenon, ReportTypes DEF States
  <2> HIDE DEF new
  <2>3. CASE /\ objs' = (objs \ {o}) \cup {new} /\ behind' = behind \cup {Id(o)}
             /\ UNCHANGED made
             /\ \/ Post(Workers(local.spec.count, "Pending")) /\ UNCHANGED budget
                \/ Fail /\ Spend("faults")
    <3>1. StoreOK'
      BY <2>1, <2>3, UpdateObjectType
    <3> QED BY <2>2, <2>3, <3>1, PostType, FailType, SpendType, KindTypes
            DEF BudgetOK
  <2>4. CASE Fail /\ StoreUnchanged
    BY <2>4, FailType, UnchangedType
  <2> QED BY <1>3, <2>3, <2>4 DEF UpdateObject, new
<1>4. CASE Create(WorkerRS, local.spec.count, 0,
                  Post(Workers(local.spec.count, "Pending")))
  <2>1. Workers(local.spec.count, "Pending") \in UpdateType
        /\ local.spec.count \in Nat
    BY Zenon, ReportTypes DEF States
  <2> QED BY Zenon, <1>4, <2>1, StoreObjectType, PostType, FailType, SpendType,
             KindTypes DEF Create, BudgetOK
<1> QED BY Zenon, <1>1, <1>2, <1>3, <1>4 DEF WorkerReplicaset

LEMMA HpaReplicasetType ==
  ASSUME StageOK, listed \subseteq ObjectType, HpaReplicaset
  PROVE  StageOK'
<1> USE DEF StageOK
<1>1. CASE Fail /\ StoreUnchanged
  BY <1>1, FailType, UnchangedType
<1>2. CASE /\ pc' = "final" /\ UNCHANGED <<queued, at, local, wrs, upd>>
           /\ StoreUnchanged
  <2>1. ThreadOK'
    BY <1>2 DEF ThreadOK, Pcs
  <2> QED BY <1>2, <2>1, UnchangedType
<1>3. ASSUME NEW h \in Listed({HPA}),
             UpdateObject(h, [h EXCEPT !.spec = local.spec, !.target = wrs.n],
                          Return(FALSE))
      PROVE  StageOK'
  <2> DEFINE new == [h EXCEPT !.spec = local.spec, !.target = wrs.n]
  <2>1. h \in ObjectType /\ new \in ObjectType
    <3>1. wrs.n \in Nat /\ local.spec \in SpecType
      BY ReportTypes DEF ThreadOK, ObjectType
    <3> QED BY Zenon, <3>1, ListedType, ObjectTypes
  <2> HIDE DEF new
  <2>3. CASE /\ objs' = (objs \ {h}) \cup {new} /\ behind' = behind \cup {Id(h)}
             /\ UNCHANGED made
             /\ \/ Return(FALSE) /\ UNCHANGED budget
                \/ Fail /\ Spend("faults")
    <3>1. StoreOK'
      BY <2>1, <2>3, UpdateObjectType
    <3> QED BY <2>3, <3>1, ClearType, FailType, SpendType, KindTypes
            DEF BudgetOK, Return
  <2> QED BY Zenon, <1>1, <1>3, <2>3 DEF UpdateObject, new
<1>4. CASE DeleteHpa
  <2> DEFINE stored == {o \in objs : o.kind = HPA /\ o.uuid = uuid}
  <2>1. CASE /\ objs' = objs \ stored
             /\ behind' = behind \cup {Id(o) : o \in stored}
             /\ UNCHANGED made
             /\ \/ Post(Update(HPA, 0, 0, "Pending", "done")) /\ UNCHANGED budget
                \/ Fail /\ Spend("faults")
    <3>1. \A o \in stored : Id(o) \in Nat \X Nat \X Nat
      BY Zenon, EmptyTypes, ObjectTypes DEF StoreOK
    <3> HIDE DEF stored
    <3>2. StoreOK'
      BY <2>1, <3>1 DEF StoreOK
    <3>3. Update(HPA, 0, 0, "Pending", "done") \in UpdateType
      BY Zenon, KindTypes DEF Update, UpdateType, States
    <3> QED BY <2>1, <3>2, <3>3, PostType, FailType, SpendType, KindTypes
            DEF BudgetOK
  <2> QED BY <1>1, <1>4, <2>1 DEF DeleteHpa
<1>5. CASE Post(Created(HPA)) /\ StoreUnchanged
  BY Zenon, <1>5, PostType, ReportTypes, UnchangedType, KindTypes
<1>6. CASE Create(HPA, 0, wrs.n, Post(Created(HPA)))
  <2>1. wrs.n \in Nat /\ Created(HPA) \in UpdateType
    BY Zenon, ReportTypes, KindTypes DEF ThreadOK, ObjectType
  <2> QED BY Zenon, <1>6, <2>1, StoreObjectType, PostType, FailType, SpendType,
             KindTypes DEF Create, BudgetOK
<1> QED BY Zenon, <1>1, <1>2, <1>3, <1>4, <1>5, <1>6 DEF HpaReplicaset

LEMMA ReportPhaseType ==
  ASSUME StageOK, ReportPhase PROVE StageOK'
<1> USE DEF StageOK
<1>1. PICK phase \in Phases :
        Post(Workers(wrs.replicas, StateOfPhase(phase)))
  BY DEF ReportPhase
<1>2. StateOfPhase(phase) \in States
  BY Zenon, PhasesAssumption DEF StateOfPhase, States
<1>3. wrs.replicas \in Nat
  BY DEF ThreadOK, ObjectType
<1>4. Workers(wrs.replicas, StateOfPhase(phase)) \in UpdateType
  BY <1>2, <1>3, ReportTypes
<1> QED BY <1>1, <1>4, PostType, UnchangedType DEF ReportPhase

\* The parts of TypeOK that a stage leaves alone.
RestOK == /\ presto \in PrestoType /\ seen \in PrestoType
          /\ listed \subseteq ObjectType
          /\ queued \in BOOLEAN /\ registered \in BOOLEAN
          /\ up \in {"up", "down", "panicked"}
          /\ uids \in Nat /\ issued \in Nat

LEMMA TypeParts == TypeOK <=> StageOK /\ RestOK
  BY DEF TypeOK, StageOK, StoreOK, ThreadOK, BudgetOK, RestOK

Stages ==
  \/ StageCallFails \/ HeadlessServiceConfig \/ ServiceConfig \/ RelistService
  \/ CoordinatorConfig \/ WorkerConfig \/ CatalogConfig
  \/ CoordinatorReplicaset \/ WorkerReplicaset \/ HpaReplicaset \/ ReportPhase

LEMMA StagesType ==
  ASSUME TypeOK, Stages PROVE TypeOK'
<1>1. StageOK'
  BY TypeParts, StageCallFailsType, HeadlessServiceConfigType,
     ServiceConfigType, RelistServiceType, ConfigTypes,
     CoordinatorReplicasetType, WorkerReplicasetType, HpaReplicasetType,
     ReportPhaseType DEF Stages, RestOK
<1>2. StageFrame /\ queued' \in BOOLEAN
  <2>1. StageFrame
    BY Zenon DEF Stages, StageCallFails, HeadlessServiceConfig, ServiceConfig,
         RelistService, CoordinatorConfig, WorkerConfig, CatalogConfig,
         ConfigMapStage, CoordinatorReplicaset, WorkerReplicaset,
         HpaReplicaset, ReportPhase
  <2>2. CASE ~HpaReplicaset /\ ~WorkerReplicaset
    BY Zenon, <2>2, TypeParts DEF Stages, StageCallFails, HeadlessServiceConfig,
         ServiceConfig, RelistService, CoordinatorConfig, WorkerConfig,
         CatalogConfig, ConfigMapStage, CoordinatorReplicaset, ReportPhase,
         RestOK
  <2>3. CASE WorkerReplicaset
    BY <2>3, TypeParts DEF WorkerReplicaset, UpdateObject, RestOK
  <2>4. CASE HpaReplicaset
    BY Zenon, <2>4, TypeParts DEF HpaReplicaset, UpdateObject, Return, RestOK
  <2> QED BY <2>1, <2>2, <2>3, <2>4
<1>3. RestOK'
  BY <1>2, TypeParts DEF RestOK, StageFrame, caches, process
<1> QED
  BY <1>1, <1>3 DEF TypeOK, StageOK, StoreOK, ThreadOK, BudgetOK, RestOK

LEMMA PrestoIdType == PrestoId \in Nat \X Nat \X Nat
  BY DEF PrestoId

LEMMA StatusStepsType ==
  ASSUME TypeOK, AssignUuid \/ UpdateStatus PROVE TypeOK'
<1> USE DEF TypeOK
<1>1. ASSUME NEW s \in StatusType, StoreStatus(s)
      PROVE  presto' \in PrestoType /\ behind' \subseteq Nat \X Nat \X Nat
  BY Zenon, <1>1, StatusTypes, EmptyTypes, PrestoIdType DEF StoreStatus
<1>2. ASSUME AssignUuid PROVE TypeOK'
  <2>1. NewUuid \in Nat /\ [seen.status EXCEPT !.uuid = NewUuid] \in StatusType
    <3>1. NewUuid \in Nat
      BY DEF NewUuid
    <3> QED BY Zenon, <3>1, StatusTypes, EmptyTypes
  <2>2. presto' \in PrestoType /\ behind' \subseteq Nat \X Nat \X Nat
        /\ issued' \in Nat
    <3>1. CASE /\ StoreStatus([seen.status EXCEPT !.uuid = NewUuid])
               /\ issued' = issued + 1
      BY <1>1, <2>1, <3>1
    <3>2. CASE UNCHANGED <<presto, behind, issued>>
      BY <3>2
    <3> QED BY Zenon, <1>2, <3>1, <3>2 DEF AssignUuid
  <2>3. ThreadOK' /\ queued' \in BOOLEAN
    BY Zenon, <1>2, ClearType DEF AssignUuid, Return
  <2>4. BudgetOK'
    BY Zenon, <1>2, SpendType, KindTypes DEF AssignUuid, BudgetOK
  <2> QED
    BY <1>2, <2>2, <2>3, <2>4 DEF AssignUuid, ThreadOK, BudgetOK, caches, process
<1>3. ASSUME UpdateStatus PROVE TypeOK'
  <2>1. Applied(seen.status, upd) \in StatusType
    BY Zenon, StatusTypes, EmptyTypes
  <2>2. presto' \in PrestoType /\ behind' \subseteq Nat \X Nat \X Nat
    BY <1>1, <1>3, <2>1 DEF UpdateStatus
  <2>3. ThreadOK' /\ queued' \in BOOLEAN
    <3>1. CASE ClearThread
      BY Zenon, <1>3, <3>1, ClearType DEF UpdateStatus, Return
    <3>2. CASE /\ pc' = "stage" /\ at' = CoordConf /\ upd' = NoUpdate
               /\ UNCHANGED <<queued, local, wrs>>
      BY <3>2, EmptyTypes DEF ThreadOK, Pcs, CoordConf
    <3> QED BY <1>3, <3>1, <3>2 DEF UpdateStatus, Return
  <2>4. BudgetOK'
    BY <1>3, SpendType, KindTypes DEF UpdateStatus, BudgetOK
  <2> QED
    BY <1>3, <2>2, <2>3, <2>4 DEF UpdateStatus, ThreadOK, BudgetOK, caches,
       process
<1> QED BY <1>2, <1>3

LEMMA ProcessStepsType ==
  ASSUME TypeOK,
         \/ Reconcile \/ ReconcileNotFound \/ ReconcileGetFails \/ HpaPanics
         \/ DeliverPresto \/ (\E K \in Informers : DeliverOwned(K))
         \/ Tick \/ Crash \/ Restart
  PROVE  TypeOK'
<1> USE DEF TypeOK
<1>0. {"faults", "races", "crashes"} \subseteq Bounds
  BY DEF Bounds
<1>1. CASE Reconcile
  <2>1. pc' \in Pcs /\ at' \in 0..8
    BY <1>1 DEF Reconcile, Pcs, Headless
  <2>2. UNCHANGED <<presto, objs, issued, made, seen, listed>>
    BY <1>1 DEF Reconcile, store, caches
  <2> QED BY Zenon, <1>1, <2>1, <2>2 DEF Reconcile
<1>2. CASE ReconcileNotFound
  BY Zenon, <1>2 DEF ReconcileNotFound, store, caches, thread
<1>3. CASE ReconcileGetFails
  <2>1. BudgetOK'
    BY <1>0, <1>3, SpendType DEF ReconcileGetFails, BudgetOK
  <2> QED BY <1>3, <2>1 DEF ReconcileGetFails, BudgetOK, store, caches, process,
            thread
<1>4. ASSUME NEW how \in {"down", "panicked"}, Stop(how), UNCHANGED <<store, uids>>,
             BudgetOK'
      PROVE  TypeOK'
  <2>1. ThreadOK'
    BY <1>4, ClearType DEF Stop
  <2> QED BY Zenon, <1>4, <2>1, EmptyTypes DEF Stop, ThreadOK, BudgetOK, store
<1>5. CASE HpaPanics
  BY <1>4, <1>5 DEF HpaPanics, BudgetOK
<1>6. CASE Crash
  BY <1>0, <1>4, <1>6, SpendType DEF Crash, BudgetOK
<1>7. CASE DeliverPresto
  BY <1>7 DEF DeliverPresto, store, process, thread
<1>8. ASSUME NEW K \in Informers, DeliverOwned(K) PROVE TypeOK'
  BY <1>8 DEF DeliverOwned, store, process, thread
<1>9. CASE Tick
  <2>1. BudgetOK'
    BY <1>0, <1>9, SpendType DEF Tick, Race, BudgetOK
  <2> QED BY <1>9, <2>1 DEF Tick, BudgetOK, store, caches, process, thread
<1>10. CASE Restart
  BY <1>10 DEF Restart, store, thread
<1> QED BY <1>1, <1>2, <1>3, <1>5, <1>6, <1>7, <1>8, <1>9, <1>10

LEMMA OutsideType ==
  ASSUME TypeOK, Outside PROVE TypeOK'
<1> USE DEF TypeOK
<1>0. {"edits", "deletes", "churn", "races"} \subseteq Bounds
  BY DEF Bounds
<1>1. ASSUME OutsideFrame, BudgetOK', presto' \in PrestoType,
             objs' \subseteq ObjectType, behind' \subseteq Nat \X Nat \X Nat,
             uids' \in Nat
      PROVE  TypeOK'
  BY <1>1 DEF OutsideFrame, BudgetOK, caches, process, thread
<1>2. ASSUME NEW spec \in Specs, NEW L \in SUBSET Labels, CreatePresto(spec, L)
      PROVE  TypeOK'
  <2>1. presto' \in PrestoType /\ uids' \in Nat
    <3>1. spec \in SpecType /\ uids + 1 \in Nat
      BY SpecsAssumption
    <3> QED BY Zenon, <1>2, <3>1, PrestoEditTypes, EmptyTypes DEF CreatePresto
  <2> QED BY <1>1, <1>2, <2>1, PrestoIdType DEF CreatePresto, BudgetOK
<1>3. ASSUME NEW spec \in Specs, EditSpec(spec) PROVE TypeOK'
  <2>1. presto' \in PrestoType
    BY Zenon, <1>3, SpecsAssumption, PrestoEditTypes DEF EditSpec
  <2>2. BudgetOK'
    BY <1>0, <1>3, SpendType DEF EditSpec, BudgetOK
  <2> QED BY <1>1, <1>3, <2>1, <2>2, PrestoIdType DEF EditSpec
<1>4. ASSUME NEW L \in SUBSET Labels, Relabel(L) PROVE TypeOK'
  <2>1. presto' \in PrestoType
    BY Zenon, <1>4, EmptyTypes, PrestoEditTypes DEF Relabel
  <2>2. BudgetOK'
    BY <1>0, <1>4, SpendType DEF Relabel, BudgetOK
  <2> QED BY <1>1, <1>4, <2>1, <2>2, PrestoIdType DEF Relabel
<1>5. CASE DeletePresto
  <2>1. BudgetOK'
    BY <1>0, <1>5, SpendType DEF DeletePresto, BudgetOK
  <2> QED BY <1>1, <1>5, <2>1, EmptyTypes, PrestoIdType DEF DeletePresto
<1>6. ASSUME NEW O \in SUBSET objs, Remove(O), BudgetOK' PROVE TypeOK'
  <2>1. \A o \in O : Id(o) \in Nat \X Nat \X Nat
    BY Zenon, EmptyTypes, ObjectTypes
  <2>2. behind' \subseteq Nat \X Nat \X Nat
    BY <1>6, <2>1 DEF Remove
  <2> QED BY <1>1, <1>6, <2>2 DEF Remove
<1>7. ASSUME NEW o \in objs, DeleteOwned(o) PROVE TypeOK'
  BY <1>0, <1>6, <1>7, SpendType DEF DeleteOwned, BudgetOK
<1>8. CASE CollectGarbage
  <2>1. BudgetOK'
    BY <1>0, <1>8, SpendType DEF CollectGarbage, Race, BudgetOK
  <2> QED BY <1>6, <1>8, <2>1 DEF CollectGarbage
<1>9. ASSUME NEW o \in objs, NEW r \in Nat, WriteReplicaSet(o, r) PROVE TypeOK'
  <2>1. [o EXCEPT !.replicas = r] \in ObjectType /\ Id(o) \in Nat \X Nat \X Nat
    BY Zenon, EmptyTypes, ObjectTypes
  <2>2. BudgetOK'
    BY <1>0, <1>9, SpendType DEF WriteReplicaSet, BudgetOK
  <2> QED BY <1>1, <1>9, <2>1, <2>2 DEF WriteReplicaSet
<1>10. ASSUME NEW h \in objs, NEW o \in objs, HpaScales(h, o) PROVE TypeOK'
  <2>1. h.spec.min \in Nat /\ h.spec.max \in Nat
    BY DEF ObjectType, SpecType
  <2>2. PICK m \in h.spec.min..h.spec.max : WriteReplicaSet(o, m)
    BY <1>10 DEF HpaScales
  <2>3. m \in Nat
    BY <2>1
  <2> QED BY <1>9, <2>2, <2>3
<1>11. ASSUME NEW o \in objs, ReplicaSetReports(o) PROVE TypeOK'
  <2>1. o.replicas \in Nat
    BY Zenon, EmptyTypes, ObjectTypes
  <2> QED BY <1>9, <1>11, <2>1 DEF ReplicaSetReports
<1> QED BY <1>2, <1>3, <1>4, <1>5, <1>7, <1>8, <1>10, <1>11 DEF Outside

LEMMA InitType == Init => TypeOK
<1> SUFFICES ASSUME Init PROVE TypeOK
  OBVIOUS
<1>1. InitialBudget \in [Bounds -> Nat]
  <2>1. InitialBudget \in [edits: Nat, faults: Nat, crashes: Nat, deletes: Nat,
                           churn: Nat, races: Nat]
    BY BoundsAssumption DEF InitialBudget
  <2> QED BY <2>1 DEF Bounds
<1>2. StoreOK /\ BudgetOK
  BY <1>1 DEF Init, StoreOK, BudgetOK
<1>3. ThreadOK
  BY EmptyTypes DEF Init, ThreadOK, Pcs
<1>4. RestOK
  BY Zenon, EmptyTypes DEF Init, RestOK
<1> QED BY <1>2, <1>3, <1>4, TypeParts DEF StageOK

LEMMA NextType == TypeOK /\ [Next]_vars => TypeOK'
<1> SUFFICES ASSUME TypeOK, [Next]_vars PROVE TypeOK'
  OBVIOUS
<1>1. CASE UNCHANGED vars
  BY <1>1 DEF vars, TypeOK
<1> QED
  BY <1>1, StagesType, StatusStepsType, ProcessStepsType, OutsideType
     DEF Next, Reconciler, Stages

\* Every variable keeps its type, whatever the specs, faults and bounds.
THEOREM TypeCorrect == Spec => []TypeOK
  BY InitType, NextType, PTL DEF Spec

\* registeredPrestos holds the Presto exactly if the cache does, unless a request
\* is waiting: periodic events neither stop early nor go on for a deleted Presto.
THEOREM Registration == Spec => []RegistrationTracksCache
<1>1. Init => RegistrationInv
  BY DEF Init, RegistrationInv, RegistrationTracksCache, Exists, NoPresto
<1>2. TypeOK /\ RegistrationInv /\ [Next]_vars => RegistrationInv'
  BY RegistrationStep DEF TypeOK
<1>3. RegistrationInv => RegistrationTracksCache
  BY DEF RegistrationInv
<1> QED BY <1>1, <1>2, <1>3, TypeCorrect, PTL DEF Spec

=============================================================================

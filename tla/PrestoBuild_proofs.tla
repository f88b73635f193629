-------------------------- MODULE PrestoBuild_proofs --------------------------
(***************************************************************************)
(* Proofs about PrestoReconciler: the uuids, the order in which a cluster  *)
(* is built, and what the status says of it.                               *)
(*                                                                         *)
(* The reconciler works with three copies of the Presto: the stored one,   *)
(* the cached one and its local one.  The inductive invariant says how     *)
(* they are related, which uuids they and the created objects may carry,   *)
(* and what has been created when the reconciler is at a given stage.      *)
(***************************************************************************)
EXTENDS PrestoReconciler_proofs

Working == pc \in {"stage", "relist", "final", "status"}

\* Copy a is not newer than copy b: it is of an earlier Presto, or of the same
\* and has no uuid unless b has one.
NotNewer(a, b) ==
  \/ ~Exists(b)
  \/ a.uid < b.uid
  \/ a.uid = b.uid /\ (a.status.uuid # 0 => b.status.uuid # 0)

CopiesInv ==
  /\ up = "up" /\ PrestoId \notin behind => seen = presto
  /\ NotNewer(seen, presto) /\ NotNewer(local, presto) /\ NotNewer(local, seen)
  /\ presto.uid <= uids /\ seen.uid <= uids /\ local.uid <= uids
  /\ pc # "idle" => up = "up" /\ Exists(local)
  /\ Working => uuid # 0

\* Who uses which uuid: the copies, and the objects ever created.
Claims ==
  {<<presto.uid, presto.status.uuid>>, <<seen.uid, seen.status.uuid>>,
   <<local.uid, local.status.uuid>>} \cup {<<m[2], m[3]>> : m \in made}

UuidInv ==
  /\ \A c \in Claims : c[2] <= issued
  /\ \A c, d \in Claims : c[2] # 0 /\ c[2] = d[2] => c[1] = d[1]

\* A copy without a uuid is of a Presto for which nothing has been created.
NothingMade(p) == \A m \in made : m[2] < p.uid

FreshInv ==
  /\ Exists(presto) /\ presto.status.uuid = 0 => NothingMade(presto)
  /\ Exists(seen) /\ seen.status.uuid = 0 => NothingMade(seen)
  /\ pc = "uuid" => NothingMade(local)

Key(o)    == <<o.kind, o.uid, o.uuid>>
Here(k)   == <<k, local.uid, uuid>> \in made
\* The objects of the stages before k have been created for the local copy.
Before(k) == \A j \in Mandatory : j < k => Here(j)

MadeInv ==
  /\ BuildOrder
  /\ \A o \in objs \cup listed : Key(o) \in made
  /\ \A m \in made : m[3] # 0 /\ m[2] <= uids

\* The status update about to be made names only what has been created, and
\* reports Ready only at the end.
Truthful(u) ==
  /\ u.name # 0 /\ u.value # 0 => \E m \in made : m[1] = u.name /\ m[3] = u.value
  /\ u.state = "Ready" => Before(HPA)
  /\ u.next = "next" => Before(CoordConf)

StageInv ==
  /\ Working => Before(at)
  /\ pc = "relist" => at = ExternalSvc
  /\ pc = "final" => at = HPA
  /\ pc = "status" => Truthful(upd)

BuildInv ==
  /\ CopiesInv /\ UuidInv /\ FreshInv /\ MadeInv /\ StageInv
  /\ StatusNamesMade /\ ReadyMeansBuilt

-----------------------------------------------------------------------------
(***************************************************************************)
(* A stage writes objects of its own cluster, in order, and posts only     *)
(* updates that are true.                                                  *)
(***************************************************************************)

StoreEffect ==
  /\ \/ UNCHANGED made
     \/ \E k \in Kinds : Before(k) /\ made' = made \cup {<<k, local.uid, uuid>>}
  /\ \A o \in objs' : Key(o) \in made'
  /\ PrestoId \in behind => PrestoId \in behind'

ThreadEffect ==
  \/ ClearThread
  \/ /\ UNCHANGED local /\ pc' \in {"stage", "relist", "final", "status"}
     /\ StageInv'

StageEffect == StageFrame /\ StoreEffect /\ ThreadEffect

\* What a stage starts from.
StageStart == /\ BuildInv /\ TypeOK /\ pc \in {"stage", "relist", "final"}

LEMMA EmptyStatusFields ==
  /\ EmptyStatus.uuid = 0 /\ EmptyStatus.state = ""
  /\ \A k \in Kinds : EmptyStatus.names[k] = 0
  BY DEF EmptyStatus

LEMMA NoPrestoFields == NoPresto.uid = 0 /\ NoPresto.status = EmptyStatus
  BY DEF NoPresto

LEMMA StoreGrows == ASSUME StoreEffect PROVE made \subseteq made'
  BY DEF StoreEffect

LEMMA BeforeKept ==
  ASSUME made \subseteq made', UNCHANGED local, NEW k, Before(k)
  PROVE  Before(k)'
  BY DEF Before, Here, uuid

LEMMA BeforeNext ==
  ASSUME NEW k \in Nat, Before(k), Here(k) PROVE Before(k + 1)
  BY DEF Before, Mandatory

LEMMA EarlierHere ==
  ASSUME BuildOrder, NEW k, Here(k), NEW j \in Mandatory, j < k PROVE Here(j)
<1> DEFINE m == <<k, local.uid, uuid>>
<1>1. m \in made /\ m[1] = k /\ m[2] = local.uid /\ m[3] = uuid
  BY DEF Here
<1> HIDE DEF m
<1> QED BY <1>1 DEF BuildOrder, Here

\* An object the reconciler finds in the cache was created for its Presto.
LEMMA ListedHere ==
  ASSUME StageStart, NEW K, NEW o \in Listed(K)
  PROVE  o.kind \in K /\ o.kind \in Kinds /\ Here(o.kind)
<1>1. o \in listed /\ o.kind \in K /\ o.uuid = uuid
  BY DEF Listed
<1>2. Key(o) \in made /\ o \in ObjectType
  BY <1>1 DEF StageStart, BuildInv, MadeInv, TypeOK
<1>3. <<o.uid, o.uuid>> \in Claims
  BY <1>2 DEF Claims, Key
<1>4. <<local.uid, uuid>> \in Claims /\ uuid # 0
  BY DEF Claims, uuid, StageStart, BuildInv, CopiesInv, Working
<1>5. o.uid = local.uid
  BY <1>1, <1>3, <1>4 DEF StageStart, BuildInv, UuidInv
<1> QED BY <1>1, <1>2, <1>5 DEF Here, Key, ObjectType

LEMMA UnchangedEffect ==
  ASSUME StageStart, StoreUnchanged PROVE StoreEffect
  BY DEF StageStart, BuildInv, MadeInv, StoreUnchanged, StoreEffect

LEMMA StoreObjectEffect ==
  ASSUME StageStart, NEW k \in Kinds, NEW r, NEW t, Before(k),
         StoreObject(k, r, t)
  PROVE  StoreEffect /\ <<k, local.uid, uuid>> \in made'
<1>1. PICK n \in 1..MaxNames :
        LET o == [kind |-> k, uid |-> local.uid, uuid |-> uuid, n |-> n,
                  spec |-> local.spec, replicas |-> r, target |-> t]
        IN /\ objs' = objs \cup {o}
           /\ made' = made \cup {<<k, local.uid, uuid>>}
           /\ behind' = behind \cup {Id(o)}
  BY DEF StoreObject
<1> DEFINE new == [kind |-> k, uid |-> local.uid, uuid |-> uuid, n |-> n,
                   spec |-> local.spec, replicas |-> r, target |-> t]
<1>2. Key(new) = <<k, local.uid, uuid>>
  BY DEF Key
<1> HIDE DEF new
<1>3. objs' = objs \cup {new}
  BY <1>1 DEF new
<1>4. \A o \in objs' : Key(o) \in made'
  BY <1>1, <1>2, <1>3 DEF StageStart, BuildInv, MadeInv
<1> QED BY <1>1, <1>4 DEF StoreEffect

LEMMA UpdateObjectEffect ==
  ASSUME StageStart, NEW o \in listed, NEW new, Key(new) = Key(o),
         objs' = (objs \ {o}) \cup {new}, behind' = behind \cup {Id(o)},
         UNCHANGED made
  PROVE  StoreEffect
  BY DEF StageStart, BuildInv, MadeInv, StoreEffect

-----------------------------------------------------------------------------

\* The error path of every stage.
LEMMA FailEffect ==
  ASSUME StageStart, made \subseteq made', Fail PROVE ThreadEffect
<1>1. /\ pc' = "status" /\ upd' = Failure /\ UNCHANGED <<at, local, wrs>>
  BY DEF Fail, Post
<1>2. Before(at)'
  BY <1>1, BeforeKept DEF StageStart, BuildInv, StageInv, Working, Before
<1>3. Truthful(upd)'
  BY <1>1 DEF Truthful, Failure, Update
<1> QED BY <1>1, <1>2, <1>3 DEF ThreadEffect, StageInv

\* Truthful once the step is done.
TruthfulAfter(u) ==
  /\ u.name # 0 /\ u.value # 0 => \E m \in made' : m[1] = u.name /\ m[3] = u.value
  /\ u.state = "Ready" => Before(HPA)
  /\ u.next = "next" => Before(CoordConf)

LEMMA PostEffect ==
  ASSUME StageStart, made \subseteq made', NEW u, Post(u), TruthfulAfter(u)
  PROVE  ThreadEffect
<1>1. /\ pc' = "status" /\ upd' = u /\ UNCHANGED <<at, local, wrs>>
  BY DEF Post
<1>2. Before(at)'
  BY <1>1, BeforeKept DEF StageStart, BuildInv, StageInv, Working, Before
<1>3. Truthful(upd)'
  <2>1. Before(HPA) => Before(HPA)'
    BY <1>1, BeforeKept
  <2>2. Before(CoordConf) => Before(CoordConf)'
    BY <1>1, BeforeKept
  <2> QED BY <1>1, <2>1, <2>2 DEF Truthful, TruthfulAfter
<1> QED BY <1>1, <1>2, <1>3 DEF ThreadEffect, StageInv

LEMMA ProceedEffect ==
  ASSUME StageStart, made \subseteq made', NEW k, Proceed(k), Before(k)
  PROVE  ThreadEffect
<1>1. /\ pc' = "stage" /\ at' = k /\ UNCHANGED <<local, wrs, upd>>
  BY DEF Proceed
<1>2. Before(at)'
  BY <1>1, BeforeKept DEF Before
<1> QED BY <1>1, <1>2 DEF ThreadEffect, StageInv

\* Reporting an object that is there, and reporting that one is gone.
LEMMA CreatedTruthful ==
  ASSUME NEW k \in Kinds, <<k, local.uid, uuid>> \in made'
  PROVE  /\ TruthfulAfter(Created(k))
         /\ k = ExternalSvc => \A o : TruthfulAfter(Found(o, "done"))
         /\ k = WorkerRS =>
              \A n, state : state # "Ready" => TruthfulAfter(Workers(n, state))
  BY DEF TruthfulAfter, Created, Found, Workers, Update

LEMMA CreateNamedEffect ==
  ASSUME StageStart, NEW k \in Kinds, Before(k),
         CreateNamed(k, Post(Created(k)))
  PROVE  StoreEffect /\ ThreadEffect
<1>1. CASE Fail /\ UNCHANGED <<objs, made, behind, budget>>
  BY <1>1, UnchangedEffect, FailEffect DEF StoreUnchanged
<1>2. CASE StoreObject(k, 0, 0) /\ (Post(Created(k)) \/ Fail)
  <2>1. StoreEffect /\ <<k, local.uid, uuid>> \in made'
    BY <1>2, StoreObjectEffect
  <2> QED BY <1>2, <2>1, StoreGrows, PostEffect, FailEffect, CreatedTruthful
<1> QED BY <1>1, <1>2 DEF CreateNamed, Create

LEMMA AtStageBefore ==
  ASSUME BuildInv, TypeOK, NEW k, AtStage(k) PROVE StageStart /\ Before(k)
  BY DEF AtStage, StageStart, BuildInv, StageInv, Working

LEMMA StageCallFailsEffect ==
  ASSUME BuildInv, TypeOK, StageCallFails PROVE StageEffect
<1>1. StageStart /\ StoreEffect /\ made \subseteq made'
  BY DEF StageStart, StageCallFails, StoreEffect, BuildInv, MadeInv
<1> QED BY <1>1, FailEffect DEF StageCallFails, StageEffect

LEMMA HeadlessServiceConfigEffect ==
  ASSUME BuildInv, TypeOK, HeadlessServiceConfig PROVE StageEffect
<1>1. StageStart /\ Before(Headless)
  BY AtStageBefore DEF HeadlessServiceConfig
<1>2. CASE /\ Listed({Headless, ExternalSvc}) # {}
           /\ Proceed(ExternalSvc) /\ StoreUnchanged
  \* The list may have found the external service, which was created later.
  <2>1. PICK o \in Listed({Headless, ExternalSvc}) : TRUE
    BY <1>2
  <2>2. Here(Headless)
    <3>1. Here(Headless) \/ Here(ExternalSvc)
      BY <1>1, <2>1, ListedHere
    <3>2. Headless \in Mandatory /\ Headless < ExternalSvc
      BY DEF Headless, ExternalSvc, Mandatory
    <3> QED BY <3>1, <3>2, EarlierHere DEF BuildInv, MadeInv
  <2>3. Before(ExternalSvc)
    BY <2>2 DEF Before, Mandatory, Headless, ExternalSvc
  <2> QED BY <1>1, <1>2, <2>3, UnchangedEffect, ProceedEffect, StoreGrows
          DEF StageEffect, HeadlessServiceConfig
<1>3. CASE CreateNamed(Headless, Post(Created(Headless)))
  BY Zenon, <1>1, <1>3, CreateNamedEffect, KindTypes
     DEF StageEffect, HeadlessServiceConfig
<1> QED BY <1>2, <1>3 DEF HeadlessServiceConfig

LEMMA ServiceConfigEffect ==
  ASSUME BuildInv, TypeOK, ServiceConfig PROVE StageEffect
<1> DEFINE Relist == pc' = "relist" /\ UNCHANGED <<at, local, wrs, upd>>
<1>1. StageStart /\ Before(ExternalSvc) /\ StageFrame /\ at = ExternalSvc
  BY AtStageBefore DEF ServiceConfig, AtStage
<1>2. CASE Fail /\ StoreUnchanged
  BY <1>1, <1>2, UnchangedEffect, FailEffect, StoreGrows DEF StageEffect
<1>3. ASSUME NEW o \in Listed({ExternalSvc}), StoreUnchanged,
             Post(Found(o, "next")) \/ Proceed(CoordConf)
      PROVE  StageEffect
  <2>1. Here(ExternalSvc)
    BY <1>1, ListedHere
  <2>2. Before(CoordConf)
    <3>1. Before(ExternalSvc + 1)
      BY <1>1, <2>1, BeforeNext DEF ExternalSvc
    <3> QED BY <3>1 DEF ExternalSvc, CoordConf
  <2>3. StoreEffect /\ made \subseteq made'
    BY <1>1, <1>3, UnchangedEffect, StoreGrows
  <2>4. TruthfulAfter(Found(o, "next"))
    BY <2>1, <2>2, <2>3 DEF TruthfulAfter, Found, Update, Here
  <2> QED BY <1>1, <1>3, <2>2, <2>3, <2>4, PostEffect, ProceedEffect
          DEF StageEffect
<1>4. CASE CreateNamed(ExternalSvc, Relist)
  <2>1. CASE Fail /\ UNCHANGED <<objs, made, behind, budget>>
    BY <1>2, <2>1 DEF StoreUnchanged
  <2>2. CASE StoreObject(ExternalSvc, 0, 0) /\ (Relist \/ Fail)
    <3>1. StoreEffect /\ made \subseteq made'
      BY Zenon, <1>1, <2>2, StoreObjectEffect, StoreGrows, KindTypes
    <3>2. ASSUME Relist PROVE ThreadEffect
      <4>1. Before(at)'
        BY <1>1, <3>1, <3>2, BeforeKept DEF Before
      <4> QED BY <1>1, <3>2, <4>1 DEF ThreadEffect, StageInv
    <3> QED BY <1>1, <2>2, <3>1, <3>2, FailEffect DEF StageEffect
  <2> QED BY <1>4, <2>1, <2>2 DEF CreateNamed, Create
<1> QED BY <1>2, <1>3, <1>4 DEF ServiceConfig

LEMMA RelistServiceEffect ==
  ASSUME BuildInv, TypeOK, RelistService PROVE StageEffect
<1>1. StageStart /\ StageFrame /\ StoreUnchanged
  BY DEF StageStart, RelistService
<1>2. StoreEffect /\ made \subseteq made'
  BY <1>1, UnchangedEffect, StoreGrows
<1>3. ASSUME NEW o \in Listed({ExternalSvc}), Post(Found(o, "done"))
      PROVE  ThreadEffect
  <2>1. Here(ExternalSvc)
    BY <1>1, ListedHere
  <2>2. TruthfulAfter(Found(o, "done"))
    BY <1>2, <2>1 DEF TruthfulAfter, Found, Update, Here
  <2> QED BY <1>1, <1>2, <1>3, <2>2, PostEffect
<1>4. CASE Post(Update(0, 0, 0, "Pending", "done"))
  <2>1. TruthfulAfter(Update(0, 0, 0, "Pending", "done"))
    BY DEF TruthfulAfter, Update
  <2> QED BY <1>1, <1>2, <1>4, <2>1, PostEffect DEF StageEffect
<1> QED BY <1>1, <1>2, <1>3, <1>4 DEF RelistService, StageEffect

LEMMA ConfigMapStageEffect ==
  ASSUME BuildInv, TypeOK, NEW k \in CoordConf..CatalogConf, ConfigMapStage(k)
  PROVE  StageEffect
<1>1. StageStart /\ Before(k) /\ StageFrame /\ k \in Kinds /\ k \in Nat
  BY AtStageBefore DEF ConfigMapStage, CoordConf, CatalogConf, Kinds
<1>2. CASE Fail /\ StoreUnchanged
  BY <1>1, <1>2, UnchangedEffect, FailEffect, StoreGrows DEF StageEffect
<1>3. CASE ConfigMapsNamed(k) # {} /\ Proceed(k + 1) /\ StoreUnchanged
  <2>1. Here(k)
    BY <1>1, <1>3, ListedHere DEF ConfigMapsNamed
  <2>2. Before(k + 1)
    BY <1>1, <2>1, BeforeNext
  <2> QED BY <1>1, <1>3, <2>2, UnchangedEffect, ProceedEffect, StoreGrows
          DEF StageEffect
<1>4. CASE CreateNamed(k, Post(Created(k)))
  BY <1>1, <1>4, CreateNamedEffect DEF StageEffect
<1> QED BY <1>2, <1>3, <1>4 DEF ConfigMapStage

LEMMA CoordinatorReplicasetEffect ==
  ASSUME BuildInv, TypeOK, CoordinatorReplicaset PROVE StageEffect
<1>1. StageStart /\ Before(CoordRS) /\ StageFrame
  BY AtStageBefore DEF CoordinatorReplicaset
<1>2. CASE Fail /\ StoreUnchanged
  BY <1>1, <1>2, UnchangedEffect, FailEffect, StoreGrows DEF StageEffect
<1>3. CASE Listed({CoordRS}) # {} /\ Proceed(WorkerRS) /\ StoreUnchanged
  <2>1. Here(CoordRS)
    BY <1>1, <1>3, ListedHere
  <2>2. Before(WorkerRS)
    <3>1. Before(CoordRS + 1)
      BY <1>1, <2>1, BeforeNext DEF CoordRS
    <3> QED BY <3>1 DEF CoordRS, WorkerRS
  <2> QED BY <1>1, <1>3, <2>2, UnchangedEffect, ProceedEffect, StoreGrows
          DEF StageEffect
<1>4. CASE Create(CoordRS, 1, 0, Post(Created(CoordRS)))
  <2>1. StoreEffect /\ <<CoordRS, local.uid, uuid>> \in made'
    BY Zenon, <1>1, <1>4, StoreObjectEffect, KindTypes DEF Create
  <2> QED BY Zenon, <1>1, <1>4, <2>1, StoreGrows, PostEffect, FailEffect,
             CreatedTruthful, KindTypes DEF StageEffect, Create
<1> QED BY <1>2, <1>3, <1>4 DEF CoordinatorReplicaset

LEMMA WorkerReplicasetEffect ==
  ASSUME BuildInv, TypeOK, WorkerReplicaset PROVE StageEffect
<1>1. StageStart /\ Before(WorkerRS) /\ StageFrame
  BY AtStageBefore DEF WorkerReplicaset
<1>2. CASE Fail /\ StoreUnchanged
  BY <1>1, <1>2, UnchangedEffect, FailEffect, StoreGrows DEF StageEffect
<1>3. ASSUME <<WorkerRS, local.uid, uuid>> \in made'
      PROVE  TruthfulAfter(Workers(local.spec.count, "Pending"))
  BY <1>3, CreatedTruthful, KindTypes
<1>4. ASSUME NEW o \in Listed({WorkerRS}), StoreUnchanged,
             pc' = "stage" /\ at' = HPA /\ wrs' = o,
             UNCHANGED <<queued, local, upd>>
      PROVE  StageEffect
  <2>1. Before(HPA)
    <3>1. Before(WorkerRS + 1)
      BY <1>1, ListedHere, BeforeNext DEF WorkerRS
    <3> QED BY <3>1 DEF HPA, WorkerRS
  <2>2. StoreEffect /\ made \subseteq made'
    BY <1>1, <1>4, UnchangedEffect, StoreGrows
  <2>3. Before(at)'
    BY <1>4, <2>1, <2>2, BeforeKept DEF Before
  <2> QED BY <1>1, <1>4, <2>2, <2>3 DEF StageEffect, ThreadEffect, StageInv
<1>5. ASSUME NEW o \in Listed({WorkerRS}),
             UpdateObject(o, [o EXCEPT !.replicas = local.spec.count],
                          Post(Workers(local.spec.count, "Pending"))
                            /\ UNCHANGED queued)
      PROVE  StageEffect
  <2> DEFINE new == [o EXCEPT !.replicas = local.spec.count]
  <2>1. o \in listed /\ o \in ObjectType /\ Here(WorkerRS)
    BY Zenon, <1>1, ListedHere DEF Listed, TypeOK
  <2>2. Key(new) = Key(o)
    BY <2>1 DEF Key, ObjectType
  <2> HIDE DEF new
  <2>3. CASE /\ objs' = (objs \ {o}) \cup {new} /\ behind' = behind \cup {Id(o)}
             /\ UNCHANGED made
             /\ Post(Workers(local.spec.count, "Pending")) \/ Fail
    <3>1. StoreEffect
      BY <1>1, <2>1, <2>2, <2>3, UpdateObjectEffect
    <3>2. <<WorkerRS, local.uid, uuid>> \in made'
      BY <2>1, <2>3 DEF Here
    <3> QED BY <1>1, <1>3, <2>3, <3>1, <3>2, PostEffect, FailEffect, StoreGrows
            DEF StageEffect
  <2> QED BY <1>2, <1>5, <2>3 DEF UpdateObject, new
<1>6. CASE Create(WorkerRS, local.spec.count, 0,
                  Post(Workers(local.spec.count, "Pending")))
  <2>1. StoreEffect /\ <<WorkerRS, local.uid, uuid>> \in made'
    BY Zenon, <1>1, <1>6, StoreObjectEffect, KindTypes DEF Create
  <2> QED BY <1>1, <1>3, <1>6, <2>1, StoreGrows, PostEffect, FailEffect
          DEF StageEffect, Create
<1> QED BY Zenon, <1>2, <1>4, <1>5, <1>6 DEF WorkerReplicaset

LEMMA HpaReplicasetEffect ==
  ASSUME BuildInv, TypeOK, HpaReplicaset PROVE StageEffect
<1>1. StageStart /\ Before(HPA) /\ StageFrame /\ at = HPA
  BY Zenon, AtStageBefore DEF HpaReplicaset, AtStage
<1>2. CASE Fail /\ StoreUnchanged
  BY <1>1, <1>2, UnchangedEffect, FailEffect, StoreGrows DEF StageEffect
<1>3. CASE /\ pc' = "final" /\ UNCHANGED <<queued, at, local, wrs, upd>>
           /\ StoreUnchanged
  <2>1. StoreEffect /\ made \subseteq made'
    BY <1>1, <1>3, UnchangedEffect, StoreGrows
  <2>2. Before(at)'
    BY <1>1, <1>3, <2>1, BeforeKept DEF Before
  <2> QED BY <1>1, <1>3, <2>1, <2>2 DEF StageEffect, ThreadEffect, StageInv
<1>4. ASSUME NEW h \in Listed({HPA}),
             UpdateObject(h, [h EXCEPT !.spec = local.spec, !.target = wrs.n],
                          Return(FALSE))
      PROVE  StageEffect
  <2> DEFINE new == [h EXCEPT !.spec = local.spec, !.target = wrs.n]
  <2>1. h \in listed /\ h \in ObjectType
    BY DEF Listed, TypeOK
  <2>2. Key(new) = Key(h)
    BY <2>1 DEF Key, ObjectType
  <2> HIDE DEF new
  <2>3. CASE /\ objs' = (objs \ {h}) \cup {new} /\ behind' = behind \cup {Id(h)}
             /\ UNCHANGED made
             /\ Return(FALSE) \/ Fail
    <3>1. StoreEffect
      BY <1>1, <2>1, <2>2, <2>3, UpdateObjectEffect
    <3> QED BY <1>1, <2>3, <3>1, FailEffect, StoreGrows
            DEF StageEffect, ThreadEffect, Return
  <2> QED BY Zenon, <1>2, <1>4, <2>3 DEF UpdateObject, new
<1>5. CASE DeleteHpa
  <2> DEFINE gone == Update(HPA, 0, 0, "Pending", "done")
  <2>1. CASE /\ objs' \subseteq objs /\ behind \subseteq behind'
             /\ UNCHANGED made
             /\ Post(gone) \/ Fail
    <3>0. \A o \in objs : Key(o) \in made
      BY DEF BuildInv, MadeInv
    <3>1. StoreEffect
      BY <2>1, <3>0 DEF StoreEffect
    <3>2. TruthfulAfter(gone)
      BY DEF TruthfulAfter, Update
    <3> QED BY <1>1, <2>1, <3>1, <3>2, PostEffect, FailEffect, StoreGrows
            DEF StageEffect
  <2> QED BY <1>2, <1>5, <2>1 DEF DeleteHpa
<1>6. CASE NameTaken(HPA) /\ Post(Created(HPA)) /\ StoreUnchanged
  \* AlreadyExists counts as created: the object has this uuid.
  <2>1. PICK o \in objs : o.kind = HPA /\ o.uuid = uuid
    BY <1>6 DEF NameTaken
  <2>2. StoreEffect /\ made \subseteq made'
    BY <1>1, <1>6, UnchangedEffect, StoreGrows
  <2>3. Key(o) \in made' /\ Key(o)[1] = HPA /\ Key(o)[3] = uuid
    BY <2>1, <2>2 DEF BuildInv, MadeInv, Key
  <2>4. TruthfulAfter(Created(HPA))
    BY <2>3 DEF TruthfulAfter, Created, Update
  <2> QED BY <1>1, <1>6, <2>2, <2>4, PostEffect DEF StageEffect
<1>7. CASE Create(HPA, 0, wrs.n, Post(Created(HPA)))
  <2>1. StoreEffect /\ <<HPA, local.uid, uuid>> \in made'
    BY Zenon, <1>1, <1>7, StoreObjectEffect, KindTypes DEF Create
  <2> QED BY Zenon, <1>1, <1>7, <2>1, StoreGrows, PostEffect, FailEffect,
             CreatedTruthful, KindTypes DEF StageEffect, Create
<1> QED BY Zenon, <1>2, <1>3, <1>4, <1>5, <1>6, <1>7 DEF HpaReplicaset

LEMMA ReportPhaseEffect ==
  ASSUME BuildInv, TypeOK, ReportPhase PROVE StageEffect
<1>1. StageStart /\ Before(HPA) /\ StageFrame /\ StoreUnchanged
  BY DEF StageStart, ReportPhase, BuildInv, StageInv, Working
<1>2. StoreEffect /\ made \subseteq made'
  BY <1>1, UnchangedEffect, StoreGrows
<1>3. PICK phase \in Phases : Post(Workers(wrs.replicas, StateOfPhase(phase)))
  BY DEF ReportPhase
<1>4. Here(WorkerRS)
  BY <1>1 DEF Before, WorkerRS, HPA, Mandatory
<1>5. TruthfulAfter(Workers(wrs.replicas, StateOfPhase(phase)))
  BY <1>1, <1>2, <1>4 DEF TruthfulAfter, Workers, Update, Here
<1> QED BY <1>1, <1>2, <1>3, <1>5, PostEffect DEF StageEffect

LEMMA StagesEffect ==
  ASSUME BuildInv, TypeOK, Stages PROVE StageEffect /\ StageStart
<1>1. {CoordConf, WorkerConf, CatalogConf} \subseteq CoordConf..CatalogConf
  BY DEF CoordConf, WorkerConf, CatalogConf
<1>2. StageEffect
  BY <1>1, StageCallFailsEffect, HeadlessServiceConfigEffect,
     ServiceConfigEffect, RelistServiceEffect, ConfigMapStageEffect,
     CoordinatorReplicasetEffect, WorkerReplicasetEffect, HpaReplicasetEffect,
     ReportPhaseEffect
     DEF Stages, CoordinatorConfig, WorkerConfig, CatalogConfig
<1>3. StageStart
  BY Zenon DEF Stages, StageCallFails, HeadlessServiceConfig, ServiceConfig,
     RelistService, CoordinatorConfig, WorkerConfig, CatalogConfig,
     ConfigMapStage, CoordinatorReplicaset, WorkerReplicaset, HpaReplicaset,
     ReportPhase, AtStage, StageStart
<1> QED BY <1>2, <1>3

-----------------------------------------------------------------------------
(***************************************************************************)
(* A step with these effects preserves the invariant.                      *)
(***************************************************************************)

\* NoPresto is not newer than anything.
LEMMA NotNewerNone ==
  ASSUME NEW p \in PrestoType PROVE NotNewer(NoPresto, p)
  BY DEF NotNewer, NoPresto, Exists, PrestoType

LEMMA StageKeepsCopies ==
  ASSUME StageStart, StageEffect PROVE CopiesInv'
<1>1. UNCHANGED <<presto, seen, up, uids>>
  BY DEF StageEffect, StageFrame, caches, process
<1>2. PrestoId \in behind => PrestoId \in behind'
  BY DEF StageEffect, StoreEffect
<1>3. CASE ClearThread
  <2>1. local' = NoPresto /\ pc' = "idle"
    BY <1>3 DEF ClearThread
  <2>2. NotNewer(NoPresto, presto) /\ NotNewer(NoPresto, seen)
    BY NotNewerNone DEF StageStart, TypeOK
  <2>3. NotNewer(local, presto)' /\ NotNewer(local, seen)'
    BY <1>1, <2>1, <2>2 DEF NotNewer, Exists
  <2>4. NotNewer(seen, presto)'
    BY <1>1 DEF StageStart, BuildInv, CopiesInv, NotNewer, Exists
  <2>5. (local.uid <= uids)'
    BY <1>1, <2>1 DEF NoPresto, StageStart, TypeOK
  <2> QED BY <1>1, <1>2, <2>1, <2>3, <2>4, <2>5
          DEF StageStart, BuildInv, CopiesInv, Working
<1>4. CASE UNCHANGED local /\ pc' \in {"stage", "relist", "final", "status"}
  BY <1>1, <1>2, <1>4 DEF StageStart, BuildInv, CopiesInv, NotNewer, Exists,
     Working, uuid
<1> QED BY <1>3, <1>4 DEF StageEffect, ThreadEffect

\* The uuids stay apart when no one gets a uuid another had.
LEMMA ClaimsKept ==
  ASSUME TypeOK, UuidInv, UNCHANGED issued,
         \A c \in Claims' : c \in Claims \/ c[2] = 0
  PROVE  UuidInv'
<1>1. issued \in Nat
  BY DEF TypeOK
<1> QED BY <1>1 DEF UuidInv

LEMMA ClaimsTyped ==
  ASSUME TypeOK PROVE \A c \in Claims : c[1] \in Nat /\ c[2] \in Nat
<1>1. \A p \in PrestoType : p.uid \in Nat /\ p.status.uuid \in Nat
  BY DEF PrestoType, StatusType
<1>2. \A m \in made : m[2] \in Nat /\ m[3] \in Nat
  BY DEF TypeOK
<1> QED BY <1>1, <1>2 DEF Claims, TypeOK

LEMMA StageKeepsUuids ==
  ASSUME StageStart, StageEffect PROVE UuidInv'
<1>1. UNCHANGED <<presto, seen, issued>>
  BY DEF StageEffect, StageFrame, caches
<1>2. local' \in {local, NoPresto}
  BY DEF StageEffect, ThreadEffect, ClearThread
<1>3. \A m \in made' : <<m[2], m[3]>> \in Claims
  <2>1. \A m \in made : <<m[2], m[3]>> \in Claims
    BY DEF Claims
  <2>2. ASSUME NEW k \in Kinds, NEW m, m = <<k, local.uid, uuid>>
        PROVE  <<m[2], m[3]>> \in Claims
    BY <2>2 DEF Claims, uuid
  <2> QED BY Zenon, <2>1, <2>2 DEF StageEffect, StoreEffect
<1>4. <<local'.uid, local'.status.uuid>> \in Claims \cup {<<0, 0>>}
  <2>1. CASE UNCHANGED local
    BY <2>1 DEF Claims
  <2>2. CASE local' = NoPresto
    BY Zenon, <2>2 DEF NoPresto, EmptyStatus
  <2> QED BY <1>2, <2>1, <2>2
<1>5. \A c \in Claims' : c \in Claims \/ c = <<0, 0>>
  BY <1>1, <1>3, <1>4 DEF Claims
<1>6. \A c \in Claims' : c \in Claims \/ c[2] = 0
  BY <1>5
<1> QED BY <1>1, <1>6, ClaimsKept DEF StageStart, BuildInv

LEMMA StageKeepsFresh ==
  ASSUME StageStart, StageEffect PROVE FreshInv'
<1>1. UNCHANGED <<presto, seen>> /\ pc' # "uuid"
  BY DEF StageEffect, StageFrame, caches, ThreadEffect, ClearThread
<1>2. uuid # 0 /\ NotNewer(local, presto) /\ NotNewer(local, seen)
  BY DEF StageStart, BuildInv, CopiesInv, Working
<1>3. ASSUME NEW p \in {presto, seen}, Exists(p), p.status.uuid = 0,
             NEW m \in made'
      PROVE  m[2] < p.uid
  <2>1. NothingMade(p)
    BY <1>3 DEF StageStart, BuildInv, FreshInv
  <2>2. local.uid < p.uid
    BY <1>2, <1>3 DEF NotNewer, uuid
  <2>3. m \in made \/ m[2] = local.uid
    BY <1>3 DEF StageEffect, StoreEffect
  <2> QED BY <2>1, <2>2, <2>3 DEF NothingMade
<1> QED BY <1>1, <1>3 DEF FreshInv, NothingMade, Exists

LEMMA StageKeepsMade ==
  ASSUME StageStart, StageEffect PROVE MadeInv'
<1>1. UNCHANGED <<listed, uids>> /\ made \subseteq made'
  BY StoreGrows DEF StageEffect, StageFrame, caches
<1>2. \A o \in objs' \cup listed' : Key(o) \in made'
  BY <1>1 DEF StageEffect, StoreEffect, StageStart, BuildInv, MadeInv
<1>3. CASE UNCHANGED made
  BY <1>1, <1>2, <1>3 DEF StageStart, BuildInv, MadeInv, BuildOrder, Key
<1>4. ASSUME NEW k \in Kinds, Before(k),
             made' = made \cup {<<k, local.uid, uuid>>}
      PROVE  MadeInv'
  <2> DEFINE new == <<k, local.uid, uuid>>
  <2>1. new[1] = k /\ new[2] = local.uid /\ new[3] = uuid
    OBVIOUS
  <2>2. made' = made \cup {new}
    BY <1>4
  <2> HIDE DEF new
  <2>3. uuid # 0 /\ local.uid <= uids
    BY DEF StageStart, BuildInv, CopiesInv, Working
  <2>4. \A m \in made' : m[3] # 0 /\ m[2] <= uids
    BY <2>1, <2>2, <2>3 DEF StageStart, BuildInv, MadeInv
  <2>5. BuildOrder'
    BY <1>4, <2>1, <2>2 DEF BuildOrder, Before, Here, StageStart, BuildInv,
       MadeInv
  <2> QED BY <1>1, <1>2, <2>4, <2>5 DEF MadeInv, Key
<1> QED BY <1>3, <1>4 DEF StageEffect, StoreEffect

LEMMA StageKeepsInv ==
  ASSUME StageStart, StageEffect PROVE BuildInv'
<1>1. UNCHANGED presto /\ made \subseteq made'
  BY StoreGrows DEF StageEffect, StageFrame
<1>2. StageInv'
  BY DEF StageEffect, ThreadEffect, ClearThread, StageInv, Working
<1>3. StatusNamesMade'
  BY <1>1 DEF StageStart, BuildInv, StatusNamesMade
<1>4. ReadyMeansBuilt'
  BY <1>1 DEF StageStart, BuildInv, ReadyMeansBuilt
<1> QED
  BY <1>2, <1>3, <1>4, StageKeepsCopies, StageKeepsUuids, StageKeepsFresh,
     StageKeepsMade DEF BuildInv

-----------------------------------------------------------------------------
(***************************************************************************)
(* The other steps of the reconciler.                                      *)
(***************************************************************************)

\* Steps that leave the store alone.
LEMMA QuietStore ==
  ASSUME BuildInv, UNCHANGED <<presto, objs, made>>
  PROVE  /\ StatusNamesMade' /\ ReadyMeansBuilt'
         /\ BuildOrder' /\ \A o \in objs' : Key(o) \in made'
  BY DEF BuildInv, MadeInv, StatusNamesMade, ReadyMeansBuilt, BuildOrder, Key

LEMMA ReconcileKeepsInv ==
  ASSUME BuildInv, TypeOK, Reconcile PROVE BuildInv'
<1>1. UNCHANGED <<presto, objs, issued, made, seen, listed, behind, up, uids>>
  BY DEF Reconcile, store, caches
<1>2. local' = seen /\ Exists(seen) /\ up = "up" /\ pc' \in {"uuid", "stage"}
  BY DEF Reconcile
<1>3. CopiesInv'
  <2>1. NotNewer(seen, presto) /\ NotNewer(seen, seen)
    BY DEF BuildInv, CopiesInv, NotNewer
  <2>2. (Working => uuid # 0)'
    BY <1>2 DEF Reconcile, NeedsUuid, Working, uuid
  <2> QED BY <1>1, <1>2, <2>1, <2>2 DEF BuildInv, CopiesInv, NotNewer, Exists
<1>4. UuidInv'
  <2>1. Claims' \subseteq Claims
    BY <1>1, <1>2 DEF Claims
  <2> QED BY <1>1, <2>1, ClaimsKept DEF BuildInv
<1>5. FreshInv'
  <2>1. pc' = "uuid" => seen.status.uuid = 0
    BY DEF Reconcile, NeedsUuid
  <2> QED BY <1>1, <1>2, <2>1 DEF BuildInv, FreshInv, NothingMade, Exists
<1>6. MadeInv'
  BY <1>1 DEF BuildInv, MadeInv, BuildOrder, Key
<1>7. StageInv'
  <2>1. pc' = "stage" => at' = Headless
    BY DEF Reconcile
  <2>2. pc' = "stage" => Before(at)'
    BY <2>1 DEF Before, Headless, Mandatory
  <2> QED BY <1>2, <2>2 DEF StageInv, Working
<1> QED BY <1>1, <1>3, <1>4, <1>5, <1>6, <1>7, QuietStore DEF BuildInv

\* A status that is accepted was computed from the stored copy: the optimistic
\* concurrency control of the API server.
LEMMA StatusWritten ==
  ASSUME BuildInv, TypeOK, pc # "idle", StatusAccepted, NEW s, StoreStatus(s)
  PROVE  /\ seen = presto /\ Exists(presto) /\ PrestoId \in behind'
         /\ presto'.uid = presto.uid /\ presto'.status = s
<1>1. seen = presto /\ Exists(presto)
  BY DEF StatusAccepted, BuildInv, CopiesInv
<1>2. presto \in PrestoType
  BY DEF TypeOK
<1> QED BY <1>1, <1>2 DEF StoreStatus, PrestoType

LEMMA UidsBounded ==
  ASSUME BuildInv, TypeOK
  PROVE  presto.uid <= uids /\ seen.uid <= uids /\ local.uid <= uids /\ 0 <= uids
<1>1. uids \in Nat
  BY DEF TypeOK
<1>2. 0 <= uids
  BY <1>1
<1> QED BY <1>2 DEF BuildInv, CopiesInv

\* The end of a reconcile.
LEMMA ThreadCleared ==
  ASSUME BuildInv, TypeOK, TypeOK', ClearThread, UNCHANGED seen,
         presto'.uid = presto.uid,
         presto.status.uuid # 0 => presto'.status.uuid # 0,
         UNCHANGED uids, up' = "up" /\ PrestoId \notin behind' => seen = presto'
  PROVE  CopiesInv' /\ StageInv'
<1>1. local' = NoPresto /\ pc' = "idle"
  BY DEF ClearThread
<1>2. NotNewer(local, presto)' /\ NotNewer(local, seen)'
  <2>1. NotNewer(NoPresto, presto') /\ NotNewer(NoPresto, seen')
    BY NotNewerNone DEF TypeOK
  <2> QED BY <1>1, <2>1 DEF NotNewer, Exists
<1>3. NotNewer(seen, presto)'
  BY DEF BuildInv, CopiesInv, NotNewer, Exists
<1>4. (presto.uid <= uids /\ seen.uid <= uids /\ local.uid <= uids)'
  <2>1. presto.uid <= uids /\ seen.uid <= uids /\ 0 <= uids
    BY UidsBounded
  <2> QED BY <1>1, <2>1, NoPrestoFields
<1>5. CopiesInv'
  BY <1>1, <1>2, <1>3, <1>4 DEF CopiesInv, Working
<1> QED BY <1>1, <1>5 DEF StageInv, Working

LEMMA AssignUuidKeepsInv ==
  ASSUME BuildInv, TypeOK, TypeOK', AssignUuid PROVE BuildInv'
<1>1. /\ pc = "uuid" /\ ClearThread
      /\ UNCHANGED <<objs, made, seen, listed, up, uids>>
  BY DEF AssignUuid, Return, caches, process
<1>2. local' = NoPresto /\ pc' = "idle"
  BY <1>1 DEF ClearThread
<1>3. MadeInv'
  BY <1>1 DEF BuildInv, MadeInv, BuildOrder, Key
<1>4. CASE UNCHANGED <<presto, behind, issued>>
  <2>1. CopiesInv' /\ StageInv'
    BY <1>1, <1>4, ThreadCleared DEF BuildInv, CopiesInv
  <2>2. \A c \in Claims' : c \in Claims \/ c = <<0, 0>>
    BY Zenon, <1>1, <1>2, <1>4 DEF Claims, NoPresto, EmptyStatus
  <2>3. UuidInv'
    <3>1. \A c \in Claims' : c \in Claims \/ c[2] = 0
      BY <2>2
    <3> QED BY <1>4, <3>1, ClaimsKept DEF BuildInv
  <2>4. FreshInv'
    BY <1>1, <1>2, <1>4 DEF BuildInv, FreshInv, NothingMade, Exists
  <2> QED BY <1>1, <1>3, <1>4, <2>1, <2>3, <2>4, QuietStore DEF BuildInv
<1>5. CASE /\ StatusAccepted /\ issued' = issued + 1
           /\ StoreStatus([seen.status EXCEPT !.uuid = NewUuid])
  <2> DEFINE s == [seen.status EXCEPT !.uuid = NewUuid]
  <2>1. /\ seen = presto /\ Exists(presto) /\ PrestoId \in behind'
        /\ presto'.uid = presto.uid /\ presto'.status = s
    BY <1>1, <1>5, StatusWritten
  <2>2. /\ s.uuid = issued + 1 /\ s.names = presto.status.names
        /\ s.state = presto.status.state
    <3>1. seen.status \in StatusType
      BY DEF TypeOK, PrestoType
    <3> QED BY <2>1, <3>1 DEF NewUuid, StatusType
  <2> HIDE DEF s
  <2>3. CopiesInv' /\ StageInv'
    <3>1. issued \in Nat
      BY DEF TypeOK
    <3>2. issued + 1 # 0
      BY <3>1
    <3>3. presto'.status.uuid # 0
      BY <2>1, <2>2, <3>2
    <3> QED BY <1>1, <2>1, <3>3, ThreadCleared
  <2>4. \A c \in Claims' :
          c \in Claims \/ c = <<0, 0>> \/ c = <<presto.uid, issued + 1>>
    BY Zenon, <1>1, <1>2, <2>1, <2>2 DEF Claims, NoPresto, EmptyStatus
  <2>5. UuidInv'
    <3>1. \A c \in Claims' :
            c \in Claims \/ c[2] = 0
              \/ (c[1] = presto.uid /\ c[2] = issued + 1)
      BY <2>4
    <3>2. issued \in Nat /\ \A c \in Claims : c[2] \in Nat
      BY ClaimsTyped DEF TypeOK
    <3> QED BY <1>5, <3>1, <3>2 DEF BuildInv, UuidInv
  <2>6. FreshInv'
    <3>1. presto'.status.uuid # 0
      BY <2>1, <2>2 DEF TypeOK
    <3> QED BY <1>1, <1>2, <3>1 DEF BuildInv, FreshInv, NothingMade, Exists
  <2>7. StatusNamesMade'
    BY <1>1, <2>1, <2>2 DEF BuildInv, StatusNamesMade
  <2>8. ReadyMeansBuilt'
    BY <1>1, <2>1, <2>2 DEF BuildInv, ReadyMeansBuilt
  <2> QED BY <1>3, <2>3, <2>5, <2>6, <2>7, <2>8 DEF BuildInv
<1> QED BY Zenon, <1>4, <1>5 DEF AssignUuid

\* Going on after the status update of the service stage.
LEMMA ThreadContinues ==
  ASSUME BuildInv, TypeOK, TypeOK', Working, pc' = "stage", at' = CoordConf,
         Before(CoordConf), UNCHANGED <<local, seen, made, uids, up>>,
         presto'.uid = presto.uid,
         presto.status.uuid # 0 => presto'.status.uuid # 0,
         up' = "up" /\ PrestoId \notin behind' => seen = presto'
  PROVE  CopiesInv' /\ StageInv'
<1>1. Before(at)'
  BY DEF Before, Here, uuid
<1>2. StageInv'
  BY <1>1 DEF StageInv
<1>3. NotNewer(local, presto)' /\ NotNewer(local, seen)' /\ NotNewer(seen, presto)'
  BY DEF BuildInv, CopiesInv, NotNewer, Exists
<1>4. CopiesInv'
  BY Zenon, <1>3 DEF BuildInv, CopiesInv, Working, uuid, Exists
<1> QED BY <1>2, <1>4

LEMMA UpdateStatusKeepsInv ==
  ASSUME BuildInv, TypeOK, TypeOK', UpdateStatus PROVE BuildInv'
<1>1. /\ pc = "status" /\ Working /\ Truthful(upd)
      /\ UNCHANGED <<objs, issued, made, seen, listed, up, uids>>
  BY DEF UpdateStatus, caches, process, Working, BuildInv, StageInv
<1>2. MadeInv'
  BY <1>1 DEF BuildInv, MadeInv, BuildOrder, Key
<1>3. \/ ClearThread
      \/ /\ pc' = "stage" /\ at' = CoordConf /\ Before(CoordConf)
         /\ UNCHANGED local
  BY <1>1 DEF UpdateStatus, Return, Truthful
<1>4. pc' \in {"idle", "stage"} /\ (local' = local \/ local' = NoPresto)
  BY <1>3 DEF ClearThread
<1>5. /\ presto'.uid = presto.uid
      /\ presto'.status.uuid = presto.status.uuid
      /\ up' = "up" /\ PrestoId \notin behind' => seen = presto'
      /\ StatusNamesMade' /\ ReadyMeansBuilt'
  <2>1. CASE UNCHANGED <<presto, behind>>
    BY <1>1, <2>1, QuietStore DEF BuildInv, CopiesInv
  <2>2. CASE StatusAccepted /\ StoreStatus(Applied(seen.status, upd))
    <3> DEFINE s == Applied(seen.status, upd)
    <3>1. /\ seen = presto /\ PrestoId \in behind'
          /\ presto'.uid = presto.uid /\ presto'.status = s
      BY <1>1, <2>2, StatusWritten
    <3>2. seen.status \in StatusType /\ upd \in UpdateType
      BY DEF TypeOK, PrestoType
    <3>3. /\ s.uuid = presto.status.uuid /\ s.state = upd.state
          /\ s.names = [k \in Kinds |-> IF k = upd.name THEN upd.value
                                          ELSE presto.status.names[k]]
      BY <3>1, <3>2 DEF Applied, StatusType
    <3> HIDE DEF s
    <3>4. StatusNamesMade'
      <4>1. SUFFICES ASSUME NEW k \in Kinds, s.names[k] # 0
                     PROVE  \E m \in made : m[1] = k /\ m[3] = s.names[k]
        BY <1>1, <3>1 DEF StatusNamesMade
      <4>2. CASE k = upd.name
        <5>1. s.names[k] = upd.value /\ k # 0
          BY <3>3, <4>2 DEF Kinds
        <5> QED BY <1>1, <4>1, <4>2, <5>1 DEF Truthful
      <4>3. CASE k # upd.name
        <5>1. s.names[k] = presto.status.names[k]
          BY <3>3, <4>3
        <5> QED BY <4>1, <5>1 DEF BuildInv, StatusNamesMade
      <4> QED BY <4>2, <4>3
    <3>5. ReadyMeansBuilt'
      <4>1. SUFFICES ASSUME upd.state = "Ready"
                     PROVE  \E m \in made :
                              \A k \in Mandatory : <<k, m[2], m[3]>> \in made
        BY <1>1, <3>1, <3>3 DEF ReadyMeansBuilt
      <4> DEFINE w == <<1, local.uid, uuid>>
      <4>2. w[2] = local.uid /\ w[3] = uuid
        OBVIOUS
      <4>3. \A k \in Mandatory : Here(k)
        BY <1>1, <4>1 DEF Truthful, Before, HPA, Mandatory
      <4>4. w \in made
        BY <4>3 DEF Here, Mandatory
      <4> HIDE DEF w
      <4> QED BY <4>2, <4>3, <4>4 DEF Here
    <3> QED BY <3>1, <3>3, <3>4, <3>5
  <2> QED BY <2>1, <2>2 DEF UpdateStatus
<1>6. CopiesInv' /\ StageInv'
  <2>1. CASE ClearThread
    BY <1>1, <1>5, <2>1, ThreadCleared
  <2>2. CASE /\ pc' = "stage" /\ at' = CoordConf /\ Before(CoordConf)
             /\ UNCHANGED local
    BY <1>1, <1>5, <2>2, ThreadContinues
  <2> QED BY <1>3, <2>1, <2>2
<1>7. UuidInv'
  <2>1. \A c \in Claims' : c \in Claims \/ c = <<0, 0>>
    <3>1. /\ presto'.uid = presto.uid /\ presto'.status.uuid = presto.status.uuid
          /\ UNCHANGED <<seen, made>>
      BY <1>1, <1>5
    <3>2. CASE local' = local
      BY <3>1, <3>2 DEF Claims
    <3>3. CASE local' = NoPresto
      BY Zenon, <3>1, <3>3 DEF Claims, NoPresto, EmptyStatus
    <3> QED BY <1>4, <3>2, <3>3
  <2>2. \A c \in Claims' : c \in Claims \/ c[2] = 0
    BY <2>1
  <2> QED BY <1>1, <2>2, ClaimsKept DEF BuildInv
<1>8. FreshInv'
  BY <1>1, <1>4, <1>5 DEF BuildInv, FreshInv, NothingMade, Exists
<1> QED BY <1>2, <1>5, <1>6, <1>7, <1>8 DEF BuildInv

-----------------------------------------------------------------------------
(***************************************************************************)
(* Steps that leave the created objects alone, and change at most one copy *)
(* of the Presto.                                                          *)
(***************************************************************************)

\* A step that touches none of the state the invariant speaks of.
LEMMA QuietKeepsInv ==
  ASSUME BuildInv,
         UNCHANGED <<presto, objs, seen, listed, behind, up, pc, at, local, upd,
                     uids, issued, made>>
  PROVE  BuildInv'
<1>1. CopiesInv'
  BY DEF BuildInv, CopiesInv, NotNewer, Exists, Working, uuid
<1>2. UuidInv' /\ FreshInv'
  <2>1. Claims' = Claims
    BY DEF Claims
  <2>2. UuidInv'
    BY <2>1 DEF BuildInv, UuidInv
  <2> QED BY Zenon, <2>2 DEF BuildInv, FreshInv, NothingMade, Exists
<1>3. MadeInv' /\ StatusNamesMade' /\ ReadyMeansBuilt'
  BY DEF BuildInv, MadeInv, BuildOrder, Key, StatusNamesMade, ReadyMeansBuilt
<1>4. StageInv'
  BY DEF BuildInv, StageInv, Working, Before, Here, uuid, Truthful
<1> QED BY <1>1, <1>2, <1>3, <1>4 DEF BuildInv

\* The stage of a reconcile is unaffected by what happens around it.
LEMMA StageInvKept ==
  ASSUME BuildInv, UNCHANGED <<pc, at, local, upd, made>> PROVE StageInv'
  BY DEF BuildInv, StageInv, Working, Before, Here, uuid, Truthful

LEMMA StopKeepsInv ==
  ASSUME BuildInv, TypeOK, TypeOK', NEW how \in {"down", "panicked"}, Stop(how),
         UNCHANGED <<store, uids>>
  PROVE  BuildInv'
<1>1. /\ seen' = NoPresto /\ local' = NoPresto /\ pc' = "idle" /\ listed' = {}
      /\ up' # "up" /\ UNCHANGED <<presto, objs, issued, made, uids>>
  BY DEF Stop, ClearThread, store
<1>2. CopiesInv'
  <2>1. NotNewer(NoPresto, presto) /\ NotNewer(NoPresto, NoPresto)
    BY NotNewerNone, EmptyTypes DEF TypeOK
  <2>2. /\ NotNewer(seen, presto)' /\ NotNewer(local, presto)'
        /\ NotNewer(local, seen)'
    BY <1>1, <2>1 DEF NotNewer, Exists
  <2>3. presto.uid <= uids /\ 0 <= uids
    BY UidsBounded
  <2>4. (presto.uid <= uids /\ seen.uid <= uids /\ local.uid <= uids)'
    BY <1>1, <2>3, NoPrestoFields
  <2> QED BY <1>1, <2>2, <2>4 DEF CopiesInv, Working
<1>3. UuidInv'
  <2>1. \A c \in Claims' : c \in Claims \/ c = <<0, 0>>
    BY Zenon, <1>1 DEF Claims, NoPresto, EmptyStatus
  <2>2. \A c \in Claims' : c \in Claims \/ c[2] = 0
    BY <2>1
  <2> QED BY <1>1, <2>2, ClaimsKept DEF BuildInv
<1>4. FreshInv'
  BY Zenon, <1>1 DEF BuildInv, FreshInv, NothingMade, Exists, NoPresto
<1>5. MadeInv' /\ StageInv'
  BY <1>1 DEF BuildInv, MadeInv, BuildOrder, Key, StageInv, Working
<1> QED BY <1>1, <1>2, <1>3, <1>4, <1>5, QuietStore DEF BuildInv

\* The cache takes over the stored Presto.
LEMMA SeenKeepsInv ==
  ASSUME BuildInv, TypeOK, TypeOK', seen' = presto, up' = "up",
         listed' \subseteq listed \cup objs,
         UNCHANGED <<store, uids, pc, at, local, upd>>
  PROVE  BuildInv'
<1>1. UNCHANGED <<presto, objs, issued, made>>
  BY DEF store
<1>2. CopiesInv'
  <2>1. NotNewer(seen, presto)' /\ NotNewer(local, presto)' /\ NotNewer(local, seen)'
    BY <1>1 DEF BuildInv, CopiesInv, NotNewer, Exists
  <2>2. seen' = presto'
    BY <1>1
  <2> QED BY Zenon, <1>1, <2>1, <2>2 DEF BuildInv, CopiesInv, Working, uuid, Exists
<1>3. UuidInv'
  <2>1. \A c \in Claims' : c \in Claims
    BY <1>1 DEF Claims
  <2> QED BY <1>1, <2>1, ClaimsKept DEF BuildInv
<1>4. FreshInv'
  BY <1>1 DEF BuildInv, FreshInv, NothingMade, Exists
<1>5. MadeInv'
  BY <1>1 DEF BuildInv, MadeInv, BuildOrder, Key
<1> QED BY <1>1, <1>2, <1>3, <1>4, <1>5, StageInvKept, QuietStore DEF BuildInv

\* Steps on the owned objects, by others or by the informers.
LEMMA ObjectsKeepInv ==
  ASSUME BuildInv,
         UNCHANGED <<presto, seen, up, pc, at, local, upd, uids, issued, made>>,
         PrestoId \in behind => PrestoId \in behind',
         \A o \in objs' \cup listed' : Key(o) \in made
  PROVE  BuildInv'
<1>1. CopiesInv'
  BY DEF BuildInv, CopiesInv, NotNewer, Exists, Working, uuid
<1>2. UuidInv' /\ FreshInv'
  <2>1. Claims' = Claims
    BY DEF Claims
  <2>2. UuidInv'
    BY <2>1 DEF BuildInv, UuidInv
  <2> QED BY Zenon, <2>2 DEF BuildInv, FreshInv, NothingMade, Exists
<1>3. StatusNamesMade' /\ ReadyMeansBuilt'
  BY DEF BuildInv, StatusNamesMade, ReadyMeansBuilt
<1>4. MadeInv'
  BY DEF BuildInv, MadeInv, BuildOrder, Key
<1> QED BY <1>1, <1>2, <1>3, <1>4, StageInvKept DEF BuildInv

LEMMA DeliverOwnedKeepsInv ==
  ASSUME BuildInv, NEW K \in Informers, DeliverOwned(K) PROVE BuildInv'
<1>1. UNCHANGED <<presto, objs, issued, made, seen, up, pc, at, local, upd, uids>>
  BY DEF DeliverOwned, store, process, thread
<1>2. PrestoId \in behind => PrestoId \in behind'
  <2>1. PrestoId[1] \notin K
    BY DEF PrestoId, Informers, Headless, ExternalSvc, CoordConf, WorkerConf,
           CatalogConf, CoordRS, WorkerRS, HPA
  <2> QED BY <2>1 DEF DeliverOwned
<1>3. \A o \in objs' \cup listed' : Key(o) \in made
  BY <1>1 DEF DeliverOwned, BuildInv, MadeInv
<1> QED BY <1>1, <1>2, <1>3, ObjectsKeepInv

LEMMA RemoveKeepsInv ==
  ASSUME BuildInv, NEW O, Remove(O) PROVE BuildInv'
<1>1. /\ UNCHANGED <<presto, issued, made, seen, listed, up, pc, at, local, upd,
                     uids>>
      /\ objs' \subseteq objs /\ behind \subseteq behind'
  BY DEF Remove, OutsideFrame, caches, process, thread
<1>2. \A o \in objs' \cup listed' : Key(o) \in made
  BY <1>1 DEF BuildInv, MadeInv
<1> QED BY <1>1, <1>2, ObjectsKeepInv

LEMMA WriteReplicaSetKeepsInv ==
  ASSUME BuildInv, TypeOK, NEW o \in objs, NEW r, WriteReplicaSet(o, r)
  PROVE  BuildInv'
<1> DEFINE new == [o EXCEPT !.replicas = r]
<1>1. /\ UNCHANGED <<presto, issued, made, seen, listed, up, pc, at, local, upd,
                     uids>>
      /\ objs' = (objs \ {o}) \cup {new} /\ behind \subseteq behind'
  BY DEF WriteReplicaSet, OutsideFrame, caches, process, thread
<1>2. o \in ObjectType
  BY DEF TypeOK
<1>3. Key(new) = Key(o)
  BY <1>2 DEF Key, ObjectType
<1> HIDE DEF new
<1>4. \A x \in objs' \cup listed' : Key(x) \in made
  BY <1>1, <1>3 DEF BuildInv, MadeInv
<1> QED BY <1>1, <1>4, ObjectsKeepInv

\* A user changes the Presto, but neither its uid nor its status.
LEMMA EditKeepsInv ==
  ASSUME BuildInv, presto'.uid = presto.uid, presto'.status = presto.status,
         PrestoId \in behind', UNCHANGED <<objs, uids>>, OutsideFrame
  PROVE  BuildInv'
<1>1. UNCHANGED <<issued, made, seen, listed, up, pc, at, local, upd>>
  BY DEF OutsideFrame, caches, process, thread
<1>2. CopiesInv'
  BY <1>1 DEF BuildInv, CopiesInv, NotNewer, Exists, Working, uuid
<1>3. UuidInv'
  <2>1. Claims' = Claims
    BY Zenon, <1>1 DEF Claims
  <2> QED BY <1>1, <2>1 DEF BuildInv, UuidInv
<1>4. FreshInv'
  BY <1>1 DEF BuildInv, FreshInv, NothingMade, Exists
<1>5. MadeInv'
  BY <1>1 DEF BuildInv, MadeInv, BuildOrder, Key
<1>6. StatusNamesMade' /\ ReadyMeansBuilt'
  BY <1>1 DEF BuildInv, StatusNamesMade, ReadyMeansBuilt
<1> QED BY <1>1, <1>2, <1>3, <1>4, <1>5, <1>6, StageInvKept DEF BuildInv

\* A Presto with an empty status appears, with a uid larger than any before it.
LEMMA CreatePrestoKeepsInv ==
  ASSUME BuildInv, TypeOK, NEW spec, NEW labels, CreatePresto(spec, labels)
  PROVE  BuildInv'
<1>1. UNCHANGED <<objs, issued, made, seen, listed, up, pc, at, local, upd>>
  BY DEF CreatePresto, OutsideFrame, caches, process, thread
<1>2. /\ presto'.uid = uids + 1 /\ presto'.status = EmptyStatus
      /\ uids' = uids + 1 /\ PrestoId \in behind' /\ uids \in Nat
      /\ seen.uid \in Nat /\ local.uid \in Nat
  BY DEF CreatePresto, TypeOK, PrestoType
<1>3. seen.uid <= uids /\ local.uid <= uids /\ NotNewer(local, seen)
  BY DEF BuildInv, CopiesInv
<1>4. CopiesInv'
  <2>1. NotNewer(seen, presto)' /\ NotNewer(local, presto)'
    <3>1. seen.uid < presto'.uid /\ local.uid < presto'.uid
      BY <1>2, <1>3
    <3> QED BY <1>1, <3>1 DEF NotNewer
  <2>2. NotNewer(local, seen)'
    BY <1>1, <1>3 DEF NotNewer, Exists
  <2>3. (presto.uid <= uids /\ seen.uid <= uids /\ local.uid <= uids)'
    BY <1>1, <1>2, <1>3
  <2> QED BY Zenon, <1>1, <1>2, <2>1, <2>2, <2>3
          DEF BuildInv, CopiesInv, Working, uuid, Exists
<1>5. UuidInv'
  <2>1. \A c \in Claims' : c \in Claims \/ c = <<uids + 1, 0>>
    <3>1. presto'.status.uuid = 0
      BY Zenon, <1>2, EmptyStatusFields
    <3>2. presto'.uid = uids + 1 /\ UNCHANGED <<seen, local, made>>
      BY <1>1, <1>2
    <3> QED BY <3>1, <3>2 DEF Claims
  <2>2. \A c \in Claims' : c \in Claims \/ c[2] = 0
    BY <2>1
  <2> QED BY <1>1, <2>2, ClaimsKept DEF BuildInv
<1>6. FreshInv'
  <2>1. \A m \in made : m[2] < uids + 1
    <3>1. \A m \in made : m[2] \in Nat /\ m[2] <= uids
      BY DEF TypeOK, BuildInv, MadeInv
    <3> QED BY <1>2, <3>1
  <2> QED BY <1>1, <1>2, <2>1 DEF BuildInv, FreshInv, NothingMade, Exists
<1>7. MadeInv'
  <2>1. \A m \in made : m[2] \in Nat /\ m[2] <= uids /\ m[3] # 0
    BY DEF TypeOK, BuildInv, MadeInv
  <2>2. \A m \in made' : m[3] # 0 /\ m[2] <= uids'
    BY <1>1, <1>2, <2>1
  <2> QED BY <1>1, <2>2 DEF BuildInv, MadeInv, BuildOrder, Key
<1>8. StatusNamesMade' /\ ReadyMeansBuilt'
  <2>1. presto'.status.state = "" /\ \A k \in Kinds : presto'.status.names[k] = 0
    BY Zenon, <1>2, EmptyStatusFields
  <2> QED BY Zenon, <2>1 DEF StatusNamesMade, ReadyMeansBuilt
<1> QED BY <1>1, <1>4, <1>5, <1>6, <1>7, <1>8, StageInvKept DEF BuildInv

LEMMA DeletePrestoKeepsInv ==
  ASSUME BuildInv, TypeOK, DeletePresto PROVE BuildInv'
<1>1. /\ UNCHANGED <<objs, issued, made, seen, listed, up, pc, at, local, upd, uids>>
      /\ presto' = NoPresto /\ PrestoId \in behind'
  BY DEF DeletePresto, OutsideFrame, caches, process, thread
<1>2. NoPresto.uid = 0 /\ NoPresto.status = EmptyStatus
  BY NoPrestoFields
<1>3. CopiesInv'
  <2>1. NotNewer(seen, presto)' /\ NotNewer(local, presto)'
    BY <1>1, <1>2 DEF NotNewer, Exists
  <2>2. NotNewer(local, seen)'
    BY <1>1 DEF BuildInv, CopiesInv, NotNewer, Exists
  <2>3. (presto.uid <= uids /\ seen.uid <= uids /\ local.uid <= uids)'
    BY <1>1, <1>2, UidsBounded
  <2> QED BY <1>1, <2>1, <2>2, <2>3 DEF BuildInv, CopiesInv, Working, uuid, Exists
<1>4. UuidInv'
  <2>1. presto'.uid = 0 /\ presto'.status.uuid = 0
    BY Zenon, <1>1, <1>2, EmptyStatusFields
  <2>2. \A c \in Claims' : c \in Claims \/ c = <<0, 0>>
    BY Zenon, <1>1, <2>1 DEF Claims
  <2>3. \A c \in Claims' : c \in Claims \/ c[2] = 0
    BY <2>2
  <2> QED BY <1>1, <2>3, ClaimsKept DEF BuildInv
<1>5. FreshInv'
  BY Zenon, <1>1, <1>2 DEF BuildInv, FreshInv, NothingMade, Exists
<1>6. MadeInv'
  BY <1>1 DEF BuildInv, MadeInv, BuildOrder, Key
<1>7. StatusNamesMade' /\ ReadyMeansBuilt'
  <2>1. presto'.status.state = "" /\ \A k \in Kinds : presto'.status.names[k] = 0
    BY Zenon, <1>1, <1>2, EmptyStatusFields
  <2> QED BY Zenon, <2>1 DEF StatusNamesMade, ReadyMeansBuilt
<1> QED BY <1>1, <1>3, <1>4, <1>5, <1>6, <1>7, StageInvKept DEF BuildInv

LEMMA OutsideKeepsInv ==
  ASSUME BuildInv, TypeOK, Outside PROVE BuildInv'
<1>1. CASE \E spec \in Specs, labels \in SUBSET Labels : CreatePresto(spec, labels)
  BY <1>1, CreatePrestoKeepsInv
<1>2. CASE (\E spec \in Specs : EditSpec(spec))
             \/ (\E labels \in SUBSET Labels : Relabel(labels))
  <2>1. presto \in PrestoType
    BY DEF TypeOK
  <2>2. /\ presto'.uid = presto.uid /\ presto'.status = presto.status
        /\ PrestoId \in behind' /\ UNCHANGED <<objs, uids>> /\ OutsideFrame
    BY Zenon, <1>2, <2>1 DEF EditSpec, Relabel, PrestoType
  <2> QED BY <2>2, EditKeepsInv
<1>3. CASE DeletePresto
  BY <1>3, DeletePrestoKeepsInv
<1>4. CASE (\E o \in objs : DeleteOwned(o)) \/ CollectGarbage
  BY Zenon, <1>4, RemoveKeepsInv DEF DeleteOwned, CollectGarbage
<1>5. CASE \E h, o \in objs : HpaScales(h, o)
  BY <1>5, WriteReplicaSetKeepsInv DEF HpaScales
<1>6. CASE \E o \in objs : ReplicaSetReports(o)
  BY <1>6, WriteReplicaSetKeepsInv DEF ReplicaSetReports
<1> QED BY <1>1, <1>2, <1>3, <1>4, <1>5, <1>6 DEF Outside

-----------------------------------------------------------------------------
LEMMA InitBuildInv == ASSUME Init PROVE BuildInv
<1>1. /\ presto = NoPresto /\ seen = NoPresto /\ local = NoPresto /\ made = {}
      /\ objs = {} /\ listed = {} /\ pc = "idle" /\ uids = 0 /\ issued = 0
  BY DEF Init
<1>2. NoPresto.uid = 0 /\ NoPresto.status = EmptyStatus
  BY NoPrestoFields
<1>3. CopiesInv
  <2>1. NotNewer(NoPresto, NoPresto)
    BY <1>2 DEF NotNewer, Exists
  <2> QED BY <1>1, <1>2, <2>1 DEF CopiesInv, Working
<1>4. UuidInv
  <2>1. \A c \in Claims : c = <<0, 0>>
    BY Zenon, <1>1, <1>2, EmptyStatusFields DEF Claims
  <2>2. \A c \in Claims : c[2] = 0
    BY <2>1
  <2> QED BY <1>1, <2>2 DEF UuidInv
<1>5. FreshInv /\ MadeInv /\ StageInv
  BY <1>1 DEF FreshInv, NothingMade, MadeInv, BuildOrder, StageInv, Working
<1>6. StatusNamesMade /\ ReadyMeansBuilt
  BY Zenon, <1>1, <1>2, EmptyStatusFields DEF StatusNamesMade, ReadyMeansBuilt
<1> QED BY <1>3, <1>4, <1>5, <1>6 DEF BuildInv

\* One step per actor: the stages, the other calls of the reconciler, the
\* process with its caches and its queue, and the others.
LEMMA NextBuildInv ==
  ASSUME BuildInv, TypeOK, TypeOK', [Next]_vars PROVE BuildInv'
<1>1. CASE Stages
  BY <1>1, StagesEffect, StageKeepsInv
<1>2. CASE Reconcile \/ AssignUuid \/ UpdateStatus
  BY <1>2, ReconcileKeepsInv, AssignUuidKeepsInv, UpdateStatusKeepsInv
<1>3. CASE ReconcileNotFound \/ ReconcileGetFails \/ Tick \/ UNCHANGED vars
  <2>1. UNCHANGED <<presto, objs, seen, listed, behind, up, pc, at, local, upd,
                    uids, issued, made>>
    BY <1>3 DEF ReconcileNotFound, ReconcileGetFails, Tick, vars, store, caches,
                process, thread
  <2> QED BY <2>1, QuietKeepsInv
<1>4. CASE HpaPanics \/ Crash
  BY <1>4, StopKeepsInv DEF HpaPanics, Crash, store
<1>5. CASE DeliverPresto
  <2>1. UNCHANGED <<store, uids, pc, at, local, upd, listed>> /\ up' = "up"
    BY <1>5 DEF DeliverPresto, thread, process
  <2> QED BY Zenon, <1>5, <2>1, SeenKeepsInv DEF DeliverPresto
<1>6. CASE \E K \in Informers : DeliverOwned(K)
  BY <1>6, DeliverOwnedKeepsInv
<1>7. CASE Restart
  <2>1. UNCHANGED <<store, uids, pc, at, local, upd>>
    BY <1>7 DEF Restart, thread
  <2> QED BY <1>7, <2>1, SeenKeepsInv DEF Restart
<1>8. CASE Outside
  BY <1>8, OutsideKeepsInv
<1> QED BY <1>1, <1>2, <1>3, <1>4, <1>5, <1>6, <1>7, <1>8
        DEF Next, Reconciler, Stages

\* The inductive invariant holds throughout.
LEMMA BuildInvariant == Spec => []BuildInv
<1>1. Init => BuildInv
  BY InitBuildInv
<1>2. BuildInv /\ TypeOK /\ TypeOK' /\ [Next]_vars => BuildInv'
  BY NextBuildInv
<1> QED BY <1>1, <1>2, TypeCorrect, PTL DEF Spec

-----------------------------------------------------------------------------
\* Whatever the caches show, and however reconciles, deletions, crashes and lost
\* answers interleave, the stages of Reconcile create the objects of a cluster in
\* their order.
THEOREM CreationInOrder == Spec => []BuildOrder
<1>1. BuildInv => BuildOrder
  BY DEF BuildInv, MadeInv
<1> QED BY <1>1, BuildInvariant, PTL

\* updateStatus never records the name of an object that was not created.
THEOREM StatusIsTruthful == Spec => []StatusNamesMade
<1>1. BuildInv => StatusNamesMade
  BY DEF BuildInv
<1> QED BY <1>1, BuildInvariant, PTL

\* Reconcile reports Ready only after a complete cluster was created.
THEOREM ReadyIsTruthful == Spec => []ReadyMeansBuilt
<1>1. BuildInv => ReadyMeansBuilt
  BY DEF BuildInv
<1> QED BY <1>1, BuildInvariant, PTL

\* Objects that share a uuid have the same owner reference, however often the
\* Presto is deleted and created again: the uuid that Reconcile lists by never
\* leads it to the objects of another Presto.
THEOREM OneOwnerPerUuid == Spec => []UuidHasOneOwner
<1>1. BuildInv => UuidHasOneOwner
  <2> SUFFICES ASSUME BuildInv, NEW m1 \in made, NEW m2 \in made, m1[3] = m2[3]
               PROVE  m1[2] = m2[2]
    BY DEF UuidHasOneOwner
  <2> DEFINE c == <<m1[2], m1[3]>>
             d == <<m2[2], m2[3]>>
  <2>1. c \in Claims /\ d \in Claims
    BY DEF Claims
  <2>2. c[1] = m1[2] /\ c[2] = m1[3] /\ d[1] = m2[2] /\ d[2] = m2[3]
    OBVIOUS
  <2>3. m1[3] # 0
    BY DEF BuildInv, MadeInv
  <2> HIDE DEF c, d
  <2> QED BY <2>1, <2>2, <2>3 DEF BuildInv, UuidInv
<1> QED BY <1>1, BuildInvariant, PTL

\* A uuid is assigned only before anything is created for the Presto.
LEMMA NothingMadeForPresto ==
  ASSUME BuildInv, TypeOK, pc = "uuid", StatusAccepted
  PROVE  \A m \in made : m[2] # presto.uid
<1>1. seen = presto /\ Exists(presto) /\ NothingMade(local)
  BY Zenon DEF BuildInv, CopiesInv, FreshInv, StatusAccepted
<1>2. NotNewer(local, presto) /\ local.uid \in Nat /\ presto.uid \in Nat
  BY DEF BuildInv, CopiesInv, TypeOK, PrestoType
<1>3. local.uid < presto.uid \/ local.uid = presto.uid
  BY <1>1, <1>2 DEF NotNewer
<1>4. \A m \in made : m[2] < local.uid /\ m[2] \in Nat
  BY <1>1 DEF NothingMade, TypeOK
<1>5. \A a, b, c \in Nat : a < b /\ (b < c \/ b = c) => a # c
  OBVIOUS
<1> QED BY <1>2, <1>3, <1>4, <1>5

\* A step that changes the uuid of a Presto is the assignment in Reconcile, and
\* the optimistic concurrency control lets it through only before the first
\* object of this Presto is created.
LEMMA UuidChange ==
  ASSUME BuildInv, TypeOK, TypeOK', [Next]_vars, presto'.uid = presto.uid,
         presto'.status.uuid # presto.status.uuid, NEW m \in made
  PROVE  m[2] # presto.uid
<1>1. presto # presto'
  OBVIOUS
<1>2. presto \in PrestoType
  BY DEF TypeOK
<1>3. ~Stages
  BY <1>1, StagesEffect DEF StageEffect, StageFrame
<1>4. ~UpdateStatus
  <2> SUFFICES ASSUME UpdateStatus PROVE FALSE
    OBVIOUS
  <2>1. StatusAccepted /\ StoreStatus(Applied(seen.status, upd)) /\ pc # "idle"
    BY <1>1 DEF UpdateStatus
  <2>2. seen = presto /\ presto'.status = Applied(seen.status, upd)
    BY <2>1, StatusWritten
  <2>3. seen.status \in StatusType
    BY DEF TypeOK, PrestoType
  <2>4. Applied(seen.status, upd).uuid = seen.status.uuid
    BY <2>3 DEF Applied, StatusType
  <2> QED BY <2>2, <2>4
<1>5. ~Outside
  <2>1. ~\E spec \in Specs, labels \in SUBSET Labels : CreatePresto(spec, labels)
    <3> SUFFICES ASSUME NEW spec, NEW labels, CreatePresto(spec, labels)
                 PROVE  FALSE
      OBVIOUS
    <3>1. presto.uid = 0 /\ presto'.uid = uids + 1 /\ uids \in Nat
      BY DEF CreatePresto, Exists, TypeOK
    <3> QED BY <3>1
  <2>2. ~\E spec \in Specs : EditSpec(spec)
    <3> SUFFICES ASSUME NEW spec, EditSpec(spec) PROVE FALSE
      OBVIOUS
    <3>1. presto'.status = presto.status
      BY <1>2 DEF EditSpec, PrestoType
    <3> QED BY <3>1
  <2>3. ~\E labels \in SUBSET Labels : Relabel(labels)
    <3> SUFFICES ASSUME NEW labels, Relabel(labels) PROVE FALSE
      OBVIOUS
    <3>1. presto'.status = presto.status
      BY <1>2 DEF Relabel, PrestoType
    <3> QED BY <3>1
  <2>4. ~DeletePresto
    BY NoPrestoFields DEF DeletePresto, Exists
  <2> QED BY <1>1, <2>1, <2>2, <2>3, <2>4
          DEF Outside, DeleteOwned, CollectGarbage, Remove, HpaScales,
              ReplicaSetReports, WriteReplicaSet
<1>6. AssignUuid
  BY Zenon, <1>1, <1>3, <1>4, <1>5
     DEF Next, Reconciler, Stages, vars, store, Reconcile, ReconcileNotFound,
         ReconcileGetFails, HpaPanics, DeliverPresto, DeliverOwned, Tick, Crash,
         Restart
<1>7. pc = "uuid" /\ StatusAccepted
  BY Zenon, <1>1, <1>6 DEF AssignUuid
<1> QED BY <1>7, NothingMadeForPresto

\* The uuid of a Presto is fixed once an object carries it, although Reconcile
\* assigns it from a cached copy that may lag behind an earlier assignment.
THEOREM UuidIsStable == Spec => UuidStableOnceBuilt
<1>1. TypeOK /\ BuildInv /\ TypeOK' /\ [Next]_vars =>
        [ (/\ presto'.uid = presto.uid
           /\ presto'.status.uuid # presto.status.uuid)
          => \A m \in made : m[2] # presto.uid ]_vars
  BY UuidChange
<1> QED BY <1>1, BuildInvariant, TypeCorrect, PTL DEF Spec, UuidStableOnceBuilt

-----------------------------------------------------------------------------
(***************************************************************************)
(* Which uuids a Presto's objects carry.  What a step does to the three    *)
(* copies and to the created objects is one of four things.                *)
(***************************************************************************)

\* A copy is taken over from another, or dropped.
CopyStep ==
  /\ presto'.uid = presto.uid /\ presto'.status.uuid = presto.status.uuid
  /\ UNCHANGED made
  /\ seen' = seen \/ seen' = presto \/ seen' = NoPresto
  /\ \/ UNCHANGED <<local, pc>>
     \/ local' = local /\ Working /\ Working'
     \/ local' = NoPresto /\ pc' = "idle"
     \/ local' = seen /\ Exists(seen) /\ UNCHANGED seen

\* A stage creates an object from the local copy.
BuildStep ==
  /\ Working /\ UNCHANGED <<presto, seen>>
  /\ \/ UNCHANGED made
     \/ \E k \in Kinds : made' = made \cup {<<k, local.uid, uuid>>}
  /\ \/ local' = local /\ Working'
     \/ local' = NoPresto /\ pc' = "idle"

\* A uuid is assigned: the cache is current, and nothing has been created yet.
AssignStep ==
  /\ seen = presto /\ UNCHANGED <<seen, made>>
  /\ presto'.uid = presto.uid /\ presto'.status.uuid = issued + 1
  /\ local' = NoPresto /\ pc' = "idle"
  /\ \A m \in made : m[2] # presto.uid

\* A user creates or deletes the Presto.
UserStep == presto'.status.uuid = 0 /\ UNCHANGED <<seen, local, pc, made>>

LEMMA StageBuildStep ==
  ASSUME BuildInv, TypeOK, Stages PROVE BuildStep
<1>1. StageEffect /\ Working
  BY StagesEffect DEF StageStart, Working
<1>2. UNCHANGED <<presto, seen>>
  BY <1>1 DEF StageEffect, StageFrame, caches
<1>3. \/ UNCHANGED made
      \/ \E k \in Kinds : made' = made \cup {<<k, local.uid, uuid>>}
  BY <1>1 DEF StageEffect, StoreEffect
<1>4. \/ local' = local /\ Working'
      \/ local' = NoPresto /\ pc' = "idle"
  BY <1>1 DEF StageEffect, ThreadEffect, ClearThread, Working
<1> QED BY <1>1, <1>2, <1>3, <1>4 DEF BuildStep

LEMMA AssignUuidStep ==
  ASSUME BuildInv, TypeOK, AssignUuid PROVE CopyStep \/ AssignStep
<1>1. /\ pc = "uuid" /\ UNCHANGED <<made, seen>>
      /\ local' = NoPresto /\ pc' = "idle"
  BY DEF AssignUuid, Return, ClearThread, caches
<1>2. CASE UNCHANGED presto
  BY <1>1, <1>2 DEF CopyStep
<1>3. CASE StatusAccepted /\ StoreStatus([seen.status EXCEPT !.uuid = NewUuid])
  <2>1. /\ seen = presto /\ presto'.uid = presto.uid
        /\ presto'.status = [seen.status EXCEPT !.uuid = NewUuid]
    BY <1>1, <1>3, StatusWritten
  <2>2. seen.status \in StatusType
    BY DEF TypeOK, PrestoType
  <2>3. presto'.status.uuid = issued + 1
    BY <2>1, <2>2 DEF NewUuid, StatusType
  <2> QED BY <1>1, <1>3, <2>1, <2>3, NothingMadeForPresto DEF AssignStep
<1> QED BY Zenon, <1>2, <1>3 DEF AssignUuid

LEMMA UpdateStatusStep ==
  ASSUME BuildInv, TypeOK, UpdateStatus PROVE CopyStep
<1>1. pc = "status" /\ UNCHANGED <<made, seen>>
  BY DEF UpdateStatus, caches
<1>2. presto'.uid = presto.uid /\ presto'.status.uuid = presto.status.uuid
  <2>1. CASE UNCHANGED presto
    BY <2>1
  <2>2. CASE StatusAccepted /\ StoreStatus(Applied(seen.status, upd))
    <3>1. /\ seen = presto /\ presto'.uid = presto.uid
          /\ presto'.status = Applied(seen.status, upd)
      BY <1>1, <2>2, StatusWritten
    <3>2. seen.status \in StatusType
      BY DEF TypeOK, PrestoType
    <3>3. Applied(seen.status, upd).uuid = seen.status.uuid
      BY <3>2 DEF Applied, StatusType
    <3> QED BY <3>1, <3>3
  <2> QED BY Zenon, <2>1, <2>2 DEF UpdateStatus
<1>3. \/ local' = NoPresto /\ pc' = "idle"
      \/ local' = local /\ pc' = "stage"
  BY DEF UpdateStatus, Return, ClearThread
<1> QED BY <1>1, <1>2, <1>3 DEF CopyStep, Working

LEMMA OutsideStep ==
  ASSUME BuildInv, TypeOK, Outside PROVE CopyStep \/ UserStep
<1>1. UNCHANGED <<seen, local, pc, made>>
  BY Zenon DEF Outside, CreatePresto, EditSpec, Relabel, DeletePresto, DeleteOwned,
     CollectGarbage, HpaScales, ReplicaSetReports, WriteReplicaSet, Remove,
     OutsideFrame, caches, thread
<1>2. CASE \E spec \in Specs, labels \in SUBSET Labels : CreatePresto(spec, labels)
  <2>1. presto'.status = EmptyStatus
    <3>1. PICK spec \in Specs, labels \in SUBSET Labels :
            presto' = [uid |-> uids + 1, gen |-> 1, labels |-> labels,
                       spec |-> spec, status |-> EmptyStatus]
      BY Zenon, <1>2 DEF CreatePresto
    <3> QED BY <3>1
  <2>2. presto'.status.uuid = 0
    BY Zenon, <2>1, EmptyStatusFields
  <2> QED BY <1>1, <2>2 DEF UserStep
<1>3. CASE DeletePresto
  <2>1. presto'.status.uuid = 0
    BY Zenon, <1>3, NoPrestoFields, EmptyStatusFields DEF DeletePresto
  <2> QED BY <1>1, <2>1 DEF UserStep
<1>4. CASE (\E spec \in Specs : EditSpec(spec))
             \/ (\E labels \in SUBSET Labels : Relabel(labels))
  <2>1. presto \in PrestoType
    BY DEF TypeOK
  <2>2. presto'.uid = presto.uid /\ presto'.status = presto.status
    BY Zenon, <1>4, <2>1 DEF EditSpec, Relabel, PrestoType
  <2> QED BY <1>1, <2>2 DEF CopyStep
<1>5. CASE UNCHANGED presto
  BY <1>1, <1>5 DEF CopyStep
<1> QED BY Zenon, <1>2, <1>3, <1>4, <1>5
        DEF Outside, DeleteOwned, CollectGarbage, Remove, HpaScales,
            ReplicaSetReports, WriteReplicaSet

LEMMA FourSteps ==
  ASSUME BuildInv, TypeOK, [Next]_vars
  PROVE  CopyStep \/ BuildStep \/ AssignStep \/ UserStep
<1>1. CASE Stages
  BY <1>1, StageBuildStep
<1>2. CASE AssignUuid
  BY <1>2, AssignUuidStep
<1>3. CASE UpdateStatus
  BY <1>3, UpdateStatusStep
<1>4. CASE Reconcile
  BY <1>4 DEF Reconcile, store, caches, CopyStep
<1>5. CASE ReconcileNotFound \/ ReconcileGetFails \/ Tick \/ UNCHANGED vars
             \/ (\E K \in Informers : DeliverOwned(K))
  <2>1. UNCHANGED <<presto, seen, local, pc, made>>
    BY <1>5 DEF ReconcileNotFound, ReconcileGetFails, Tick, DeliverOwned, vars,
                store, caches, thread
  <2> QED BY <2>1 DEF CopyStep
<1>6. CASE HpaPanics \/ Crash
  <2>1. /\ UNCHANGED <<presto, made>> /\ seen' = NoPresto
        /\ local' = NoPresto /\ pc' = "idle"
    BY <1>6 DEF HpaPanics, Crash, Stop, ClearThread, store
  <2> QED BY <2>1 DEF CopyStep
<1>7. CASE DeliverPresto \/ Restart
  <2>1. UNCHANGED <<presto, made, local, pc>> /\ seen' = presto
    BY <1>7 DEF DeliverPresto, Restart, store, thread
  <2> QED BY <2>1 DEF CopyStep
<1>8. CASE Outside
  BY <1>8, OutsideStep
<1> QED BY <1>1, <1>2, <1>3, <1>4, <1>5, <1>6, <1>7, <1>8
        DEF Next, Reconciler, Stages

\* No Presto claims three uuids: neither through its copies nor its objects.
TwoUuids ==
  \A a, b, c \in Claims :
    (/\ a[1] = b[1] /\ b[1] = c[1]
     /\ a[2] # 0 /\ b[2] # 0 /\ c[2] # 0)
    => a[2] = b[2] \/ b[2] = c[2] \/ a[2] = c[2]

\* A step adds no claims, except that of the uuid it assigns.
LEMMA ClaimsGrow ==
  ASSUME BuildInv, TypeOK, CopyStep \/ BuildStep \/ UserStep
  PROVE  \A c \in Claims' : c \in Claims \/ c[2] = 0
<1>1. NoPresto.uid = 0 /\ NoPresto.status.uuid = 0
  BY Zenon, NoPrestoFields, EmptyStatusFields
<1>2. /\ <<presto.uid, presto.status.uuid>> \in Claims
      /\ <<seen.uid, seen.status.uuid>> \in Claims
      /\ <<local.uid, local.status.uuid>> \in Claims
      /\ \A m \in made : <<m[2], m[3]>> \in Claims
  BY DEF Claims
<1> DEFINE Old(c) == c \in Claims \/ c[2] = 0
<1>3. Old(<<presto'.uid, presto'.status.uuid>>)
  BY <1>2 DEF CopyStep, BuildStep, UserStep
<1>4. Old(<<seen'.uid, seen'.status.uuid>>)
  BY <1>1, <1>2 DEF CopyStep, BuildStep, UserStep
<1>5. Old(<<local'.uid, local'.status.uuid>>)
  BY <1>1, <1>2 DEF CopyStep, BuildStep, UserStep
<1>6. \A m \in made' : Old(<<m[2], m[3]>>)
  <2>1. ASSUME NEW k \in Kinds, NEW m, m = <<k, local.uid, uuid>>
        PROVE  <<m[2], m[3]>> \in Claims
    BY <1>2, <2>1 DEF uuid
  <2> QED BY Zenon, <1>2, <2>1 DEF CopyStep, BuildStep, UserStep
<1> HIDE DEF Old
<1>7. \A c \in Claims' : Old(c)
  BY Zenon, <1>3, <1>4, <1>5, <1>6 DEF Claims
<1> QED BY <1>7 DEF Old

LEMMA NextTwoUuids ==
  ASSUME BuildInv, TypeOK, [Next]_vars, TwoUuids PROVE TwoUuids'
<1>1. CASE CopyStep \/ BuildStep \/ UserStep
  BY ZenonT(30), <1>1, ClaimsGrow DEF TwoUuids
<1>2. CASE AssignStep
  <2> DEFINE Free(c) == c \in Claims /\ c[1] # presto.uid
             Mine(c) == c[1] = presto.uid /\ c[2] \in {issued + 1, seen.status.uuid}
  <2>1. \A c \in Claims' : Free(c) \/ Mine(c) \/ c[2] = 0
    <3>1. Mine(<<presto'.uid, presto'.status.uuid>>)
      BY <1>2 DEF AssignStep
    <3>2. Mine(<<seen'.uid, seen'.status.uuid>>)
      BY <1>2 DEF AssignStep
    <3>3. <<local'.uid, local'.status.uuid>>[2] = 0
      BY Zenon, <1>2, NoPrestoFields, EmptyStatusFields DEF AssignStep
    <3>4. \A m \in made' : Free(<<m[2], m[3]>>)
      <4>1. \A m \in made : <<m[2], m[3]>> \in Claims
        BY DEF Claims
      <4> QED BY <1>2, <4>1 DEF AssignStep
    <3> HIDE DEF Free, Mine
    <3> QED BY Zenon, <3>1, <3>2, <3>3, <3>4 DEF Claims
  <2>2. SUFFICES ASSUME NEW a \in Claims', NEW b \in Claims', NEW c \in Claims',
                        a[1] = b[1], b[1] = c[1], a[2] # 0, b[2] # 0, c[2] # 0
                 PROVE  a[2] = b[2] \/ b[2] = c[2] \/ a[2] = c[2]
    BY ZenonT(30) DEF TwoUuids
  <2>3. \/ Free(a) /\ Free(b) /\ Free(c)
        \/ Mine(a) /\ Mine(b) /\ Mine(c)
    BY Zenon, <2>1, <2>2
  <2>4. CASE Free(a) /\ Free(b) /\ Free(c)
    BY Zenon, <2>2, <2>4 DEF TwoUuids
  <2>5. CASE Mine(a) /\ Mine(b) /\ Mine(c)
    BY Zenon, <2>5
  <2> QED BY <2>3, <2>4, <2>5
<1> QED BY <1>1, <1>2, FourSteps

\* A reconcile with a lagging cache replaces the uuid of a Presto once at most
\* and, with the optimistic concurrency control, before it has any object: the
\* objects ever created for it carry at most two uuids.
THEOREM TwoUuidsAtMost == Spec => []AtMostTwoUuids
<1>1. Init => TwoUuids
  <2> SUFFICES ASSUME Init PROVE TwoUuids
    OBVIOUS
  <2>1. \A c \in Claims : c = <<0, 0>>
    BY Zenon, NoPrestoFields, EmptyStatusFields DEF Init, Claims
  <2> QED BY Zenon, <2>1 DEF TwoUuids
<1>2. BuildInv /\ TypeOK /\ [Next]_vars /\ TwoUuids => TwoUuids'
  BY NextTwoUuids
<1>3. BuildInv /\ TwoUuids => AtMostTwoUuids
  <2> SUFFICES ASSUME BuildInv, TwoUuids,
                      NEW m1 \in made, NEW m2 \in made, NEW m3 \in made,
                      m1[2] = m2[2], m2[2] = m3[2]
               PROVE  m1[3] = m2[3] \/ m2[3] = m3[3] \/ m1[3] = m3[3]
    BY Zenon DEF AtMostTwoUuids
  <2> DEFINE a == <<m1[2], m1[3]>>
             b == <<m2[2], m2[3]>>
             c == <<m3[2], m3[3]>>
  <2>1. a \in Claims /\ b \in Claims /\ c \in Claims
    BY DEF Claims
  <2>2. /\ a[1] = m1[2] /\ b[1] = m2[2] /\ c[1] = m3[2]
        /\ a[2] = m1[3] /\ b[2] = m2[3] /\ c[2] = m3[3]
    OBVIOUS
  <2>3. m1[3] # 0 /\ m2[3] # 0 /\ m3[3] # 0
    BY DEF BuildInv, MadeInv
  <2> HIDE DEF a, b, c
  <2>4. (/\ a[1] = b[1] /\ b[1] = c[1]
         /\ a[2] # 0 /\ b[2] # 0 /\ c[2] # 0)
        => a[2] = b[2] \/ b[2] = c[2] \/ a[2] = c[2]
    BY Zenon, <2>1 DEF TwoUuids
  <2> QED BY <2>2, <2>3, <2>4
<1> QED BY <1>1, <1>2, <1>3, BuildInvariant, TypeCorrect, PTL DEF Spec

-----------------------------------------------------------------------------
Matches(p) == p.uid = presto.uid /\ p.status.uuid = presto.status.uuid

\* The cache is never behind a local copy that has caught up with the store;
\* and once an object has been created under the present uuid, everyone has.
CaughtUp ==
  /\ presto.status.uuid # 0 /\ Matches(local) /\ Exists(seen) => Matches(seen)
  /\ (\E m \in made : Present(m)) =>
       (Exists(seen) => Matches(seen)) /\ (Working => Matches(local))

LEMMA NextCaughtUp ==
  ASSUME BuildInv, TypeOK, BuildInv', [Next]_vars, CaughtUp PROVE CaughtUp'
<1>0. NoPresto.uid = 0 /\ NoPresto.status.uuid = 0
  BY Zenon, NoPrestoFields, EmptyStatusFields
<1>1. CASE CopyStep
  <2>1. \A m \in made' : Present(m)' => m \in made /\ Present(m)
    BY <1>1 DEF CopyStep, Present
  <2>2. \A p : Matches(p)' <=> Matches(p)
    BY <1>1 DEF CopyStep, Matches
  <2>3. Matches(presto)
    BY DEF Matches
  <2>4. ~Exists(NoPresto)
    BY <1>0 DEF Exists
  <2>5. (Exists(seen) => Matches(seen)) => (Exists(seen') => Matches(seen'))
    BY Zenon, <1>1, <2>3, <2>4 DEF CopyStep
  <2>6. presto'.status.uuid # 0 /\ Matches(local') /\ Exists(seen') => Matches(seen')
    <3>1. CASE local' = local
      BY <1>1, <2>5, <3>1 DEF CaughtUp, CopyStep
    <3>2. CASE local' = seen /\ UNCHANGED seen
      BY <3>2
    <3>3. CASE local' = NoPresto
      BY <1>0, <1>1, <3>3 DEF CopyStep, Matches
    <3> QED BY <1>1, <3>1, <3>2, <3>3 DEF CopyStep
  <2>7. ASSUME \E m \in made : Present(m)
        PROVE  (Exists(seen') => Matches(seen')) /\ (Working' => Matches(local'))
    <3>1. (Exists(seen) => Matches(seen)) /\ (Working => Matches(local))
      BY <2>7 DEF CaughtUp
    <3>2. Working' => Matches(local')
      BY <1>1, <3>1 DEF CopyStep, Working
    <3> QED BY <2>5, <3>1, <3>2
  <2>8. /\ Matches(local)' <=> Matches(local')
        /\ Matches(seen)' <=> Matches(seen')
        /\ Exists(seen)' <=> Exists(seen')
    BY <1>1 DEF CopyStep, Matches, Exists
  <2> QED BY Zenon, <2>1, <2>6, <2>7, <2>8 DEF CaughtUp
<1>2. CASE BuildStep
  <2>1. /\ Matches(seen)' <=> Matches(seen)
        /\ Exists(seen)' <=> Exists(seen)
        /\ Working /\ UNCHANGED presto
    BY <1>2 DEF BuildStep, Matches, Exists
  <2>2. \/ Matches(local)' <=> Matches(local)
        \/ local' = NoPresto /\ pc' = "idle"
    BY <1>2 DEF BuildStep, Matches
  <2>3. Matches(local)' /\ presto.status.uuid # 0 => Matches(local)
    BY <1>0, <2>1, <2>2 DEF Matches
  <2>4. ASSUME \E m \in made' : Present(m)'
        PROVE  (Exists(seen) => Matches(seen)) /\ Matches(local)
    <3>1. PICK m \in made' : Present(m)
      BY <2>1, <2>4 DEF Present
    <3>2. CASE m \in made
      BY <2>1, <3>1, <3>2 DEF CaughtUp
    <3>3. CASE m \notin made
      <4>1. m[2] = local.uid /\ m[3] = uuid
        BY <1>2, <3>1, <3>3 DEF BuildStep
      <4>2. Matches(local) /\ presto.status.uuid # 0
        <5>1. uuid # 0
          BY <2>1 DEF BuildInv, CopiesInv
        <5> QED BY <3>1, <4>1, <5>1 DEF Present, Matches, uuid
      <4> QED BY <4>2 DEF CaughtUp
    <3> QED BY <3>2, <3>3
  <2>5. Working' /\ Matches(local) => Matches(local)'
    BY <2>2 DEF Working
  <2> QED BY Zenon, <2>1, <2>3, <2>4, <2>5 DEF CaughtUp
<1>3. CASE AssignStep
  <2>1. \A m \in made' : ~Present(m)'
    BY <1>3 DEF AssignStep, Present
  <2>2. ~Matches(local)' \/ presto'.status.uuid = 0
    BY <1>0, <1>3 DEF AssignStep, Matches
  <2> QED BY Zenon, <2>1, <2>2 DEF CaughtUp
<1>4. CASE UserStep
  <2>1. presto'.status.uuid = 0
    BY <1>4 DEF UserStep
  <2>2. \A m \in made' : ~Present(m)'
    BY <2>1 DEF BuildInv, MadeInv, Present
  <2> QED BY Zenon, <2>1, <2>2 DEF CaughtUp
<1> QED BY <1>1, <1>2, <1>3, <1>4, FourSteps

LEMMA CaughtUpInvariant == Spec => []CaughtUp
<1>1. Init => CaughtUp
  <2> SUFFICES ASSUME Init PROVE CaughtUp
    OBVIOUS
  <2>1. made = {} /\ seen = NoPresto /\ presto = NoPresto
    BY DEF Init
  <2> QED BY <2>1 DEF CaughtUp, Matches
<1>2. BuildInv /\ TypeOK /\ BuildInv' /\ [Next]_vars /\ CaughtUp => CaughtUp'
  BY NextCaughtUp
<1> QED BY <1>1, <1>2, BuildInvariant, TypeCorrect, PTL DEF Spec

\* A stage that creates an object works for the present Presto and uuid as soon
\* as any stage before it did.
LEMMA StageGoesOn ==
  ASSUME BuildInv, TypeOK, CaughtUp, [Next]_vars, \E m \in made : Present(m),
         NEW m \in made' \ made
  PROVE  Present(m)
<1>1. BuildStep
  BY FourSteps DEF CopyStep, AssignStep, UserStep
<1>2. Matches(local)
  BY <1>1 DEF BuildStep, CaughtUp
<1>3. m[2] = local.uid /\ m[3] = uuid
  BY <1>1 DEF BuildStep
<1> QED BY <1>2, <1>3 DEF Matches, Present, uuid

\* The reconciler, which works from a local copy of a cached copy, never returns
\* to a deleted Presto or to a replaced uuid once it has begun to build under the
\* present one.
THEOREM NeverGoesBack == Spec => NoWayBack
<1>1. BuildInv /\ TypeOK /\ CaughtUp /\ [Next]_vars =>
        [ (\E m \in made : Present(m)) => \A m \in made' \ made : Present(m) ]_vars
  BY StageGoesOn
<1> QED BY <1>1, BuildInvariant, TypeCorrect, CaughtUpInvariant, PTL
        DEF Spec, NoWayBack

=============================================================================

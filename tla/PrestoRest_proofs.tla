-------------------------- MODULE PrestoRest_proofs --------------------------
(***************************************************************************)
(* Proof that the watches alone drive a cluster that has been started to   *)
(* its end: NoStall, for every set of specs and every value of the bounds. *)
(*                                                                         *)
(* As long as nothing will wake the reconciler, what it has read is what   *)
(* the API server holds, so that what a stage found in the cache is still  *)
(* there when Reconcile returns.                                           *)
(***************************************************************************)
EXTENDS PrestoBuild_proofs

\* A request is waiting, or a change that will cause one is to be delivered:
\* a change of the status does not pass GenerationChangedPredicate, and the
\* autoscalers are not watched.
Awake ==
  \/ queued
  \/ /\ PrestoId \in behind
     /\ seen.uid # presto.uid \/ GenerationChanged(seen, presto)
  \/ \E id \in behind : id[1] \in Mandatory

\* The caches differ from the store only in what is to be delivered.
CacheInv ==
  up = "up" => \A o \in objs \cup listed :
                 Id(o) \in behind \/ (o \in objs /\ o \in listed)

\* The generation tells the specs of one Presto apart.
GenInv ==
  Exists(presto) =>
    /\ presto.gen # 0
    /\ seen.uid = presto.uid =>
         /\ seen.gen <= presto.gen
         /\ seen.gen = presto.gen => seen.spec = presto.spec

\* A copy p of the Presto with another uuid: nothing carries the stored uuid.
Unused(p) ==
  p.uid = presto.uid /\ p.status.uuid # presto.status.uuid =>
    \A m \in made : m[2] = presto.uid => m[3] # presto.status.uuid

StoredUuidInv ==
  Exists(presto) =>
    /\ Unused(seen)
    /\ Working => Unused(local)
    /\ (/\ Working /\ local.uid = presto.uid /\ seen.uid = presto.uid
        /\ uuid = presto.status.uuid)
       => seen.status.uuid = presto.status.uuid

\* The objects of the reconciler's copy, and what is there before stage n.
Built(k) == {o \in objs : o.kind = k /\ o.uid = local.uid /\ o.uuid = uuid}
DoneTo(n) ==
  /\ \A k \in Mandatory \ {Headless} : k < n => Built(k) # {}
  /\ HPA <= n /\ ~local.spec.enabled =>
       \E o \in Built(WorkerRS) : o.replicas = local.spec.count

Current == local.uid = presto.uid /\ local.spec = presto.spec

\* A cluster that has been started is complete.
Complete ==
  (Exists(presto) /\ \E k \in Mandatory : Owned(k) # {})
  => /\ \A k \in Mandatory \ {Headless} : Owned(k) # {}
     /\ ~presto.spec.enabled =>
          \E o \in Owned(WorkerRS) : o.replicas = presto.spec.count

\* What holds at each point of Reconcile if nothing will wake it again.
AtPoint ==
  /\ pc = "idle" => Complete
  /\ pc # "relist"
  /\ pc = "stage" => Current /\ DoneTo(at)
  /\ pc = "final" => Current /\ DoneTo(HPA)
  /\ pc = "status" =>
       \/ upd.next = "error"
       \/ upd.next = "next" /\ Current /\ DoneTo(CoordConf)
       \/ upd.next = "done" /\ Current /\ DoneTo(HPA)

RestInv == /\ CacheInv /\ GenInv /\ StoredUuidInv
           /\ up = "up" /\ ~Awake => AtPoint

-----------------------------------------------------------------------------
(***************************************************************************)
(* What a step has to leave alone.                                         *)
(***************************************************************************)

\* What the watches report: all owned objects but the autoscalers.
SameMandatory == \A o : o.kind \in Mandatory => (o \in objs' <=> o \in objs)
SamePresto == /\ presto'.uid = presto.uid /\ presto'.spec = presto.spec
              /\ presto'.status.uuid = presto.status.uuid

\* Every object that a step writes is to be delivered.
Touched ==
  /\ behind \subseteq behind'
  /\ \A o : (o \in objs' <=> o \in objs) \/ Id(o) \in behind'

LEMMA CacheKept ==
  ASSUME CacheInv, UNCHANGED <<listed, up>>, Touched PROVE CacheInv'
  BY Zenon DEF CacheInv, Touched, Id

LEMMA WokenByObject ==
  ASSUME NEW k \in Mandatory, NEW u, NEW n, <<k, u, n>> \in behind' PROVE Awake'
<1>1. <<k, u, n>>[1] = k
  OBVIOUS
<1> QED BY <1>1 DEF Awake

LEMMA OwnedKept ==
  ASSUME SameMandatory, SamePresto, NEW k \in Mandatory PROVE Owned(k)' = Owned(k)
  BY DEF SameMandatory, SamePresto, Owned

LEMMA BuiltKept ==
  ASSUME SameMandatory, UNCHANGED local, NEW k \in Mandatory
  PROVE  Built(k)' = Built(k)
  BY DEF SameMandatory, Built, uuid

LEMMA CompleteKept ==
  ASSUME Complete, SameMandatory, SamePresto PROVE Complete'
<1>1. \A k \in Mandatory : Owned(k)' = Owned(k)
  BY OwnedKept
<1>2. WorkerRS \in Mandatory
  BY DEF WorkerRS, Mandatory
<1> QED BY <1>1, <1>2 DEF Complete, SamePresto, Exists

LEMMA DoneKept ==
  ASSUME SameMandatory, SamePresto, UNCHANGED local, Current, NEW n, DoneTo(n)
  PROVE  Current' /\ DoneTo(n)'
<1>1. \A k \in Mandatory : Built(k)' = Built(k)
  BY BuiltKept
<1>2. WorkerRS \in Mandatory
  BY DEF WorkerRS, Mandatory
<1>3. DoneTo(n)'
  BY <1>1, <1>2 DEF DoneTo
<1>4. Current'
  BY DEF Current, SamePresto
<1> QED BY <1>3, <1>4

LEMMA PointKept ==
  ASSUME AtPoint, SameMandatory, SamePresto, UNCHANGED thread PROVE AtPoint'
<1>1. pc' = pc /\ at' = at /\ local' = local /\ upd' = upd
  BY DEF thread
<1>2. \A n : Current /\ DoneTo(n) => Current' /\ DoneTo(n)'
  BY <1>1, DoneKept
<1>3. Complete => Complete'
  BY CompleteKept
<1>4. CASE pc = "stage"
  BY <1>1, <1>2, <1>4 DEF AtPoint
<1>5. CASE pc # "stage"
  BY <1>1, <1>2, <1>3, <1>5 DEF AtPoint
<1> QED BY <1>4, <1>5

\* At the end of a reconcile that found everything, the cluster is complete:
\* either its uuid is the stored one, or nothing carries the stored one.
LEMMA CompleteAtEnd ==
  ASSUME BuildInv, StoredUuidInv, Working, Current, DoneTo(HPA) PROVE Complete
<1> SUFFICES ASSUME Exists(presto), \E k \in Mandatory : Owned(k) # {}
             PROVE  /\ \A k \in Mandatory \ {Headless} : Owned(k) # {}
                    /\ ~presto.spec.enabled =>
                         \E o \in Owned(WorkerRS) : o.replicas = presto.spec.count
  BY DEF Complete
<1>1. local.uid = presto.uid /\ local.spec = presto.spec
  BY DEF Current
<1>2. uuid = presto.status.uuid
  <2>1. PICK o \in objs : o.uid = presto.uid /\ o.uuid = presto.status.uuid
    BY DEF Owned
  <2>2. Key(o) \in made /\ Key(o)[2] = presto.uid /\ Key(o)[3] = presto.status.uuid
    BY <2>1 DEF BuildInv, MadeInv, Key
  <2>3. Unused(local)
    BY DEF StoredUuidInv
  <2> QED BY <1>1, <2>2, <2>3 DEF Unused, uuid
<1>3. \A k : Built(k) = Owned(k)
  BY <1>1, <1>2 DEF Built, Owned
<1>4. \A k \in Mandatory : k < HPA
  BY DEF Mandatory, HPA
<1>5. HPA <= HPA
  BY DEF HPA
<1> QED BY <1>1, <1>3, <1>4, <1>5 DEF DoneTo

-----------------------------------------------------------------------------
(***************************************************************************)
(* The stages.                                                             *)
(***************************************************************************)

RestEffect == /\ StageFrame /\ Touched /\ (queued => queued')
              /\ ~Awake' => AtPoint'

LEMMA AsleepBefore ==
  ASSUME StageFrame, Touched, queued => queued', ~Awake' PROVE ~Awake
<1>1. seen' = seen /\ presto' = presto /\ behind \subseteq behind'
  BY DEF StageFrame, Touched, caches
<1> QED BY <1>1 DEF Awake, GenerationChanged

LEMMA StoreUntouched ==
  ASSUME StoreUnchanged PROVE Touched /\ SameMandatory
  BY DEF StoreUnchanged, Touched, SameMandatory

\* A created object wakes the reconciler, unless it is an autoscaler.
LEMMA StoreTouches ==
  ASSUME NEW k \in Kinds, NEW r, NEW t, StoreObject(k, r, t)
  PROVE  Touched /\ (k \in Mandatory => Awake') /\ (k = HPA => SameMandatory)
<1>1. PICK n \in 1..MaxNames :
        LET o == [kind |-> k, uid |-> local.uid, uuid |-> uuid, n |-> n,
                  spec |-> local.spec, replicas |-> r, target |-> t]
        IN /\ objs' = objs \cup {o}
           /\ behind' = behind \cup {Id(o)}
  BY DEF StoreObject
<1> DEFINE new == [kind |-> k, uid |-> local.uid, uuid |-> uuid, n |-> n,
                   spec |-> local.spec, replicas |-> r, target |-> t]
<1>2. Id(new) = <<k, uuid, n>> /\ new.kind = k
  BY DEF Id
<1> HIDE DEF new
<1>3. objs' = objs \cup {new} /\ behind' = behind \cup {Id(new)}
  BY <1>1 DEF new
<1>4. Touched
  BY <1>3 DEF Touched
<1>5. k \in Mandatory => Awake'
  BY <1>2, <1>3, WokenByObject
<1>6. HPA \notin Mandatory
  BY DEF HPA, Mandatory
<1> QED BY <1>2, <1>3, <1>4, <1>5, <1>6 DEF SameMandatory

LEMMA FailPoint == ASSUME Fail PROVE AtPoint'
  BY DEF Fail, Post, Failure, Update, AtPoint

\* A call that failed without an effect.
LEMMA FailRest ==
  ASSUME StageFrame, Fail, UNCHANGED <<objs, behind, queued>> PROVE RestEffect
  BY FailPoint DEF RestEffect, Touched

\* Whatever follows, an object that is watched has been created.
LEMMA CreateRest ==
  ASSUME NEW k \in Mandatory, NEW r, NEW t, StoreObject(k, r, t), StageFrame,
         UNCHANGED queued
  PROVE  RestEffect
<1>1. k \in Kinds
  BY DEF Mandatory, Kinds
<1> QED BY <1>1, StoreTouches DEF RestEffect

\* The reconciler at stage k, if nothing will wake it.
LEMMA AtStagePoint ==
  ASSUME RestInv, BuildInv, NEW k, AtStage(k), ~Awake
  PROVE  up = "up" /\ Working /\ Current /\ DoneTo(k)
  BY DEF AtStage, RestInv, AtPoint, BuildInv, CopiesInv, Working

LEMMA ProceedRest ==
  ASSUME StageFrame, StoreUnchanged, UNCHANGED queued, NEW k, Proceed(k),
         ~Awake => Current /\ DoneTo(k)
  PROVE  RestEffect
<1>1. Touched /\ SameMandatory
  BY StoreUntouched
<1>2. SamePresto
  BY DEF SamePresto, StageFrame
<1>3. ASSUME ~Awake' PROVE AtPoint'
  <2>1. Current /\ DoneTo(k)
    BY <1>1, <1>3, AsleepBefore
  <2>2. Current' /\ DoneTo(k)'
    BY <1>1, <1>2, <2>1, DoneKept DEF Proceed
  <2> QED BY <2>2 DEF AtPoint, Proceed
<1> QED BY <1>1, <1>3 DEF RestEffect

\* While nothing is to be delivered, an object of the cache is in the store.
LEMMA ListedBuilt ==
  ASSUME RestInv, BuildInv, TypeOK, NEW k \in Mandatory, AtStage(k), ~Awake,
         NEW o \in Listed({k})
  PROVE  o \in Built(k)
<1>1. StageStart /\ up = "up"
  BY AtStageBefore, AtStagePoint
<1>2. o \in listed /\ o.kind = k /\ o.uuid = uuid
  BY DEF Listed
<1>3. Id(o) \notin behind
  <2>1. Id(o)[1] = k
    BY <1>2 DEF Id
  <2> QED BY <2>1 DEF Awake
<1>4. o \in objs
  BY <1>1, <1>2, <1>3 DEF RestInv, CacheInv
<1>5. <<o.uid, o.uuid>> \in Claims
  <2>1. Key(o) \in made /\ Key(o)[2] = o.uid /\ Key(o)[3] = o.uuid
    BY <1>2 DEF BuildInv, MadeInv, Key
  <2> QED BY <2>1 DEF Claims
<1>6. <<local.uid, uuid>> \in Claims /\ uuid # 0
  BY <1>1 DEF Claims, uuid, StageStart, BuildInv, CopiesInv, Working
<1>7. o.uid = local.uid
  BY <1>2, <1>5, <1>6 DEF BuildInv, UuidInv
<1> QED BY <1>2, <1>4, <1>7 DEF Built

LEMMA DoneNext ==
  ASSUME NEW k \in 1..6, DoneTo(k), k # Headless => Built(k) # {}
  PROVE  DoneTo(k + 1)
<1>1. \A j \in Mandatory : j < k + 1 => j < k \/ j = k
  BY DEF Mandatory
<1>2. ~(HPA <= k + 1)
  BY DEF HPA
<1> QED BY <1>1, <1>2 DEF DoneTo

LEMMA HeadlessRest ==
  ASSUME RestInv, BuildInv, HeadlessServiceConfig PROVE RestEffect
<1>1. AtStage(Headless) /\ StageFrame /\ UNCHANGED queued /\ Headless \in Mandatory
  BY DEF HeadlessServiceConfig, Headless, Mandatory
<1>2. CASE Proceed(ExternalSvc) /\ StoreUnchanged
  <2>1. Headless \in 1..6 /\ Headless + 1 = ExternalSvc
    BY DEF Headless, ExternalSvc
  <2>2. ~Awake => Current /\ DoneTo(ExternalSvc)
    BY <1>1, <2>1, AtStagePoint, DoneNext
  <2> QED BY <1>1, <1>2, <2>2, ProceedRest
<1>3. CASE CreateNamed(Headless, Post(Created(Headless)))
  BY <1>1, <1>3, FailRest, CreateRest DEF CreateNamed, Create
<1> QED BY <1>2, <1>3 DEF HeadlessServiceConfig

\* The stage has found its object: everything up to it is there.
LEMMA FoundDone ==
  ASSUME RestInv, BuildInv, TypeOK, NEW k \in 2..6, AtStage(k), Listed({k}) # {},
         ~Awake
  PROVE  Current /\ DoneTo(k + 1)
<1>1. k \in 1..6 /\ k \in Mandatory
  BY DEF Mandatory
<1>2. Built(k) # {}
  BY <1>1, ListedBuilt
<1> QED BY <1>1, <1>2, AtStagePoint, DoneNext

LEMMA ServiceRest ==
  ASSUME RestInv, BuildInv, TypeOK, ServiceConfig PROVE RestEffect
<1>1. /\ AtStage(ExternalSvc) /\ StageFrame /\ UNCHANGED queued
      /\ ExternalSvc \in Mandatory /\ ExternalSvc \in 2..6
      /\ ExternalSvc + 1 = CoordConf
  BY DEF ServiceConfig, ExternalSvc, CoordConf, Mandatory
<1>2. CASE Fail /\ StoreUnchanged
  BY <1>1, <1>2, FailRest DEF StoreUnchanged
<1>3. CASE /\ \E o \in Listed({ExternalSvc}) :
                IF local.status.addr = NoAddress THEN Post(Found(o, "next"))
                                                 ELSE Proceed(CoordConf)
           /\ StoreUnchanged
  <2>1. ~Awake => Current /\ DoneTo(CoordConf)
    BY Zenon, <1>1, <1>3, FoundDone
  <2>2. CASE Proceed(CoordConf)
    BY <1>1, <1>3, <2>1, <2>2, ProceedRest
  <2>3. ASSUME NEW o, Post(Found(o, "next")) PROVE RestEffect
    <3>1. Touched /\ SameMandatory /\ SamePresto
      BY <1>1, <1>3, StoreUntouched DEF SamePresto, StageFrame
    <3>2. pc' = "status" /\ upd'.next = "next" /\ UNCHANGED local
      BY <2>3 DEF Post, Found, Update
    <3>3. ASSUME ~Awake' PROVE AtPoint'
      <4>1. Current /\ DoneTo(CoordConf)
        BY <1>1, <2>1, <3>1, <3>3, AsleepBefore
      <4>2. Current' /\ DoneTo(CoordConf)'
        BY <3>1, <3>2, <4>1, DoneKept DEF CoordConf
      <4> QED BY <3>2, <4>2 DEF AtPoint
    <3> QED BY <1>1, <3>1, <3>3 DEF RestEffect
  <2> QED BY <1>3, <2>2, <2>3
<1>4. CASE CreateNamed(ExternalSvc,
                       pc' = "relist" /\ UNCHANGED <<at, local, wrs, upd>>)
  BY <1>1, <1>4, FailRest, CreateRest DEF CreateNamed, Create
<1> QED BY <1>2, <1>3, <1>4 DEF ServiceConfig

\* createOrGetService has just created the service: its event is on its way.
LEMMA RelistRest ==
  ASSUME RestInv, BuildInv, RelistService PROVE RestEffect
<1>1. StageFrame /\ Touched /\ UNCHANGED queued
  BY StoreUntouched DEF RelistService
<1>2. Awake
  BY DEF RelistService, RestInv, AtPoint, BuildInv, CopiesInv
<1> QED BY <1>1, <1>2, AsleepBefore DEF RestEffect

LEMMA ConfigMapRest ==
  ASSUME RestInv, BuildInv, TypeOK,
         NEW k \in {CoordConf, WorkerConf, CatalogConf}, ConfigMapStage(k)
  PROVE  RestEffect
<1>1. /\ AtStage(k) /\ StageFrame /\ UNCHANGED queued
      /\ k \in Mandatory /\ k \in 2..6
  BY DEF ConfigMapStage, CoordConf, WorkerConf, CatalogConf, Mandatory
<1>2. CASE Fail /\ StoreUnchanged
  BY <1>1, <1>2, FailRest DEF StoreUnchanged
<1>3. CASE Listed({k}) # {} /\ Proceed(k + 1) /\ StoreUnchanged
  BY <1>1, <1>3, FoundDone, ProceedRest
<1>4. CASE CreateNamed(k, Post(Created(k)))
  BY <1>1, <1>4, FailRest, CreateRest DEF CreateNamed, Create
<1> QED BY <1>2, <1>3, <1>4 DEF ConfigMapStage, ConfigMapsNamed

LEMMA CoordinatorRest ==
  ASSUME RestInv, BuildInv, TypeOK, CoordinatorReplicaset PROVE RestEffect
<1>1. /\ AtStage(CoordRS) /\ StageFrame /\ UNCHANGED queued
      /\ CoordRS \in Mandatory /\ CoordRS \in 2..6 /\ CoordRS + 1 = WorkerRS
  BY DEF CoordinatorReplicaset, CoordRS, WorkerRS, Mandatory
<1>2. CASE Fail /\ StoreUnchanged
  BY <1>1, <1>2, FailRest DEF StoreUnchanged
<1>3. CASE Listed({CoordRS}) # {} /\ Proceed(WorkerRS) /\ StoreUnchanged
  BY Zenon, <1>1, <1>3, FoundDone, ProceedRest
<1>4. CASE Create(CoordRS, 1, 0, Post(Created(CoordRS)))
  BY <1>1, <1>4, CreateRest DEF Create
<1> QED BY <1>2, <1>3, <1>4 DEF CoordinatorReplicaset

\* An update of an object, which keeps its identity, is to be delivered.
LEMMA UpdateTouches ==
  ASSUME NEW o, NEW new, Id(new) = Id(o), objs' = (objs \ {o}) \cup {new},
         behind' = behind \cup {Id(o)}
  PROVE  Touched
  BY DEF Touched

LEMMA WorkerRest ==
  ASSUME RestInv, BuildInv, TypeOK, WorkerReplicaset PROVE RestEffect
<1>1. AtStage(WorkerRS) /\ StageFrame /\ WorkerRS \in Mandatory
  BY DEF WorkerReplicaset, WorkerRS, Mandatory
<1>2. CASE Fail /\ UNCHANGED queued /\ StoreUnchanged
  BY <1>1, <1>2, FailRest DEF StoreUnchanged
<1>3. ASSUME NEW o \in Listed({WorkerRS}), ~Resize(o), pc' = "stage", at' = HPA,
             UNCHANGED <<queued, local>>, StoreUnchanged
      PROVE  RestEffect
  <2>1. Touched /\ SameMandatory /\ SamePresto
    BY <1>1, <1>3, StoreUntouched DEF SamePresto, StageFrame
  <2>2. ASSUME ~Awake PROVE Current /\ DoneTo(HPA)
    <3>1. o \in Built(WorkerRS) /\ Current /\ DoneTo(WorkerRS)
      BY <1>1, <1>3, <2>2, ListedBuilt, AtStagePoint
    <3>2. ~local.spec.enabled => o.replicas = local.spec.count
      BY <1>3 DEF Resize
    <3>3. \A j \in Mandatory : j < HPA => j < WorkerRS \/ j = WorkerRS
      BY DEF Mandatory, HPA, WorkerRS
    <3> QED BY <3>1, <3>2, <3>3 DEF DoneTo
  <2>3. ASSUME ~Awake' PROVE AtPoint'
    <3>1. Current /\ DoneTo(HPA)
      BY <1>1, <1>3, <2>1, <2>2, <2>3, AsleepBefore
    <3>2. Current' /\ DoneTo(HPA)'
      BY <1>3, <2>1, <3>1, DoneKept DEF HPA
    <3> QED BY <1>3, <3>2 DEF AtPoint, HPA
  <2> QED BY <1>1, <1>3, <2>1, <2>3 DEF RestEffect
<1>4. ASSUME NEW o \in Listed({WorkerRS}), UNCHANGED queued,
             objs' = (objs \ {o}) \cup {[o EXCEPT !.replicas = local.spec.count]},
             behind' = behind \cup {Id(o)}
      PROVE  RestEffect
  <2>1. o \in ObjectType /\ o.kind = WorkerRS
    BY DEF Listed, TypeOK
  <2>2. Id([o EXCEPT !.replicas = local.spec.count]) = Id(o)
    BY <2>1 DEF Id, ObjectType
  <2>3. Touched
    BY <1>4, <2>2, UpdateTouches
  <2>4. Awake'
    BY Zenon, <1>1, <1>4, <2>1, WokenByObject DEF Id
  <2> QED BY <1>1, <1>4, <2>3, <2>4 DEF RestEffect
<1>5. CASE /\ Create(WorkerRS, local.spec.count, 0,
                     Post(Workers(local.spec.count, "Pending")))
           /\ UNCHANGED queued
  BY <1>1, <1>5, CreateRest DEF Create
<1>6. CASE \E o \in Listed({WorkerRS}) :
             \/ /\ ~Resize(o)
                /\ pc' = "stage" /\ at' = HPA /\ wrs' = o
                /\ UNCHANGED <<queued, local, upd>> /\ StoreUnchanged
             \/ /\ Resize(o)
                /\ UpdateObject(o, [o EXCEPT !.replicas = local.spec.count],
                                Post(Workers(local.spec.count, "Pending"))
                                  /\ UNCHANGED queued)
  BY <1>2, <1>3, <1>4, <1>6 DEF UpdateObject
<1> QED BY Zenon, <1>2, <1>5, <1>6 DEF WorkerReplicaset

\* The stage of the autoscaler, and the report at the end: the other objects
\* stay, and everything has been found.
LEMMA EndRest ==
  ASSUME RestInv, BuildInv, AtStage(HPA) \/ pc = "final", StageFrame, Touched,
         SameMandatory, queued => queued',
         \/ pc' = "final" /\ UNCHANGED local
         \/ pc' = "status" /\ upd'.next = "done" /\ UNCHANGED local
         \/ pc' = "idle"
  PROVE  RestEffect
<1>1. SamePresto
  BY DEF SamePresto, StageFrame
<1>2. ASSUME ~Awake' PROVE AtPoint'
  <2>1. ~Awake
    BY <1>2, AsleepBefore
  <2>2. Current /\ DoneTo(HPA) /\ Working
    BY <2>1 DEF RestInv, AtPoint, AtStage, BuildInv, CopiesInv, Working
  <2>3. CASE pc' = "idle"
    <3>1. Complete
      BY <2>2, CompleteAtEnd DEF RestInv
    <3>2. Complete'
      BY <1>1, <3>1, CompleteKept
    <3> QED BY <2>3, <3>2 DEF AtPoint
  <2>4. CASE UNCHANGED local /\ pc' # "idle"
    <3>1. Current' /\ DoneTo(HPA)'
      BY <1>1, <2>2, <2>4, DoneKept DEF HPA
    <3> QED BY <2>4, <3>1 DEF AtPoint
  <2> QED BY <2>3, <2>4
<1> QED BY <1>2 DEF RestEffect

LEMMA HpaRest ==
  ASSUME RestInv, BuildInv, TypeOK, HpaReplicaset PROVE RestEffect
<1>1. AtStage(HPA) /\ StageFrame /\ HPA \notin Mandatory /\ HPA \in Kinds
  <2>1. AtStage(HPA) /\ StageFrame
    BY Zenon DEF HpaReplicaset
  <2> QED BY <2>1 DEF HPA, Mandatory, Kinds
<1>2. CASE Fail /\ UNCHANGED queued /\ StoreUnchanged
  BY <1>1, <1>2, FailRest DEF StoreUnchanged
<1>3. CASE pc' = "final" /\ UNCHANGED <<queued, local>> /\ StoreUnchanged
  BY <1>1, <1>3, StoreUntouched, EndRest
<1>4. CASE Post(Created(HPA)) /\ UNCHANGED queued /\ StoreUnchanged
  BY <1>1, <1>4, StoreUntouched, EndRest DEF Post, Created, Update
<1>5. CASE StoreObject(HPA, 0, wrs.n) /\ Post(Created(HPA)) /\ UNCHANGED queued
  BY <1>1, <1>5, StoreTouches, EndRest DEF Post, Created, Update
<1>6. CASE StoreObject(HPA, 0, wrs.n) /\ Fail /\ UNCHANGED queued
  BY <1>1, <1>6, StoreTouches, FailPoint DEF RestEffect
<1>7. CASE DeleteHpa /\ UNCHANGED queued
  <2> DEFINE stored == {o \in objs : o.kind = HPA /\ o.uuid = uuid}
  <2>1. CASE Fail /\ StoreUnchanged
    BY <1>2, <1>7, <2>1
  <2>2. CASE /\ objs' = objs \ stored
             /\ behind' = behind \cup {Id(o) : o \in stored}
             /\ Fail \/ Post(Update(HPA, 0, 0, "Pending", "done"))
    <3>1. Touched /\ SameMandatory
      BY <1>1, <2>2 DEF Touched, SameMandatory
    <3>2. CASE Fail
      BY <1>1, <1>7, <3>1, <3>2, FailPoint DEF RestEffect
    <3>3. CASE Post(Update(HPA, 0, 0, "Pending", "done"))
      BY <1>1, <1>7, <3>1, <3>3, EndRest DEF Post, Update
    <3> QED BY <2>2, <3>2, <3>3
  <2> QED BY <1>7, <2>1, <2>2 DEF DeleteHpa
<1>8. ASSUME NEW h \in Listed({HPA}),
             UpdateObject(h, [h EXCEPT !.spec = local.spec, !.target = wrs.n],
                          Return(FALSE))
      PROVE  RestEffect
  <2> DEFINE new == [h EXCEPT !.spec = local.spec, !.target = wrs.n]
  <2>1. h \in ObjectType /\ h.kind = HPA
    BY DEF Listed, TypeOK
  <2>2. Id(new) = Id(h) /\ new.kind = HPA
    BY <2>1 DEF Id, ObjectType
  <2> HIDE DEF new
  <2>3. CASE Fail /\ UNCHANGED queued /\ StoreUnchanged
    BY <1>2, <2>3
  <2>4. CASE /\ objs' = (objs \ {h}) \cup {new} /\ behind' = behind \cup {Id(h)}
             /\ Return(FALSE) \/ (Fail /\ UNCHANGED queued)
    <3>1. Touched /\ SameMandatory
      BY <1>1, <2>1, <2>2, <2>4, UpdateTouches DEF SameMandatory
    <3>2. CASE Return(FALSE)
      BY Zenon, <1>1, <3>1, <3>2, EndRest DEF Return, ClearThread
    <3>3. CASE Fail /\ UNCHANGED queued
      BY <1>1, <3>1, <3>3, FailPoint DEF RestEffect
    <3> QED BY Zenon, <2>4, <3>2, <3>3
  <2> QED BY Zenon, <1>8, <2>3, <2>4 DEF UpdateObject, new
<1>9. \/ Fail /\ UNCHANGED queued /\ StoreUnchanged
      \/ pc' = "final" /\ UNCHANGED <<queued, local>> /\ StoreUnchanged
      \/ Post(Created(HPA)) /\ UNCHANGED queued /\ StoreUnchanged
      \/ StoreObject(HPA, 0, wrs.n) /\ Post(Created(HPA)) /\ UNCHANGED queued
      \/ StoreObject(HPA, 0, wrs.n) /\ Fail /\ UNCHANGED queued
      \/ DeleteHpa /\ UNCHANGED queued
      \/ \E h \in Listed({HPA}) :
           UpdateObject(h, [h EXCEPT !.spec = local.spec, !.target = wrs.n],
                        Return(FALSE))
  BY Zenon DEF HpaReplicaset, Create
<1> QED BY Zenon, <1>2, <1>3, <1>4, <1>5, <1>6, <1>7, <1>8, <1>9

LEMMA StagesRest == ASSUME RestInv, BuildInv, TypeOK, Stages PROVE RestEffect
<1>1. CASE StageCallFails
  BY <1>1, FailRest DEF StageCallFails
<1>2. CASE ReportPhase
  <2>1. /\ pc = "final" /\ StageFrame /\ StoreUnchanged /\ UNCHANGED queued
        /\ pc' = "status" /\ upd'.next = "done" /\ UNCHANGED local
    BY <1>2 DEF ReportPhase, Post, Workers, Update
  <2> QED BY <2>1, StoreUntouched, EndRest
<1>3. CASE CoordinatorConfig \/ WorkerConfig \/ CatalogConfig
  BY <1>3, ConfigMapRest DEF CoordinatorConfig, WorkerConfig, CatalogConfig
<1> QED BY <1>1, <1>2, <1>3, HeadlessRest, ServiceRest, RelistRest, CoordinatorRest,
           WorkerRest, HpaRest DEF Stages

\* The copies stay as they are, and what is created carries the local uuid.
LEMMA StageKeepsStoredUuid ==
  ASSUME StoredUuidInv, StageStart, StageEffect PROVE StoredUuidInv'
<1>1. presto' = presto /\ seen' = seen
  BY DEF StageEffect, StageFrame, caches
<1>2. \A m \in made' : m \in made \/ (m[2] = local.uid /\ m[3] = uuid)
  BY DEF StageEffect, StoreEffect
<1>3. Exists(presto) => Unused(seen)'
  <2> SUFFICES ASSUME Exists(presto), seen.uid = presto.uid,
                      seen.status.uuid # presto.status.uuid,
                      NEW m \in made', m[2] = presto.uid
               PROVE  m[3] # presto.status.uuid
    BY <1>1 DEF Unused
  <2>1. CASE m \in made
    BY <2>1 DEF StoredUuidInv, Unused
  <2>2. CASE m[2] = local.uid /\ m[3] = uuid
    BY <2>2 DEF StoredUuidInv, StageStart, Working
  <2> QED BY <1>2, <2>1, <2>2
<1>4. CASE ClearThread
  BY <1>1, <1>3, <1>4 DEF StoredUuidInv, ClearThread, Working, Exists
<1>5. CASE UNCHANGED local
  <2>1. Exists(presto) => Unused(local)'
    <3> SUFFICES ASSUME Exists(presto), local.uid = presto.uid,
                        local.status.uuid # presto.status.uuid,
                        NEW m \in made', m[2] = presto.uid
                 PROVE  m[3] # presto.status.uuid
      BY <1>1, <1>5 DEF Unused
    <3>1. CASE m \in made
      BY <3>1 DEF StoredUuidInv, Unused, StageStart, Working
    <3>2. CASE m[2] = local.uid /\ m[3] = uuid
      BY <3>2 DEF uuid
    <3> QED BY <1>2, <3>1, <3>2
  <2>2. Working
    BY DEF StageStart, Working
  <2> QED BY <1>1, <1>3, <1>5, <2>1, <2>2 DEF StoredUuidInv, uuid, Exists
<1> QED BY <1>4, <1>5 DEF StageEffect, ThreadEffect

LEMMA StagesKeepRest ==
  ASSUME RestInv, BuildInv, TypeOK, Stages PROVE RestInv'
<1>1. RestEffect /\ StageEffect /\ StageStart
  BY StagesRest, StagesEffect
<1>2. presto' = presto /\ seen' = seen /\ listed' = listed /\ up' = up
  BY <1>1 DEF RestEffect, StageFrame, caches, process
<1>3. CacheInv'
  BY <1>1, <1>2, CacheKept DEF RestInv, RestEffect
<1>4. GenInv'
  BY <1>2 DEF RestInv, GenInv
<1>5. StoredUuidInv'
  BY <1>1, StageKeepsStoredUuid DEF RestInv
<1> QED BY <1>1, <1>3, <1>4, <1>5 DEF RestInv, RestEffect

-----------------------------------------------------------------------------
(***************************************************************************)
(* The other calls of the reconciler.                                      *)
(***************************************************************************)

LEMMA ReconcileKeepsRest ==
  ASSUME RestInv, BuildInv, TypeOK, Reconcile PROVE RestInv'
<1>1. /\ presto' = presto /\ objs' = objs /\ made' = made /\ seen' = seen
      /\ listed' = listed /\ behind' = behind /\ up' = up /\ up = "up"
      /\ local' = seen /\ Exists(seen)
      /\ pc' = "uuid" \/ (pc' = "stage" /\ at' = Headless)
  BY DEF Reconcile, store, caches
<1>2. CacheInv' /\ GenInv'
  BY <1>1 DEF RestInv, CacheInv, GenInv
<1>3. StoredUuidInv'
  <2>1. Exists(presto) => Unused(seen)' /\ Unused(local)'
    BY <1>1 DEF RestInv, StoredUuidInv, Unused
  <2>2. uuid' = seen.status.uuid
    BY <1>1 DEF uuid
  <2> QED BY <1>1, <2>1, <2>2 DEF StoredUuidInv, Exists
<1>4. ASSUME ~Awake', pc' = "stage", at' = Headless
      PROVE  Current' /\ DoneTo(Headless)'
  <2>1. \/ PrestoId \notin behind
        \/ seen.uid = presto.uid /\ ~GenerationChanged(seen, presto)
    BY <1>1, <1>4 DEF Awake
  <2>2. seen.uid = presto.uid /\ seen.spec = presto.spec
    <3>1. CASE PrestoId \notin behind
      BY <1>1, <3>1 DEF BuildInv, CopiesInv
    <3>2. CASE seen.uid = presto.uid /\ ~GenerationChanged(seen, presto)
      BY <1>1, <3>2 DEF RestInv, GenInv, GenerationChanged, Exists
    <3> QED BY <2>1, <3>1, <3>2
  <2>3. Current'
    BY <1>1, <2>2 DEF Current
  <2>4. ~(HPA <= Headless) /\ \A k \in Mandatory : ~(k < Headless)
    BY DEF HPA, Headless, Mandatory
  <2> QED BY <2>3, <2>4 DEF DoneTo
<1>5. ~Awake' => AtPoint'
  BY <1>1, <1>4 DEF AtPoint
<1> QED BY <1>1, <1>2, <1>3, <1>5 DEF RestInv

\* updateStatus changes neither the spec nor the uuid.
LEMMA StatusKeepsPresto ==
  ASSUME BuildInv, TypeOK, UpdateStatus
  PROVE  SamePresto /\ presto'.gen = presto.gen /\ behind \subseteq behind'
<1>1. presto \in PrestoType /\ seen.status \in StatusType
  BY DEF TypeOK, PrestoType
<1>2. CASE UNCHANGED <<presto, behind>>
  BY <1>2 DEF SamePresto
<1>3. CASE StatusAccepted /\ StoreStatus(Applied(seen.status, upd))
  <2>1. seen = presto
    BY <1>3 DEF UpdateStatus, StatusAccepted, BuildInv, CopiesInv
  <2>2. Applied(seen.status, upd).uuid = seen.status.uuid
    BY <1>1 DEF Applied, StatusType
  <2> HIDE DEF Applied
  <2>3. /\ presto' = [presto EXCEPT !.status = Applied(seen.status, upd)]
        /\ behind' = behind \cup {PrestoId}
    BY <1>3 DEF StoreStatus
  <2> QED BY <1>1, <2>1, <2>2, <2>3 DEF SamePresto, PrestoType
<1> QED BY <1>2, <1>3 DEF UpdateStatus

LEMMA UpdateStatusKeepsRest ==
  ASSUME RestInv, BuildInv, TypeOK, UpdateStatus PROVE RestInv'
<1>1. /\ pc = "status" /\ objs' = objs /\ made' = made /\ seen' = seen
      /\ listed' = listed /\ up' = up /\ up = "up" /\ Working
  BY DEF UpdateStatus, caches, process, BuildInv, CopiesInv, Working
<1>2. SamePresto /\ presto'.gen = presto.gen /\ behind \subseteq behind'
  BY StatusKeepsPresto
<1>3. SameMandatory /\ Touched
  BY <1>1, <1>2 DEF SameMandatory, Touched
<1>4. CacheInv'
  BY <1>1, <1>3, CacheKept DEF RestInv
<1>5. GenInv'
  BY <1>1, <1>2 DEF RestInv, GenInv, SamePresto, Exists
<1>6. \/ ClearThread /\ upd.next = "done" /\ queued' = (queued \/ FALSE)
      \/ ClearThread /\ upd.next = "error" /\ queued' = (queued \/ TRUE)
      \/ /\ pc' = "stage" /\ at' = CoordConf /\ upd.next = "next"
         /\ UNCHANGED <<queued, local>>
  BY DEF UpdateStatus, Return
<1>7. StoredUuidInv'
  <2>1. CASE ClearThread
    <3>1. Exists(presto)' => Unused(seen)'
      BY <1>1, <1>2 DEF RestInv, StoredUuidInv, Unused, SamePresto, Exists
    <3>2. ~Working'
      BY <2>1 DEF ClearThread, Working
    <3> QED BY <3>1, <3>2 DEF StoredUuidInv
  <2>2. CASE UNCHANGED local
    BY <1>1, <1>2, <2>2
       DEF RestInv, StoredUuidInv, Unused, SamePresto, Exists, uuid
  <2> QED BY <1>6, <2>1, <2>2
<1>8. ASSUME ~Awake' PROVE AtPoint'
  <2>1. ~Awake
    BY Zenon, <1>1, <1>2, <1>6, <1>8 DEF Awake, GenerationChanged, SamePresto
  <2>2. CASE ClearThread /\ upd.next = "done"
    <3>1. Complete
      BY <1>1, <2>1, <2>2, CompleteAtEnd DEF RestInv, AtPoint
    <3>2. Complete'
      BY <1>2, <1>3, <3>1, CompleteKept
    <3> QED BY <2>2, <3>2 DEF AtPoint, ClearThread
  <2>3. CASE queued' = (queued \/ TRUE)
    BY Zenon, <1>8, <2>3 DEF Awake
  <2>4. CASE /\ pc' = "stage" /\ at' = CoordConf /\ upd.next = "next"
             /\ UNCHANGED local
    <3>1. Current /\ DoneTo(CoordConf)
      BY <1>1, <2>1, <2>4 DEF RestInv, AtPoint
    <3>2. Current' /\ DoneTo(CoordConf)'
      BY <1>2, <1>3, <2>4, <3>1, DoneKept DEF CoordConf
    <3> QED BY <2>4, <3>2 DEF AtPoint, CoordConf
  <2> QED BY <1>6, <2>2, <2>3, <2>4
<1> QED BY <1>1, <1>4, <1>5, <1>7, <1>8 DEF RestInv

\* A uuid that has just been generated is on no object.
LEMMA AssignUuidKeepsRest ==
  ASSUME RestInv, BuildInv, TypeOK, AssignUuid PROVE RestInv'
<1>1. /\ pc = "uuid" /\ objs' = objs /\ made' = made /\ seen' = seen
      /\ listed' = listed /\ up' = up /\ up = "up" /\ ClearThread
  BY DEF AssignUuid, Return, caches, process, BuildInv, CopiesInv
<1>2. presto \in PrestoType /\ seen.status \in StatusType /\ issued \in Nat
  BY DEF TypeOK, PrestoType
<1>3. CASE UNCHANGED <<presto, behind>> /\ Return(TRUE)
  <2>1. CacheInv' /\ GenInv'
    BY <1>1, <1>3 DEF RestInv, CacheInv, GenInv
  <2>2. StoredUuidInv'
    BY <1>1, <1>3 DEF RestInv, StoredUuidInv, Unused, ClearThread, Working, Exists
  <2>3. Awake'
    BY Zenon, <1>3 DEF Awake, Return
  <2> QED BY <2>1, <2>2, <2>3 DEF RestInv
<1>4. CASE StatusAccepted /\ StoreStatus([seen.status EXCEPT !.uuid = NewUuid])
  <2>1. /\ presto'.uid = presto.uid /\ presto'.gen = presto.gen
        /\ presto'.spec = presto.spec /\ presto'.status.uuid = issued + 1
        /\ behind' = behind \cup {PrestoId}
    BY <1>2, <1>4 DEF StoreStatus, PrestoType, StatusType, NewUuid
  <2>2. \A m \in made : m[3] # issued + 1
    <3>1. \A m \in made : m[3] <= issued /\ m[3] \in Nat
      <4>1. \A m \in made : <<m[2], m[3]>> \in Claims
        BY Zenon DEF Claims
      <4>2. \A m \in made : <<m[2], m[3]>>[2] = m[3]
        OBVIOUS
      <4>3. \A m \in made : m[3] \in Nat
        BY DEF TypeOK
      <4> QED BY Zenon, <4>1, <4>2, <4>3 DEF BuildInv, UuidInv
    <3> QED BY <1>2, <3>1
  <2>3. CacheInv'
    BY <1>1, <2>1, CacheKept DEF RestInv, Touched
  <2>4. GenInv'
    BY <1>1, <2>1 DEF RestInv, GenInv, Exists
  <2>5. StoredUuidInv'
    BY <1>1, <2>1, <2>2 DEF StoredUuidInv, Unused, ClearThread, Working
  <2>6. Complete'
    <3>1. \A o \in objs : o.uuid # issued + 1
      <4>1. \A o \in objs : Key(o) \in made /\ Key(o)[3] = o.uuid
        BY Zenon DEF BuildInv, MadeInv, Key
      <4> QED BY <2>2, <4>1
    <3>2. \A k : Owned(k)' = {}
      BY <1>1, <2>1, <3>1 DEF Owned
    <3> QED BY <3>2 DEF Complete
  <2>7. AtPoint'
    BY <1>1, <2>6 DEF AtPoint, ClearThread
  <2> QED BY <2>3, <2>4, <2>5, <2>7 DEF RestInv
<1> QED BY Zenon, <1>3, <1>4 DEF AssignUuid

-----------------------------------------------------------------------------
(***************************************************************************)
(* The queue, the caches and the process.                                  *)
(***************************************************************************)

LEMMA StoredUuidKept ==
  ASSUME StoredUuidInv, UNCHANGED <<presto, made, pc, local>>,
         seen' \in {seen, presto}
  PROVE  StoredUuidInv'
  BY DEF StoredUuidInv, Unused, Working, uuid, Exists

LEMMA QueueKeepsRest ==
  ASSUME RestInv,
         UNCHANGED <<presto, objs, made, seen, listed, behind, up, thread>>,
         queued' \in {queued, TRUE}
  PROVE  RestInv'
<1>1. CacheInv' /\ GenInv'
  BY DEF RestInv, CacheInv, GenInv
<1>2. StoredUuidInv'
  BY StoredUuidKept DEF RestInv, thread
<1>3. SameMandatory /\ SamePresto
  BY DEF SameMandatory, SamePresto
<1>4. ~Awake' => ~Awake
  BY Zenon DEF Awake, GenerationChanged
<1>5. up' = "up" /\ ~Awake' => AtPoint'
  BY <1>3, <1>4, PointKept DEF RestInv
<1> QED BY <1>1, <1>2, <1>5 DEF RestInv

\* The cache has no Presto: either there is none, or its event is on its way.
LEMMA NotFoundKeepsRest ==
  ASSUME RestInv, BuildInv, ReconcileNotFound PROVE RestInv'
<1>1. /\ presto' = presto /\ objs' = objs /\ made' = made /\ seen' = seen
      /\ listed' = listed /\ behind' = behind /\ up' = up /\ up = "up"
      /\ pc' = pc /\ local' = local /\ pc = "idle" /\ ~Exists(seen)
  BY DEF ReconcileNotFound, store, caches, thread
<1>2. CacheInv' /\ GenInv'
  BY <1>1 DEF RestInv, CacheInv, GenInv
<1>3. StoredUuidInv'
  BY <1>1, StoredUuidKept DEF RestInv
<1>4. ASSUME ~Awake' PROVE ~Exists(presto)
  BY <1>1, <1>4 DEF Awake, BuildInv, CopiesInv, Exists
<1>5. ~Awake' => AtPoint'
  BY <1>1, <1>4 DEF AtPoint, Complete
<1> QED BY <1>2, <1>3, <1>5 DEF RestInv

LEMMA DeliverPrestoKeepsRest ==
  ASSUME RestInv, TypeOK, DeliverPresto PROVE RestInv'
<1>1. /\ presto' = presto /\ objs' = objs /\ made' = made /\ seen' = presto
      /\ listed' = listed /\ behind' = behind \ {PrestoId} /\ up' = up
      /\ UNCHANGED thread
      /\ queued' = (\/ queued \/ seen.uid # presto.uid
                    \/ GenerationChanged(seen, presto))
  BY DEF DeliverPresto, store, process
<1>2. CacheInv'
  <2>1. \A o \in objs \cup listed : Id(o) # PrestoId
    <3>1. \A o \in ObjectType : o.kind # 0
      BY DEF ObjectType, Kinds
    <3> QED BY <3>1 DEF TypeOK, Id, PrestoId
  <2> QED BY Zenon, <1>1, <2>1 DEF RestInv, CacheInv, Id
<1>3. GenInv'
  <2>1. presto.gen \in Nat
    BY DEF TypeOK, PrestoType
  <2>2. presto.gen <= presto.gen
    BY <2>1
  <2> QED BY Zenon, <1>1, <2>2 DEF RestInv, GenInv, Exists
<1>4. StoredUuidInv'
  BY <1>1, StoredUuidKept DEF RestInv, thread
<1>5. SameMandatory /\ SamePresto
  BY <1>1 DEF SameMandatory, SamePresto
<1>6. ASSUME ~Awake' PROVE ~Awake
  <2>1. ~queued /\ seen.uid = presto.uid /\ ~GenerationChanged(seen, presto)
    BY Zenon, <1>1, <1>6 DEF Awake
  <2>2. PrestoId[1] \notin Mandatory
    BY DEF PrestoId, Mandatory
  <2>3. ~ \E id \in behind : id[1] \in Mandatory
    BY <1>1, <1>6, <2>2 DEF Awake
  <2> QED BY <2>1, <2>3 DEF Awake
<1>7. up' = "up" /\ ~Awake' => AtPoint'
  BY <1>1, <1>5, <1>6, PointKept DEF RestInv
<1> QED BY <1>2, <1>3, <1>4, <1>7 DEF RestInv

LEMMA DeliverOwnedKeepsRest ==
  ASSUME RestInv, NEW K \in Informers, DeliverOwned(K) PROVE RestInv'
<1>1. /\ presto' = presto /\ objs' = objs /\ made' = made /\ seen' = seen
      /\ listed' = {o \in listed : o.kind \notin K} \cup {o \in objs : o.kind \in K}
      /\ behind' = {id \in behind : id[1] \notin K} /\ up' = up
      /\ UNCHANGED thread /\ queued' = (queued \/ K # {HPA}) /\ up = "up"
  BY DEF DeliverOwned, store, process
<1>2. CacheInv'
  <2> SUFFICES ASSUME NEW o \in objs \cup listed'
               PROVE  Id(o) \in behind' \/ (o \in objs /\ o \in listed')
    BY Zenon, <1>1 DEF CacheInv, Id
  <2>1. CASE o.kind \in K
    BY <1>1, <2>1
  <2>2. CASE o.kind \notin K
    <3>1. Id(o) \in behind \/ (o \in objs /\ o \in listed)
      BY <1>1, <2>2 DEF RestInv, CacheInv
    <3>2. Id(o)[1] = o.kind
      BY DEF Id
    <3> QED BY <1>1, <2>2, <3>1, <3>2
  <2> QED BY <2>1, <2>2
<1>3. GenInv'
  BY <1>1 DEF RestInv, GenInv
<1>4. StoredUuidInv'
  BY <1>1, StoredUuidKept DEF RestInv, thread
<1>5. SameMandatory /\ SamePresto
  BY <1>1 DEF SameMandatory, SamePresto
<1>6. ASSUME ~Awake' PROVE ~Awake
  <2>1. ~queued /\ K = {HPA}
    BY Zenon, <1>1, <1>6 DEF Awake
  <2>2. HPA \notin Mandatory /\ PrestoId[1] # HPA
    BY DEF HPA, Mandatory, PrestoId
  <2>3. \A id \in behind : id[1] \in Mandatory \/ id = PrestoId => id \in behind'
    BY <1>1, <2>1, <2>2
  <2> QED BY <1>1, <1>6, <2>1, <2>3 DEF Awake, GenerationChanged
<1>7. ~Awake' => AtPoint'
  BY <1>1, <1>5, <1>6, PointKept DEF RestInv
<1> QED BY <1>2, <1>3, <1>4, <1>7 DEF RestInv

LEMMA StopKeepsRest ==
  ASSUME RestInv, NEW how \in {"down", "panicked"}, Stop(how), UNCHANGED store
  PROVE  RestInv'
<1>1. /\ presto' = presto /\ objs' = objs /\ made' = made /\ seen'.uid = 0
      /\ up' # "up" /\ pc' = "idle"
  BY DEF Stop, store, ClearThread, NoPresto
<1>2. CacheInv' /\ GenInv'
  BY <1>1 DEF RestInv, CacheInv, GenInv, Exists
<1>3. StoredUuidInv'
  BY <1>1 DEF StoredUuidInv, Unused, Working, Exists
<1> QED BY <1>1, <1>2, <1>3 DEF RestInv

\* A restart finds the Presto, and with it a request.
LEMMA RestartKeepsRest ==
  ASSUME RestInv, BuildInv, TypeOK, Restart PROVE RestInv'
<1>1. /\ presto' = presto /\ objs' = objs /\ made' = made /\ seen' = presto
      /\ listed' = objs /\ UNCHANGED thread /\ (Exists(presto) => queued')
      /\ up # "up" /\ pc' = pc /\ local' = local
  BY Zenon DEF Restart, store, thread
<1>2. pc = "idle"
  BY <1>1 DEF BuildInv, CopiesInv
<1>3. CacheInv'
  BY <1>1 DEF CacheInv
<1>4. GenInv'
  <2>1. presto.gen \in Nat
    BY DEF TypeOK, PrestoType
  <2>2. presto.gen <= presto.gen
    BY <2>1
  <2> QED BY Zenon, <1>1, <2>2 DEF RestInv, GenInv, Exists
<1>5. StoredUuidInv'
  BY <1>1, StoredUuidKept DEF RestInv
<1>6. ~Awake' => AtPoint'
  BY <1>1, <1>2 DEF Awake, AtPoint, Complete
<1> QED BY <1>3, <1>4, <1>5, <1>6 DEF RestInv

-----------------------------------------------------------------------------
(***************************************************************************)
(* Users and the other controllers: what they change is delivered, and     *)
(* wakes the reconciler, unless it is an autoscaler or only labels.        *)
(***************************************************************************)

LEMMA ObjectsKeepRest ==
  ASSUME RestInv, presto' = presto, OutsideFrame, Touched,
         SameMandatory \/ Awake'
  PROVE  RestInv'
<1>1. /\ seen' = seen /\ listed' = listed /\ queued' = queued /\ up' = up
      /\ made' = made /\ UNCHANGED thread /\ pc' = pc /\ local' = local
      /\ behind \subseteq behind'
  BY DEF OutsideFrame, caches, process, thread, Touched
<1>2. CacheInv'
  BY <1>1, CacheKept DEF RestInv
<1>3. GenInv'
  BY <1>1 DEF RestInv, GenInv
<1>4. StoredUuidInv'
  BY <1>1, StoredUuidKept DEF RestInv
<1>5. ~Awake' => ~Awake
  BY <1>1 DEF Awake, GenerationChanged
<1>6. SamePresto
  BY DEF SamePresto
<1>7. up' = "up" /\ ~Awake' => AtPoint'
  BY <1>1, <1>5, <1>6, PointKept DEF RestInv
<1> QED BY <1>2, <1>3, <1>4, <1>7 DEF RestInv

LEMMA RemoveKeepsRest ==
  ASSUME RestInv, TypeOK, NEW O \in SUBSET objs, Remove(O) PROVE RestInv'
<1>1. /\ objs' = objs \ O /\ behind' = behind \cup {Id(o) : o \in O}
      /\ presto' = presto /\ OutsideFrame
  BY DEF Remove
<1>2. Touched
  BY <1>1 DEF Touched
<1>3. CASE \E o \in O : o.kind \in Mandatory
  <2>1. PICK o \in O : o.kind \in Mandatory
    BY <1>3
  <2>2. <<o.kind, o.uuid, o.n>> \in behind'
    BY <1>1 DEF Id
  <2> QED BY <1>1, <1>2, <2>1, <2>2, WokenByObject, ObjectsKeepRest
<1>4. CASE ~ \E o \in O : o.kind \in Mandatory
  <2>1. SameMandatory
    BY <1>1, <1>4 DEF SameMandatory
  <2> QED BY <1>1, <1>2, <2>1, ObjectsKeepRest
<1> QED BY <1>3, <1>4

LEMMA WriteKeepsRest ==
  ASSUME RestInv, TypeOK, NEW o \in objs, o.kind = WorkerRS, NEW r,
         WriteReplicaSet(o, r)
  PROVE  RestInv'
<1>1. o \in ObjectType
  BY DEF TypeOK
<1>2. Id([o EXCEPT !.replicas = r]) = Id(o)
  BY <1>1 DEF Id, ObjectType
<1>3. /\ objs' = (objs \ {o}) \cup {[o EXCEPT !.replicas = r]}
      /\ behind' = behind \cup {Id(o)} /\ presto' = presto /\ OutsideFrame
  BY DEF WriteReplicaSet
<1>4. Touched
  BY <1>2, <1>3, UpdateTouches
<1>5. Awake'
  <2>1. o.kind \in Mandatory
    BY DEF WorkerRS, Mandatory
  <2> QED BY Zenon, <1>3, <2>1, WokenByObject DEF Id
<1> QED BY <1>3, <1>4, <1>5, ObjectsKeepRest

\* A new Presto, a new generation and a deletion are events of their own.
LEMMA UserKeepsRest ==
  ASSUME RestInv, BuildInv, TypeOK,
         \/ \E spec \in Specs, labels \in SUBSET Labels : CreatePresto(spec, labels)
         \/ \E spec \in Specs : EditSpec(spec)
         \/ \E labels \in SUBSET Labels : Relabel(labels)
         \/ DeletePresto
  PROVE  RestInv'
<1>1. objs' = objs /\ OutsideFrame /\ behind' = behind \cup {PrestoId}
  BY Zenon DEF CreatePresto, EditSpec, Relabel, DeletePresto
<1>2. /\ seen' = seen /\ listed' = listed /\ queued' = queued /\ up' = up
      /\ made' = made /\ UNCHANGED thread /\ pc' = pc /\ local' = local
  BY <1>1 DEF OutsideFrame, caches, process, thread
<1>3. CacheInv'
  BY <1>1, <1>2, CacheKept DEF RestInv, Touched
<1>4. /\ presto \in PrestoType /\ presto.gen \in Nat /\ seen.gen \in Nat
      /\ uids \in Nat /\ seen.uid \in Nat /\ local.uid \in Nat
  BY DEF TypeOK, PrestoType
<1>5. ASSUME NEW spec \in Specs, NEW labels \in SUBSET Labels,
             CreatePresto(spec, labels)
      PROVE  RestInv'
  <2>1. presto'.uid = uids + 1 /\ presto'.gen = 1
    BY <1>5 DEF CreatePresto
  <2>2. seen.uid # uids + 1 /\ local.uid # uids + 1
    BY <1>4 DEF BuildInv, CopiesInv
  <2>3. presto'.gen # 0 /\ seen'.uid # presto'.uid /\ local'.uid # presto'.uid
    BY <1>2, <2>1, <2>2
  <2>4. GenInv' /\ StoredUuidInv'
    BY Zenon, <2>3 DEF GenInv, StoredUuidInv, Unused
  <2>5. Awake'
    BY Zenon, <1>1, <2>3 DEF Awake
  <2> QED BY <1>3, <2>4, <2>5 DEF RestInv
<1>6. ASSUME NEW spec \in Specs, EditSpec(spec) PROVE RestInv'
  <2>1. /\ presto'.uid = presto.uid /\ presto'.gen = presto.gen + 1
        /\ presto'.status = presto.status /\ Exists(presto)
    BY Zenon, <1>4, <1>6 DEF EditSpec, PrestoType
  <2>2. seen.uid = presto.uid => seen.gen <= presto.gen
    BY <2>1 DEF RestInv, GenInv
  <2> DEFINE g == presto.gen
  <2>3. g \in Nat /\ presto'.gen = g + 1 /\ seen'.gen = seen.gen /\ seen'.uid = seen.uid
    BY Zenon, <1>2, <1>4, <2>1
  <2>4. /\ g + 1 # 0
        /\ seen.uid = presto.uid => seen.gen <= g + 1 /\ seen.gen # g + 1
    <3> HIDE DEF g
    <3>1. \A a, b \in Nat : b + 1 # 0 /\ (a <= b => a <= b + 1 /\ a # b + 1)
      OBVIOUS
    <3>2. seen.uid = presto.uid => seen.gen <= g
      BY <2>2 DEF g
    <3> QED BY Zenon, <1>4, <2>3, <3>1, <3>2
  <2> HIDE DEF g
  <2>5. GenInv'
    BY Zenon, <2>1, <2>3, <2>4 DEF GenInv
  <2>6. StoredUuidInv'
    BY <1>2, <2>1 DEF RestInv, StoredUuidInv, Unused, Working, uuid, Exists
  <2>7. seen'.uid # presto'.uid \/ seen'.gen # presto'.gen
    BY Zenon, <2>1, <2>3, <2>4
  <2>8. Awake'
    BY Zenon, <1>1, <2>7 DEF Awake, GenerationChanged
  <2> QED BY <1>3, <2>5, <2>6, <2>8 DEF RestInv
<1>7. ASSUME NEW labels \in SUBSET Labels, Relabel(labels) PROVE RestInv'
  <2>1. /\ presto'.uid = presto.uid /\ presto'.gen = presto.gen
        /\ presto'.status = presto.status /\ presto'.spec = presto.spec
    BY <1>4, <1>7 DEF Relabel, PrestoType
  <2>2. GenInv'
    BY Zenon, <1>2, <2>1 DEF RestInv, GenInv, Exists
  <2>3. StoredUuidInv'
    BY <1>2, <2>1 DEF RestInv, StoredUuidInv, Unused, Working, uuid, Exists
  <2>4. SameMandatory /\ SamePresto
    BY <1>1, <2>1 DEF SameMandatory, SamePresto
  <2>5. ~Awake' => ~Awake
    BY <1>1, <1>2, <2>1 DEF Awake, GenerationChanged
  <2>6. up' = "up" /\ ~Awake' => AtPoint'
    BY <1>2, <2>4, <2>5, PointKept DEF RestInv
  <2> QED BY <1>3, <2>2, <2>3, <2>6 DEF RestInv
<1>8. CASE DeletePresto
  <2>1. presto'.uid = 0 /\ presto'.gen = 0
    BY <1>8 DEF DeletePresto, NoPresto
  <2>2. GenInv' /\ StoredUuidInv'
    BY <2>1 DEF GenInv, StoredUuidInv, Exists
  <2>3. Awake'
    BY <1>1, <2>1 DEF Awake, GenerationChanged
  <2> QED BY <1>3, <2>2, <2>3 DEF RestInv
<1> QED BY <1>5, <1>6, <1>7, <1>8

LEMMA OutsideKeepsRest ==
  ASSUME RestInv, BuildInv, TypeOK, Outside PROVE RestInv'
<1>1. CASE \E o \in objs : DeleteOwned(o)
  BY <1>1, RemoveKeepsRest DEF DeleteOwned
<1>2. CASE CollectGarbage
  <2>1. {o \in objs : o.uid # presto.uid} \in SUBSET objs
    OBVIOUS
  <2> QED BY <1>2, <2>1, RemoveKeepsRest DEF CollectGarbage
<1>3. CASE \E h, o \in objs : HpaScales(h, o)
  BY <1>3, WriteKeepsRest DEF HpaScales
<1>4. CASE \E o \in objs : ReplicaSetReports(o)
  BY <1>4, WriteKeepsRest DEF ReplicaSetReports
<1> QED BY <1>1, <1>2, <1>3, <1>4, UserKeepsRest DEF Outside

LEMMA NextRest ==
  ASSUME RestInv, BuildInv, TypeOK, [Next]_vars PROVE RestInv'
<1>1. CASE Reconcile \/ AssignUuid \/ UpdateStatus \/ ReconcileNotFound
  BY <1>1, ReconcileKeepsRest, AssignUuidKeepsRest, UpdateStatusKeepsRest,
     NotFoundKeepsRest
<1>2. CASE ReconcileGetFails \/ Tick \/ UNCHANGED vars
  <2>1. /\ UNCHANGED <<presto, objs, made, seen, listed, behind, up, thread>>
        /\ queued' \in {queued, TRUE}
    BY Zenon, <1>2 DEF ReconcileGetFails, Tick, vars, store, caches, process, thread
  <2> QED BY Zenon, <2>1, QueueKeepsRest
<1>3. CASE HpaPanics \/ Crash
  BY <1>3, StopKeepsRest DEF HpaPanics, Crash, store
<1>4. CASE DeliverPresto \/ (\E K \in Informers : DeliverOwned(K)) \/ Restart
  BY <1>4, DeliverPrestoKeepsRest, DeliverOwnedKeepsRest, RestartKeepsRest
<1> QED BY <1>1, <1>2, <1>3, <1>4, StagesKeepRest, OutsideKeepsRest
        DEF Next, Reconciler, Stages

\* Once an object of a cluster exists, the events of the watches bring the cluster
\* to its end without the periodic event: whenever the operator has no request
\* and no change to deliver, every object but the headless service is there, with
\* as many workers as the spec says. This holds for any interleaving of edits,
\* deletions, lost answers, conflicts, crashes and cache lag, although the
\* predicate drops updates of the status and every stage reads a cache.
THEOREM WatchesSuffice == Spec => []NoStall
<1>1. Init => RestInv
  <2>1. ASSUME Init PROVE RestInv
    <3>1. /\ objs = {} /\ listed = {} /\ ~Exists(presto) /\ pc = "idle"
      BY <2>1 DEF Init, Exists, NoPresto
    <3> QED BY Zenon, <3>1 DEF RestInv, CacheInv, GenInv, StoredUuidInv, AtPoint,
                               Complete
  <2> QED BY <2>1
<1>2. RestInv /\ BuildInv /\ TypeOK /\ [Next]_vars => RestInv'
  BY NextRest
<1>3. RestInv => NoStall
  <2>1. Quiet => up = "up" /\ pc = "idle" /\ ~Awake
    BY DEF Quiet, Awake
  <2> QED BY <2>1 DEF RestInv, AtPoint, Complete, NoStall
<1> QED BY <1>1, <1>2, <1>3, TypeCorrect, BuildInvariant, PTL DEF Spec

=============================================================================

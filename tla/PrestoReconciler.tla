--------------------------- MODULE PrestoReconciler ---------------------------
(***************************************************************************)
(* The reconcile loop of the Presto operator for one Presto name           *)
(* (presto_controller.go and the stage functions it calls), running        *)
(* against the Kubernetes API server.                                      *)
(*                                                                         *)
(* The operator's client reads informer caches and writes to the API       *)
(* server.  A cache lags: it is brought up to date, and the watch event is *)
(* queued, by the Deliver actions.  One step of the reconciler is one      *)
(* write to the API server together with the cached reads just before it,  *)
(* or one cached read; other actors move between any two steps.            *)
(***************************************************************************)
EXTENDS PrestoKinds, Naturals, FiniteSets

CONSTANTS
  Specs,       \* the values of Presto.Spec the users write
  Labels,      \* the labels the users may put on the Presto
  Phases,      \* the phases the coordinator pod is observed in
  MaxUid,      \* bound: how often the Presto is created under its name
  MaxNames,    \* bound: objects of one kind and cluster known at one time
  MaxEdits,    \* bound: spec edits, relabellings and deletions by users
  MaxFaults,   \* bound: calls to the API server that return an error
  MaxCrashes,  \* bound: crashes of the operator that it did not cause itself
  MaxDeletes,  \* bound: objects of the cluster that users delete
  MaxChurn,    \* bound: writes to ReplicaSets by other controllers
  MaxRaces     \* bound: periodic events and garbage collections while a
               \* reconcile or a delivery is still under way

(***************************************************************************)
(* Presto.Spec.  min, max and cpu are the three pointers of                *)
(* worker.autoscaling, 0 for nil (the CRD's minimum is 1).  invalid is the *)
(* set of stages that refuse the spec (unsupported service type,           *)
(* incomplete HTTPS settings, reserved properties, quantities that do not  *)
(* parse); nothing in the spec makes the headless service or the catalogs  *)
(* fail.                                                                   *)
(***************************************************************************)
Refusing == {ExternalSvc, CoordConf, WorkerConf, CoordRS, WorkerRS}
SpecType == [count: Nat, enabled: BOOLEAN, min: Nat, max: Nat, cpu: Nat,
             invalid: SUBSET Refusing]

ASSUME SpecsAssumption == Specs \subseteq SpecType
ASSUME BoundsAssumption ==
  /\ MaxUid \in Nat /\ MaxNames \in Nat /\ MaxEdits \in Nat
  /\ MaxFaults \in Nat /\ MaxCrashes \in Nat /\ MaxDeletes \in Nat
  /\ MaxChurn \in Nat /\ MaxRaces \in Nat
ASSUME PhasesAssumption ==
  Phases \subseteq {"Pending", "Running", "Failed", "Unknown"}

(***************************************************************************)
(* PrestoStatus: uuid 0 is the empty string; names[k] is the uuid in the   *)
(* recorded name of object k, 0 if none is recorded; addr stands for       *)
(* CoordinatorAddress: the uuid and the instance of the external service   *)
(* whose IP and ports it shows; desired is DesiredWorkers.                 *)
(***************************************************************************)
States     == {"", "Pending", "Failed", "Ready", "Unknown"}
NoAddress  == <<0, 0>>
StatusType == [uuid: Nat, names: [Kinds -> Nat], addr: Nat \X Nat,
               state: States, desired: Nat]
EmptyStatus == [uuid |-> 0, names |-> [k \in Kinds |-> 0], addr |-> NoAddress,
                state |-> "", desired |-> 0]

\* A Presto object; uid 0 stands for "no such object".
PrestoType == [uid: Nat, gen: Nat, labels: SUBSET Labels,
               spec: SpecType, status: StatusType]
NoSpec   == [count |-> 0, enabled |-> FALSE, min |-> 0, max |-> 0, cpu |-> 0,
             invalid |-> {}]
NoPresto == [uid |-> 0, gen |-> 0, labels |-> {}, spec |-> NoSpec,
             status |-> EmptyStatus]
Exists(p) == p.uid # 0

(***************************************************************************)
(* An owned object: the UID in its owner reference, the cluster uuid in    *)
(* its labels and name, n the instance (the generated suffix of a replica  *)
(* set's name, the cluster IP of a service), the spec it was built from.   *)
(* target is the instance of the worker replica set an HPA scales.         *)
(***************************************************************************)
ObjectType == [kind: Kinds, uid: Nat, uuid: Nat, n: Nat, spec: SpecType,
               replicas: Nat, target: Nat]
NoObject == [kind |-> WorkerRS, uid |-> 0, uuid |-> 0, n |-> 0,
             spec |-> NoSpec, replicas |-> 0, target |-> 0]
Id(o)    == <<o.kind, o.uuid, o.n>>
PrestoId == <<0, 0, 0>>

\* ClusterUpdateAction, and what its caller does after updateStatus.
UpdateType == [name: 0..8, value: Nat, num: Nat, state: States,
               next: {"done", "error", "next"}]
Update(k, v, num, state, next) ==
  [name |-> k, value |-> v, num |-> num, state |-> state, next |-> next]
NoUpdate == Update(0, 0, 0, "", "done")
Failure  == Update(0, 0, 0, "Failed", "error")

VARIABLES
  presto,      \* API server: the Presto
  objs,        \* API server: the objects owned by it or by an earlier one
  seen,        \* informer cache: the Presto
  listed,      \* informer caches: the owned objects
  behind,      \* identities whose cached version is not the stored one
  queued,      \* the work queue holds a request for the Presto
  registered,  \* registeredPrestos holds the Presto
  up,          \* the operator process: "up", "down", or "panicked"
  pc, at,      \* the reconciler: its next call, and the stage it is at
  local,       \* the variable presto of Reconcile
  wrs,         \* the variable workerReplicaSet of Reconcile
  upd,         \* the argument of the updateStatus call about to be made
  uids,        \* number of Presto objects created so far
  issued,      \* number of cluster uuids stored so far
  made,        \* history: <<kind, uid, uuid>> of every object ever stored
  budget       \* what is left of the bounds

vars == <<presto, objs, seen, listed, behind, queued, registered, up, pc, at,
          local, wrs, upd, uids, issued, made, budget>>
store   == <<presto, objs, issued, made>>
caches  == <<seen, listed>>
process == <<registered, up>>
thread  == <<pc, at, local, wrs, upd>>

Pcs == {"idle", "uuid", "stage", "relist", "final", "status"}
Bounds == {"edits", "faults", "crashes", "deletes", "churn", "races"}

TypeOK ==
  /\ presto \in PrestoType /\ seen \in PrestoType /\ local \in PrestoType
  /\ objs \subseteq ObjectType /\ listed \subseteq ObjectType
  /\ wrs \in ObjectType /\ upd \in UpdateType
  /\ behind \subseteq Nat \X Nat \X Nat
  /\ made \subseteq Kinds \X Nat \X Nat
  /\ queued \in BOOLEAN /\ registered \in BOOLEAN
  /\ up \in {"up", "down", "panicked"}
  /\ pc \in Pcs /\ at \in 0..8
  /\ uids \in Nat /\ issued \in Nat
  /\ budget \in [Bounds -> Nat]

InitialBudget ==
  [edits |-> MaxEdits, faults |-> MaxFaults, crashes |-> MaxCrashes,
   deletes |-> MaxDeletes, churn |-> MaxChurn, races |-> MaxRaces]

Init ==
  /\ presto = NoPresto /\ seen = NoPresto /\ local = NoPresto
  /\ objs = {} /\ listed = {} /\ behind = {} /\ made = {}
  /\ queued = FALSE /\ registered = FALSE /\ up = "up"
  /\ pc = "idle" /\ at = 0 /\ wrs = NoObject /\ upd = NoUpdate
  /\ uids = 0 /\ issued = 0
  /\ budget = InitialBudget

Spend(b) == budget[b] > 0 /\ budget' = [budget EXCEPT ![b] = @ - 1]

\* Acting while a reconcile or a delivery is under way is bounded.
Race == IF pc = "idle" /\ behind = {} THEN UNCHANGED budget ELSE Spend("races")

-----------------------------------------------------------------------------
(***************************************************************************)
(* Starting and ending a reconcile.                                        *)
(***************************************************************************)

ClearThread == /\ pc' = "idle" /\ at' = 0
               /\ local' = NoPresto /\ wrs' = NoObject /\ upd' = NoUpdate

(***************************************************************************)
(* Reconcile returns.  The controller queues the request again if it       *)
(* returned an error; a result with RequeueAfter 0 and no error drops it.  *)
(***************************************************************************)
ReturnDropped(failed) == ClearThread /\ UNCHANGED queued   \* mutant
Return(failed) == ClearThread /\ queued' = (queued \/ failed)

\* Reconcile generates a uuid only if the status has none.
NeedsUuidAgain(p) == p.status.uuid = 0 \/ p.status.state = "Failed"   \* mutant
NeedsUuid(p) == p.status.uuid = 0

\* Reconcile fetches the Presto, registers it, and looks at its uuid.
Reconcile ==
  /\ up = "up" /\ pc = "idle" /\ queued /\ Exists(seen)
  /\ queued' = FALSE /\ registered' = TRUE
  /\ local' = seen
  /\ IF NeedsUuid(seen)
       THEN pc' = "uuid" /\ at' = 0
       ELSE pc' = "stage" /\ at' = Headless
  /\ UNCHANGED <<store, caches, behind, up, wrs, upd, uids, budget>>

\* Mutant: the deleted Presto stays registered.
ReconcileIgnoresNotFound ==
  /\ up = "up" /\ pc = "idle" /\ queued /\ ~Exists(seen)
  /\ queued' = FALSE
  /\ UNCHANGED <<store, caches, behind, process, thread, uids, budget>>

\* Reconcile finds no Presto: unregister.
ReconcileNotFound ==
  /\ up = "up" /\ pc = "idle" /\ queued /\ ~Exists(seen)
  /\ queued' = FALSE /\ registered' = FALSE
  /\ UNCHANGED <<store, caches, behind, up, thread, uids, budget>>

\* Reconcile cannot read the Presto: the request is queued again.
ReconcileGetFails ==
  /\ up = "up" /\ pc = "idle" /\ queued
  /\ Spend("faults")
  /\ UNCHANGED <<store, caches, behind, queued, process, thread, uids>>

(***************************************************************************)
(* getPresto and Status().Update: the copy that is written back is read    *)
(* from the cache again, by name and by the labels of the local copy.  The *)
(* API server accepts it only if its resource version is the stored one.   *)
(* A local copy used because the cache has none is never current.          *)
(***************************************************************************)
StatusAccepted ==
  /\ Exists(seen) /\ local.labels \subseteq seen.labels
  /\ PrestoId \notin behind

StoreStatus(status) ==
  /\ presto' = [presto EXCEPT !.status = status]
  /\ behind' = behind \cup {PrestoId}

\* uuid.New: never the same twice.
UuidOfName == 1                                            \* mutant
NewUuid == issued + 1

\* Reconcile gives the cluster a new uuid; lost: the answer does not arrive.
AssignUuid ==
  /\ pc = "uuid"
  /\ \/ /\ StatusAccepted
        /\ StoreStatus([seen.status EXCEPT !.uuid = NewUuid])
        /\ issued' = issued + 1
        /\ \/ Return(FALSE) /\ UNCHANGED budget
           \/ Return(TRUE) /\ Spend("faults")
     \/ /\ ~StatusAccepted
        /\ Return(TRUE)
        /\ UNCHANGED <<presto, behind, issued, budget>>
     \/ /\ Spend("faults") /\ Return(TRUE)
        /\ UNCHANGED <<presto, behind, issued>>
  /\ UNCHANGED <<objs, made, caches, process, uids>>

\* Mutants: the name goes into the next field, or the copy written back starts
\* out empty or from the local one.
AppliedToNext(status, u) ==
  [status EXCEPT
     !.names = [k \in Kinds |-> IF k = u.name + 1 THEN u.value
                                                 ELSE status.names[k]],
     !.state = u.state]
AppliedToEmpty(status, u) ==
  [EmptyStatus EXCEPT
     !.names = [k \in Kinds |-> IF k = u.name THEN u.value ELSE 0],
     !.state = u.state]
AppliedToLocal(status, u) ==
  [local.status EXCEPT
     !.names = [k \in Kinds |-> IF k = u.name THEN u.value
                                              ELSE local.status.names[k]],
     !.addr  = IF u.name = ExternalSvc THEN <<u.value, u.num>> ELSE @,
     !.state = u.state]

\* The assignments of updateStatus for an update u.
Applied(status, u) ==
  [status EXCEPT
     !.names   = [k \in Kinds |-> IF k = u.name THEN u.value
                                               ELSE status.names[k]],
     !.addr    = IF u.name = ExternalSvc THEN <<u.value, u.num>> ELSE @,
     !.desired = IF u.name = WorkerRS THEN u.num ELSE @,
     !.state   = u.state]

\* updateStatus called from a stage; every such caller ignores its error.
UpdateStatus ==
  /\ pc = "status"
  /\ \/ /\ StatusAccepted
        /\ StoreStatus(Applied(seen.status, upd))
        /\ UNCHANGED budget
     \/ /\ ~StatusAccepted /\ UNCHANGED <<presto, behind, budget>>
     \/ /\ Spend("faults") /\ UNCHANGED <<presto, behind>>
  /\ \/ upd.next = "done"  /\ Return(FALSE)
     \/ upd.next = "error" /\ Return(TRUE)
     \/ /\ upd.next = "next"
        /\ pc' = "stage" /\ at' = CoordConf /\ upd' = NoUpdate
        /\ UNCHANGED <<queued, local, wrs>>
  /\ UNCHANGED <<objs, issued, made, caches, process, uids>>

-----------------------------------------------------------------------------
(***************************************************************************)
(* The stages.  Each lists its objects in the cache and, if it finds none, *)
(* creates one; Reconcile goes on to the next stage only if the stage      *)
(* changed nothing.                                                        *)
(***************************************************************************)

AtStage(k) == pc = "stage" /\ at = k
uuid       == local.status.uuid
Listed(K)  == {o \in listed : o.kind \in K /\ o.uuid = uuid}

Proceed(k) == pc' = "stage" /\ at' = k /\ UNCHANGED <<local, wrs, upd>>
Post(u)    == pc' = "status" /\ upd' = u /\ UNCHANGED <<at, local, wrs>>
Fail       == Post(Failure)

\* What a stage reports of the object it created.
Created(k) == Update(k, uuid, 0, "Pending", "done")

(***************************************************************************)
(* Create.  Replica sets get a generated name; for the other kinds the     *)
(* name is a function of the uuid and the API server refuses a second      *)
(* object.                                                                 *)
(***************************************************************************)
NameTaken(k) == \E o \in objs : o.kind = k /\ o.uuid = uuid

InstancesInUse(k) ==
  {o.n : o \in {x \in objs \cup listed : x.kind = k /\ x.uuid = uuid}}
    \cup IF k = WorkerRS THEN {h.target : h \in objs \cup listed} ELSE {}
    \cup IF k = ExternalSvc
         THEN {n \in 1..MaxNames : presto.status.addr = <<uuid, n>>} ELSE {}

StoreObject(k, replicas, target) ==
  \E n \in 1..MaxNames :
    LET o == [kind |-> k, uid |-> local.uid, uuid |-> uuid, n |-> n,
              spec |-> local.spec, replicas |-> replicas, target |-> target]
    IN /\ n \notin InstancesInUse(k)
       /\ \A m \in 1..(n - 1) : m \in InstancesInUse(k)
       /\ objs' = objs \cup {o}
       /\ made' = made \cup {<<k, local.uid, uuid>>}
       /\ behind' = behind \cup {Id(o)}

\* Create an object of kind k and go on with Then, unless the answer is lost.
Create(k, replicas, target, Then) ==
  /\ StoreObject(k, replicas, target)
  /\ \/ Then /\ UNCHANGED budget
     \/ Fail /\ Spend("faults")

\* The same for a service or a config map, whose name may be taken.
CreateNamed(k, Then) ==
  \/ ~NameTaken(k) /\ Create(k, 0, 0, Then)
  \/ NameTaken(k) /\ Fail /\ UNCHANGED <<objs, made, behind, budget>>

StoreUnchanged == UNCHANGED <<objs, made, behind, budget>>
StageFrame == UNCHANGED <<presto, issued, caches, process, uids>>

\* Mutants: the error is ignored, and the object reported or taken for present.
StageCallReported ==
  /\ pc \in {"stage", "relist"} /\ Spend("faults") /\ Post(Created(at))
  /\ UNCHANGED <<objs, made, behind, queued>> /\ StageFrame
StageCallSkipped ==
  /\ pc = "stage" /\ at < HPA /\ Spend("faults") /\ Proceed(at + 1)
  /\ UNCHANGED <<objs, made, behind, queued>> /\ StageFrame

\* A list, create, update or delete of the stage fails without an effect.
StageCallFails ==
  /\ pc \in {"stage", "relist"} /\ Spend("faults") /\ Fail
  /\ UNCHANGED <<objs, made, behind, queued>> /\ StageFrame

(***************************************************************************)
(* The list is by the label pod-discovery only, which the external service *)
(* carries too: createOrGetService adds its label to the same map.         *)
(***************************************************************************)
HeadlessServiceConfig ==
  /\ AtStage(Headless)
  /\ \/ /\ Listed({Headless, ExternalSvc}) # {}
        /\ Proceed(ExternalSvc) /\ StoreUnchanged
     \/ /\ Listed({Headless, ExternalSvc}) = {}
        /\ CreateNamed(Headless, Post(Created(Headless)))
  /\ UNCHANGED queued /\ StageFrame

Found(o, next) == Update(ExternalSvc, uuid, o.n, "Pending", next)

\* Mutant: a service that exists is taken to have been reported.
ServiceConfigOnce ==
  /\ AtStage(ExternalSvc)
  /\ \/ /\ ExternalSvc \in local.spec.invalid
        /\ Fail /\ StoreUnchanged
     \/ /\ ExternalSvc \notin local.spec.invalid
        /\ Listed({ExternalSvc}) # {} /\ Proceed(CoordConf) /\ StoreUnchanged
     \/ /\ ExternalSvc \notin local.spec.invalid
        /\ Listed({ExternalSvc}) = {}
        /\ CreateNamed(ExternalSvc,
                       pc' = "relist" /\ UNCHANGED <<at, local, wrs, upd>>)
  /\ UNCHANGED queued /\ StageFrame

\* Mutant: the type of the service is checked only when it is to be created.
ServiceLookedUpFirst ==
  /\ AtStage(ExternalSvc)
  /\ \/ /\ \E o \in Listed({ExternalSvc}) :
             IF local.status.addr = NoAddress THEN Post(Found(o, "next"))
                                              ELSE Proceed(CoordConf)
        /\ StoreUnchanged
     \/ /\ Listed({ExternalSvc}) = {} /\ ExternalSvc \in local.spec.invalid
        /\ Fail /\ StoreUnchanged
     \/ /\ Listed({ExternalSvc}) = {} /\ ExternalSvc \notin local.spec.invalid
        /\ CreateNamed(ExternalSvc,
                       pc' = "relist" /\ UNCHANGED <<at, local, wrs, upd>>)
  /\ UNCHANGED queued /\ StageFrame

ServiceConfig ==
  /\ AtStage(ExternalSvc)
  /\ \/ /\ ExternalSvc \in local.spec.invalid
        /\ Fail /\ StoreUnchanged
     \/ /\ ExternalSvc \notin local.spec.invalid
        /\ \E o \in Listed({ExternalSvc}) :
             IF local.status.addr = NoAddress THEN Post(Found(o, "next"))
                                              ELSE Proceed(CoordConf)
        /\ StoreUnchanged
     \/ /\ ExternalSvc \notin local.spec.invalid
        /\ Listed({ExternalSvc}) = {}
        /\ CreateNamed(ExternalSvc,
                       pc' = "relist" /\ UNCHANGED <<at, local, wrs, upd>>)
  /\ UNCHANGED queued /\ StageFrame

\* createOrGetService reads the service it created back from the cache.
RelistService ==
  /\ pc = "relist"
  /\ \/ \E o \in Listed({ExternalSvc}) : Post(Found(o, "done"))
     \/ /\ Listed({ExternalSvc}) = {}
        /\ Post(Update(0, 0, 0, "Pending", "done"))
  /\ StoreUnchanged /\ UNCHANGED queued /\ StageFrame

\* createConfigMap looks for the name among the config maps with the labels.
ConfigMapsLabelled(k) == Listed({CoordConf, WorkerConf, CatalogConf})  \* mutant
ConfigMapsNamed(k) == Listed({k})

\* The content is built, and may be refused, before the map is looked up.
ConfigMapStage(k) ==
  /\ AtStage(k)
  /\ \/ /\ k \in local.spec.invalid
        /\ Fail /\ StoreUnchanged
     \/ /\ k \notin local.spec.invalid
        /\ ConfigMapsNamed(k) # {}
        /\ Proceed(k + 1) /\ StoreUnchanged
     \/ /\ k \notin local.spec.invalid
        /\ ConfigMapsNamed(k) = {}
        /\ CreateNamed(k, Post(Created(k)))
  /\ UNCHANGED queued /\ StageFrame

CoordinatorConfig == ConfigMapStage(CoordConf)
WorkerConfig      == ConfigMapStage(WorkerConf)
CatalogConfig     == ConfigMapStage(CatalogConf)

\* A replica set's template is built only when it has to be created.
CoordinatorReplicaset ==
  /\ AtStage(CoordRS)
  /\ \/ /\ Listed({CoordRS}) # {}
        /\ Proceed(WorkerRS) /\ StoreUnchanged
     \/ /\ Listed({CoordRS}) = {} /\ CoordRS \in local.spec.invalid
        /\ Fail /\ StoreUnchanged
     \/ /\ Listed({CoordRS}) = {} /\ CoordRS \notin local.spec.invalid
        /\ Create(CoordRS, 1, 0, Post(Created(CoordRS)))
  /\ UNCHANGED queued /\ StageFrame

WorkersOfSpec(replicas, state) ==                          \* mutant
  Update(WorkerRS, uuid, local.spec.count, state, "done")
Workers(replicas, state) == Update(WorkerRS, uuid, replicas, state, "done")

(***************************************************************************)
(* Update of an object read from the cache: the API server accepts it only *)
(* if the cached resource version is the stored one.                       *)
(***************************************************************************)
UpdateObject(o, new, Then) ==
  \/ /\ Id(o) \notin behind
     /\ objs' = (objs \ {o}) \cup {new}
     /\ behind' = behind \cup {Id(o)}
     /\ \/ Then /\ UNCHANGED budget
        \/ Fail /\ UNCHANGED queued /\ Spend("faults")
     /\ UNCHANGED made
  \/ /\ Id(o) \in behind                   \* Conflict, or NotFound
     /\ Fail /\ UNCHANGED queued /\ StoreUnchanged

\* The spec sets the number of workers unless autoscaling is on.
ResizeUp(o) == ~local.spec.enabled /\ local.spec.count > o.replicas   \* mutant
Resize(o) == ~local.spec.enabled /\ local.spec.count # o.replicas

WorkerReplicaset ==
  /\ AtStage(WorkerRS)
  /\ \/ \E o \in Listed({WorkerRS}) :
          \/ /\ ~Resize(o)
             /\ pc' = "stage" /\ at' = HPA /\ wrs' = o
             /\ UNCHANGED <<queued, local, upd>> /\ StoreUnchanged
          \/ /\ Resize(o)
             /\ UpdateObject(o, [o EXCEPT !.replicas = local.spec.count],
                             Post(Workers(local.spec.count, "Pending"))
                               /\ UNCHANGED queued)
     \/ /\ Listed({WorkerRS}) = {} /\ WorkerRS \in local.spec.invalid
        /\ Fail /\ UNCHANGED queued /\ StoreUnchanged
     \/ /\ Listed({WorkerRS}) = {} /\ WorkerRS \notin local.spec.invalid
        /\ Create(WorkerRS, local.spec.count, 0,
                  Post(Workers(local.spec.count, "Pending")))
        /\ UNCHANGED queued
  /\ StageFrame

\* The process ends: its queue, registrations and caches are gone.
Stop(how) ==
  /\ up' = how /\ queued' = FALSE /\ registered' = FALSE
  /\ seen' = NoPresto /\ listed' = {} /\ behind' = {}
  /\ ClearThread

(***************************************************************************)
(* autoscaleSpecChanged dereferences max, min and cpu, in this order and   *)
(* as far as the comparisons so far found no difference.                   *)
(***************************************************************************)
DereferencesNil(h, s) ==
  \/ s.max = 0
  \/ h.spec.max = s.max /\ s.min = 0
  \/ h.spec.max = s.max /\ h.spec.min = s.min /\ s.cpu = 0

AutoscaleMaxChanged(h, s) == h.spec.max # s.max            \* mutant
AutoscaleSpecChanged(h, s) ==
  h.spec.max # s.max \/ h.spec.min # s.min \/ h.spec.cpu # s.cpu

\* createHPASpec refuses nil; the API server refuses max below min.
HpaSpecAccepted(s) == s.min > 0 /\ s.max > 0 /\ s.cpu > 0 /\ s.min <= s.max

\* Nothing recovers the panic of a reconcile: the process ends.
HpaPanics ==
  /\ AtStage(HPA) /\ local.spec.enabled
  /\ \E h \in Listed({HPA}) : DereferencesNil(h, local.spec)
  /\ Stop("panicked")
  /\ UNCHANGED <<store, uids, budget>>

DeleteHpa ==
  LET stored == {o \in objs : o.kind = HPA /\ o.uuid = uuid}
  IN \/ /\ stored # {}
        /\ objs' = objs \ stored
        /\ behind' = behind \cup {Id(o) : o \in stored}
        /\ \/ Post(Update(HPA, 0, 0, "Pending", "done")) /\ UNCHANGED budget
           \/ Fail /\ Spend("faults")
        /\ UNCHANGED made
     \/ /\ stored = {}
        /\ Fail /\ StoreUnchanged

\* No status update follows an update of the HPA.
HpaReplicaset ==
  /\ AtStage(HPA)
  /\ \/ \E h \in Listed({HPA}) :
          /\ local.spec.enabled /\ ~DereferencesNil(h, local.spec)
          /\ \/ /\ ~AutoscaleSpecChanged(h, local.spec)
                /\ pc' = "final" /\ UNCHANGED <<queued, at, local, wrs, upd>>
                /\ StoreUnchanged
             \/ /\ AutoscaleSpecChanged(h, local.spec)
                /\ HpaSpecAccepted(local.spec)
                /\ UpdateObject(h, [h EXCEPT !.spec = local.spec,
                                             !.target = wrs.n],
                                Return(FALSE))
             \/ /\ AutoscaleSpecChanged(h, local.spec)
                /\ ~HpaSpecAccepted(local.spec)
                /\ Fail /\ UNCHANGED queued /\ StoreUnchanged
     \/ /\ Listed({HPA}) # {} /\ ~local.spec.enabled
        /\ DeleteHpa /\ UNCHANGED queued
     \/ /\ Listed({HPA}) = {} /\ ~local.spec.enabled
        /\ pc' = "final" /\ UNCHANGED <<queued, at, local, wrs, upd>>
        /\ StoreUnchanged
     \/ /\ Listed({HPA}) = {} /\ local.spec.enabled
        /\ \/ ~HpaSpecAccepted(local.spec) /\ Fail /\ StoreUnchanged
           \/ /\ HpaSpecAccepted(local.spec) /\ NameTaken(HPA)
              /\ Post(Created(HPA)) /\ StoreUnchanged    \* AlreadyExists
           \/ /\ HpaSpecAccepted(local.spec) /\ ~NameTaken(HPA)
              /\ Create(HPA, 0, wrs.n, Post(Created(HPA)))
        /\ UNCHANGED queued
  /\ StageFrame

PhaseItself(phase) == phase                                \* mutant
StateOfPhase(phase) == IF phase = "Running" THEN "Ready" ELSE phase

\* All stages passed: report the phase of the coordinator pod.
ReportPhase ==
  /\ pc = "final"
  /\ \E phase \in Phases : Post(Workers(wrs.replicas, StateOfPhase(phase)))
  /\ StoreUnchanged /\ UNCHANGED queued /\ StageFrame

Reconciler ==
  \/ Reconcile \/ ReconcileNotFound \/ ReconcileGetFails
  \/ AssignUuid \/ UpdateStatus \/ StageCallFails
  \/ HeadlessServiceConfig \/ ServiceConfig \/ RelistService
  \/ CoordinatorConfig \/ WorkerConfig \/ CatalogConfig
  \/ CoordinatorReplicaset \/ WorkerReplicaset
  \/ HpaReplicaset \/ HpaPanics \/ ReportPhase

-----------------------------------------------------------------------------
(***************************************************************************)
(* Events: the informers, their watches (add), and the periodic event.     *)
(***************************************************************************)

\* GenerationChangedPredicate.Update.
GenerationChanged(old, new) == ~(new.gen = old.gen /\ new.gen # 0)

DeliverPresto ==
  /\ up = "up" /\ PrestoId \in behind
  /\ seen' = presto
  /\ behind' = behind \ {PrestoId}
  /\ queued' = (queued \/ seen.uid # presto.uid \/ GenerationChanged(seen, presto))
  /\ UNCHANGED <<store, listed, process, thread, uids, budget>>

\* One informer per resource type; no watch is set on the autoscalers.
Informers == {{Headless, ExternalSvc}, {CoordConf, WorkerConf, CatalogConf},
              {CoordRS, WorkerRS}, {HPA}}

DeliverOwned(K) ==
  /\ up = "up" /\ \E id \in behind : id[1] \in K
  /\ listed' = {o \in listed : o.kind \notin K} \cup {o \in objs : o.kind \in K}
  /\ behind' = {id \in behind : id[1] \notin K}
  /\ queued' = (queued \/ K # {HPA})
  /\ UNCHANGED <<store, seen, process, thread, uids, budget>>

\* Mutant: periodic events only for a Presto whose state has been reported.
TickOnceReported ==
  /\ up = "up" /\ registered /\ ~queued /\ seen.status.state # ""
  /\ queued' = TRUE
  /\ Race
  /\ UNCHANGED <<store, caches, behind, process, thread, uids>>

\* The goroutine of newReconciler sends an event for a registered Presto.
Tick ==
  /\ up = "up" /\ registered /\ ~queued
  /\ queued' = TRUE
  /\ Race
  /\ UNCHANGED <<store, caches, behind, process, thread, uids>>

Crash ==
  /\ up = "up" /\ Spend("crashes") /\ Stop("down")
  /\ UNCHANGED <<store, uids>>

\* The informers list everything and report it as created.
Restart ==
  /\ up # "up" /\ up' = "up"
  /\ seen' = presto /\ listed' = objs /\ behind' = {}
  /\ queued' = (Exists(presto) \/ \E o \in objs : o.kind # HPA)
  /\ UNCHANGED <<store, registered, thread, uids, budget>>

-----------------------------------------------------------------------------
(***************************************************************************)
(* Users and the other controllers of the cluster.                         *)
(***************************************************************************)

OutsideFrame == UNCHANGED <<caches, queued, process, thread, issued, made>>

CreatePresto(spec, labels) ==
  /\ ~Exists(presto) /\ uids < MaxUid
  /\ uids' = uids + 1
  /\ presto' = [uid |-> uids + 1, gen |-> 1, labels |-> labels, spec |-> spec,
                status |-> EmptyStatus]
  /\ behind' = behind \cup {PrestoId}
  /\ UNCHANGED <<objs, budget>> /\ OutsideFrame

EditSpec(spec) ==
  /\ Exists(presto) /\ spec # presto.spec /\ Spend("edits")
  /\ presto' = [presto EXCEPT !.spec = spec, !.gen = @ + 1]
  /\ behind' = behind \cup {PrestoId}
  /\ UNCHANGED <<objs, uids>> /\ OutsideFrame

Relabel(labels) ==
  /\ Exists(presto) /\ labels # presto.labels /\ Spend("edits")
  /\ presto' = [presto EXCEPT !.labels = labels]
  /\ behind' = behind \cup {PrestoId}
  /\ UNCHANGED <<objs, uids>> /\ OutsideFrame

DeletePresto ==
  /\ Exists(presto) /\ Spend("edits")
  /\ presto' = NoPresto
  /\ behind' = behind \cup {PrestoId}
  /\ UNCHANGED <<objs, uids>> /\ OutsideFrame

Remove(O) ==
  /\ O # {}
  /\ objs' = objs \ O
  /\ behind' = behind \cup {Id(o) : o \in O}
  /\ UNCHANGED <<presto, uids>> /\ OutsideFrame

DeleteOwned(o) == Spend("deletes") /\ Remove({o})

\* The garbage collector removes the objects whose owner no longer exists.
CollectGarbage ==
  Remove({o \in objs : o.uid # presto.uid}) /\ Race

WriteReplicaSet(o, replicas) ==
  /\ Spend("churn")
  /\ objs' = (objs \ {o}) \cup {[o EXCEPT !.replicas = replicas]}
  /\ behind' = behind \cup {Id(o)}
  /\ UNCHANGED <<presto, uids>> /\ OutsideFrame

\* The autoscaler sets the size of the replica set it targets.
HpaScales(h, o) ==
  /\ h.kind = HPA /\ o.kind = WorkerRS /\ h.uuid = o.uuid /\ h.target = o.n
  /\ \E m \in h.spec.min..h.spec.max :
       m # o.replicas /\ WriteReplicaSet(o, m)

\* The replica set controller updates the status of a worker replica set.
ReplicaSetReports(o) == o.kind = WorkerRS /\ WriteReplicaSet(o, o.replicas)

Outside ==
  \/ \E spec \in Specs, labels \in SUBSET Labels : CreatePresto(spec, labels)
  \/ \E spec \in Specs : EditSpec(spec)
  \/ \E labels \in SUBSET Labels : Relabel(labels)
  \/ DeletePresto
  \/ \E o \in objs : DeleteOwned(o)
  \/ CollectGarbage
  \/ \E h, o \in objs : HpaScales(h, o)
  \/ \E o \in objs : ReplicaSetReports(o)

Next ==
  \/ Reconciler
  \/ DeliverPresto \/ (\E K \in Informers : DeliverOwned(K))
  \/ Tick \/ Crash \/ Restart
  \/ Outside

Spec == Init /\ [][Next]_vars

(***************************************************************************)
(* The controller's worker, the informers, the ticker and the garbage      *)
(* collector keep running, and the operator's deployment restarts its      *)
(* process.  Users, failures and other controllers owe nothing.            *)
(***************************************************************************)
Fairness ==
  /\ WF_vars(Reconciler) /\ WF_vars(DeliverPresto)
  /\ \A K \in Informers : WF_vars(DeliverOwned(K))
  /\ WF_vars(Tick) /\ WF_vars(Restart)
  /\ WF_vars(CollectGarbage)

FairSpec == Spec /\ Fairness

-----------------------------------------------------------------------------
(***************************************************************************)
(* Safety.                                                                 *)
(***************************************************************************)

\* No object is created before every object that Reconcile handles earlier
\* has been created for the same Presto and the same uuid: a pod never starts
\* without the services and config maps it uses, whatever the caches showed.
BuildOrder ==
  \A m \in made : \A k \in Mandatory :
    k < m[1] => <<k, m[2], m[3]>> \in made

\* The status names an object only if such an object has been created, although
\* updateStatus writes into a copy that is not the one its caller looked at.
StatusNamesMade ==
  \A k \in Kinds :
    presto.status.names[k] # 0 =>
      \E m \in made : m[1] = k /\ m[3] = presto.status.names[k]

\* Ready is reported only after all seven objects of one cluster of a Presto of
\* this name were created, although every stage reads a cache that lags.
ReadyMeansBuilt ==
  presto.status.state = "Ready" =>
    \E m \in made : \A k \in Mandatory : <<k, m[2], m[3]>> \in made

\* The objects that carry one uuid belong to one Presto object, also when the
\* Presto is deleted and created again while a reconcile is under way.
UuidHasOneOwner ==
  \A m1, m2 \in made : m1[3] = m2[3] => m1[2] = m2[2]

\* Once an object has been created for a Presto, the uuid in the status of this
\* Presto never changes again, although AssignUuid writes into a fresh copy
\* without looking at its uuid.
UuidStableOnceBuilt ==
  [][ (/\ presto'.uid = presto.uid
       /\ presto'.status.uuid # presto.status.uuid)
      => \A m \in made : m[2] # presto.uid ]_vars

\* AssignUuid may replace a uuid that the copy it tested did not show yet, and a
\* lagging cache may then still lead to objects under the old one.  It happens
\* once at most: the objects ever created for a Presto carry at most two uuids.
AtMostTwoUuids ==
  \A m1, m2, m3 \in made :
    m1[2] = m2[2] /\ m2[2] = m3[2] =>
      m1[3] = m2[3] \/ m2[3] = m3[3] \/ m1[3] = m3[3]

\* m was created for the Presto that exists now, under the uuid it has now.
Present(m) == m[2] = presto.uid /\ m[3] = presto.status.uuid

\* The operator never goes back to a deleted Presto or to a replaced uuid: once
\* an object has been created for the Presto that exists now, under the uuid that
\* its status has now, all further objects are created for them.
NoWayBack ==
  [][ (\E m \in made : Present(m)) => \A m \in made' \ made : Present(m) ]_vars

\* registeredPrestos neither leaks a deleted Presto nor misses a live one: unless
\* a request is waiting, it holds the Presto exactly if the cache does.
RegistrationTracksCache ==
  up = "up" /\ ~queued => (registered <=> Exists(seen))

\* Nothing is under way: no request, no undelivered change.
Quiet == up = "up" /\ pc = "idle" /\ ~queued /\ behind = {}

Owned(k) == {o \in objs : o.kind = k /\ o.uid = presto.uid
                                     /\ o.uuid = presto.status.uuid}

Address(o) == <<o.uuid, o.n>>

\* Once the status shows the address of the cluster's own external service, no
\* later write replaces it while the service exists: neither one computed for a
\* deleted Presto or a replaced uuid, nor one into a copy older than the address.
AddressKept ==
  [][ \A o \in Owned(ExternalSvc) :
        presto.status.addr = Address(o) /\ o \in objs' /\ presto'.uid = presto.uid
          => presto'.status.addr = Address(o) ]_vars

\* Once an object of the cluster exists, the watches alone drive the rest: the
\* operator never comes to rest, waiting for the periodic event, with an object
\* missing (the headless service aside) or the wrong number of workers.
NoStall ==
  (/\ Quiet /\ Exists(presto)
   /\ \E k \in Mandatory : Owned(k) # {})
  => /\ \A k \in Mandatory \ {Headless} : Owned(k) # {}
     /\ ~presto.spec.enabled =>
          \E o \in Owned(WorkerRS) : o.replicas = presto.spec.count

\* The spec is checked again in every reconcile, before the stage looks for what
\* it made: nothing is created or updated from a spec that a service or config
\* map stage before it refuses, although earlier objects hide what it refuses.
Checked == ExternalSvc..WorkerConf
AcceptedSpecsOnly ==
  \A o \in objs : \A k \in Checked : k <= o.kind => k \notin o.spec.invalid

-----------------------------------------------------------------------------
(***************************************************************************)
(* Liveness, under FairSpec.                                               *)
(***************************************************************************)

\* No stage refuses the spec.
Valid(s) == s.invalid = {} /\ (s.enabled => HpaSpecAccepted(s))

\* A Presto that stays gets the objects of all stages before the first that
\* refuses its spec, under the uuid in its status, whatever failed, was edited or
\* deleted on the way (a deleted headless service aside).
ClusterBuilt ==
  <>[](Exists(presto) =>
         \A k \in Mandatory : presto.spec.invalid \cap 1..k = {} =>
           /\ <<k, presto.uid, presto.status.uuid>> \in made
           /\ k # Headless => Owned(k) # {})

\* CoordinatorAddress does not stay empty, although the service that was just
\* created is rarely in the cache that is read back, and the error of the status
\* update is ignored.
AddressRecorded ==
  <>[](Exists(presto) /\ Valid(presto.spec) => presto.status.addr # NoAddress)

\* The autoscaler follows the spec: it exists exactly if autoscaling is on, with
\* the bounds of the spec, although no watch is set on autoscalers.
AutoscalerFollowsSpec ==
  <>[](Exists(presto) /\ Valid(presto.spec) =>
         IF presto.spec.enabled
           THEN \E h \in Owned(HPA) :
                  \A f \in {"min", "max", "cpu"} : h.spec[f] = presto.spec[f]
           ELSE Owned(HPA) = {})

\* DesiredWorkers comes to be the size of the worker replica set, whoever sets
\* it, although the error of the status update is ignored.
WorkersReported ==
  <>[](Exists(presto) /\ Valid(presto.spec) =>
         \E o \in Owned(WorkerRS) : presto.status.desired = o.replicas)

\* A deleted Presto leaves nothing behind: its objects are collected, also
\* those a reconcile created after the deletion, and it is unregistered.
DeletionCleansUp ==
  <>[](~Exists(presto) => objs = {} /\ ~registered)

-----------------------------------------------------------------------------
(***************************************************************************)
(* Statements of the documentation and of comments that do not hold.       *)
(***************************************************************************)

\* presto_pods.go: "If the resource doesn't exist, we'll create it".
OneCoordinator ==
  \A o1, o2 \in objs :
    o1.kind = CoordRS /\ o2.kind = CoordRS /\ o1.uid = o2.uid => o1 = o2

\* docs/autoscaling.md: the autoscaler scales the workers of the cluster up and
\* down, so it comes to target a worker replica set of the cluster.
AutoscalerTargetsWorkers ==
  <>[](Exists(presto) /\ Valid(presto.spec) /\ presto.spec.enabled =>
         \E h \in Owned(HPA), o \in Owned(WorkerRS) : h.target = o.n)

\* docs/status.md: the status of a Ready cluster names all its objects.
NamesRecorded ==
  <>[](Exists(presto) =>
         \A k \in Mandatory : presto.status.names[k] = presto.status.uuid)

\* docs/status.md: the address that the status shows is the coordinator's, so it
\* comes to be that of the cluster's own external service.
AddressOfCluster ==
  <>[](Exists(presto) /\ presto.status.addr # NoAddress =>
         \E o \in Owned(ExternalSvc) : presto.status.addr = Address(o))

\* hpa_handler.go: a missing bound is reported as an error.
MissingBoundReported == up # "panicked"

\* docs/service.md: a headless service lets workers discover the coordinator.
HeadlessServiceKept ==
  Quiet /\ Exists(presto) /\ Owned(WorkerRS) # {} => Owned(Headless) # {}

=============================================================================

------------------------ MODULE PrestoChecked_proofs ------------------------
(***************************************************************************)
(* Proof that nothing is built from a spec that an earlier stage refuses,  *)
(* for every set of specs and every value of the bounds.                   *)
(***************************************************************************)
EXTENDS PrestoReconciler_proofs

\* The checking stages up to the kind of an object accept its spec.
Fits(kind, spec) == \A k \in Checked : k <= kind => k \notin spec.invalid
AllFit(O) == \A o \in O : Fits(o.kind, o.spec)

\* This reconcile has passed the checking stages before n.
Passed(n) == \A k \in Checked : k < n => k \notin local.spec.invalid

\* The stage a reconcile has come to vouches for the spec it works with; its
\* caches hold nothing worse than the API server did.
ThreadChecked ==
  /\ pc = "stage" => Passed(at)
  /\ pc = "status" /\ upd.next = "next" => Passed(CoordConf)

CheckedInv == AllFit(objs) /\ AllFit(listed) /\ ThreadChecked

-----------------------------------------------------------------------------
\* After the stages of the config maps nothing is left to check.
LEMMA AllPassed ==
  ASSUME NEW n \in CoordRS..HPA, Passed(n)
  PROVE  \A m \in Nat : Passed(m) /\ Fits(m, local.spec)
<1>1. \A k \in Checked : k \notin local.spec.invalid
  BY DEF Passed, Checked, CoordRS, HPA, ExternalSvc, WorkerConf
<1> QED BY <1>1 DEF Passed, Fits

\* A stage that accepts the spec vouches for its own object and the next stage.
LEMMA NextPassed ==
  ASSUME NEW k \in Nat, Passed(k), k \notin local.spec.invalid
  PROVE  Passed(k + 1) /\ Fits(k, local.spec)
<1>1. \A j \in Checked : j \in Nat
  BY DEF Checked, ExternalSvc, WorkerConf
<1>2. \A j \in Nat : (j < k + 1 <=> j <= k) /\ (j <= k <=> j < k \/ j = k)
  OBVIOUS
<1> QED BY <1>1, <1>2 DEF Passed, Fits

LEMMA StoreFits ==
  ASSUME NEW k, NEW r, NEW t, AllFit(objs), Fits(k, local.spec),
         StoreObject(k, r, t)
  PROVE  AllFit(objs')
<1>1. PICK n \in 1..MaxNames :
        objs' = objs \cup {[kind |-> k, uid |-> local.uid, uuid |-> uuid, n |-> n,
                            spec |-> local.spec, replicas |-> r, target |-> t]}
  BY DEF StoreObject
<1> QED BY <1>1 DEF AllFit

\* A failed call ends the stages of this reconcile.
LEMMA FailChecked == ASSUME Fail PROVE ThreadChecked'
  BY DEF Fail, Post, Failure, Update, ThreadChecked

LEMMA DoneChecked ==
  ASSUME NEW k, NEW v, NEW n, NEW s, Post(Update(k, v, n, s, "done"))
  PROVE  ThreadChecked'
  BY DEF Post, Update, ThreadChecked

LEMMA ClearChecked == ASSUME ClearThread PROVE ThreadChecked'
  BY DEF ClearThread, ThreadChecked

LEMMA ProceedChecked ==
  ASSUME NEW k, Passed(k), Proceed(k) PROVE ThreadChecked'
  BY DEF Proceed, Passed, ThreadChecked

\* The stages.
StageKeeps == AllFit(objs') /\ UNCHANGED listed /\ ThreadChecked'

LEMMA HeadlessChecked ==
  ASSUME CheckedInv, HeadlessServiceConfig PROVE StageKeeps
<1>1. AllFit(objs) /\ UNCHANGED listed
  BY DEF CheckedInv, HeadlessServiceConfig, StageFrame, caches
<1>2. Fits(Headless, local.spec) /\ Passed(ExternalSvc)
  BY DEF Fits, Passed, Checked, Headless, ExternalSvc, WorkerConf
<1>3. CASE Proceed(ExternalSvc) /\ StoreUnchanged
  BY <1>1, <1>2, <1>3, ProceedChecked DEF StageKeeps, StoreUnchanged, AllFit
<1>4. CASE CreateNamed(Headless, Post(Created(Headless)))
  <2>1. CASE Fail /\ UNCHANGED objs
    BY <1>1, <2>1, FailChecked DEF StageKeeps, AllFit
  <2>2. CASE StoreObject(Headless, 0, 0) /\ (Fail \/ Post(Created(Headless)))
    BY <1>1, <1>2, <2>2, StoreFits, FailChecked, DoneChecked
       DEF StageKeeps, Created
  <2> QED BY <1>4, <2>1, <2>2 DEF CreateNamed, Create
<1> QED BY <1>3, <1>4 DEF HeadlessServiceConfig

LEMMA ServiceChecked == ASSUME CheckedInv, ServiceConfig PROVE StageKeeps
<1>1. AllFit(objs) /\ UNCHANGED listed /\ Passed(ExternalSvc)
  BY DEF CheckedInv, ThreadChecked, ServiceConfig, AtStage, StageFrame, caches
<1>2. CASE Fail /\ UNCHANGED objs
  BY <1>1, <1>2, FailChecked DEF StageKeeps, AllFit
<1>3. CASE ExternalSvc \notin local.spec.invalid
  <2>1. Fits(ExternalSvc, local.spec) /\ Passed(CoordConf)
    <3>1. ExternalSvc \in Nat /\ ExternalSvc + 1 = CoordConf
      BY DEF ExternalSvc, CoordConf
    <3> QED BY <1>1, <1>3, <3>1, NextPassed
  <2>2. CASE Proceed(CoordConf) /\ StoreUnchanged
    BY <1>1, <2>1, <2>2, ProceedChecked DEF StageKeeps, StoreUnchanged, AllFit
  <2>3. ASSUME NEW o, Post(Found(o, "next")), StoreUnchanged PROVE StageKeeps
    <3>1. pc' = "status" /\ UNCHANGED local /\ UNCHANGED objs
      BY <2>3 DEF Post, StoreUnchanged
    <3> QED BY <1>1, <2>1, <3>1 DEF StageKeeps, ThreadChecked, Passed, AllFit
  <2>4. CASE StoreObject(ExternalSvc, 0, 0) /\ (Fail \/ pc' = "relist")
    <3>1. AllFit(objs')
      BY <1>1, <2>1, <2>4, StoreFits
    <3>2. ThreadChecked'
      BY <2>4, FailChecked DEF ThreadChecked
    <3> QED BY <1>1, <3>1, <3>2 DEF StageKeeps
  <2>5. \/ \E o : Post(Found(o, "next")) /\ StoreUnchanged
        \/ Proceed(CoordConf) /\ StoreUnchanged
        \/ CreateNamed(ExternalSvc,
                       pc' = "relist" /\ UNCHANGED <<at, local, wrs, upd>>)
    BY Zenon, <1>3 DEF ServiceConfig
  <2> QED BY <1>2, <2>2, <2>3, <2>4, <2>5 DEF CreateNamed, Create
<1> QED BY <1>2, <1>3 DEF ServiceConfig, StoreUnchanged

LEMMA RelistChecked == ASSUME CheckedInv, RelistService PROVE StageKeeps
<1>1. AllFit(objs) /\ UNCHANGED <<listed, objs>>
  BY DEF CheckedInv, RelistService, StoreUnchanged, StageFrame, caches
<1>2. ThreadChecked'
  BY DoneChecked DEF RelistService, Found
<1> QED BY <1>1, <1>2 DEF StageKeeps, AllFit

LEMMA ConfigMapChecked ==
  ASSUME NEW k \in {CoordConf, WorkerConf, CatalogConf},
         CheckedInv, ConfigMapStage(k)
  PROVE  StageKeeps
<1>1. AllFit(objs) /\ UNCHANGED listed /\ Passed(k)
  BY DEF CheckedInv, ThreadChecked, ConfigMapStage, AtStage, StageFrame, caches
<1>2. CASE Fail /\ UNCHANGED objs
  BY <1>1, <1>2, FailChecked DEF StageKeeps, AllFit
<1>3. CASE k \notin local.spec.invalid
  <2>1. Fits(k, local.spec) /\ Passed(k + 1)
    <3>1. k \in Nat
      BY DEF CoordConf, WorkerConf, CatalogConf
    <3> QED BY <1>1, <1>3, <3>1, NextPassed
  <2>2. CASE Proceed(k + 1) /\ StoreUnchanged
    BY <1>1, <2>1, <2>2, ProceedChecked DEF StageKeeps, StoreUnchanged, AllFit
  <2>3. CASE StoreObject(k, 0, 0) /\ (Fail \/ Post(Created(k)))
    BY <1>1, <2>1, <2>3, StoreFits, FailChecked, DoneChecked
       DEF StageKeeps, Created
  <2> QED BY <1>2, <1>3, <2>2, <2>3 DEF ConfigMapStage, CreateNamed, Create
<1> QED BY <1>2, <1>3 DEF ConfigMapStage, StoreUnchanged

LEMMA CoordinatorChecked ==
  ASSUME CheckedInv, CoordinatorReplicaset PROVE StageKeeps
<1>1. AllFit(objs) /\ UNCHANGED listed /\ Passed(CoordRS)
  BY DEF CheckedInv, ThreadChecked, CoordinatorReplicaset, AtStage, StageFrame,
         caches
<1>2. Fits(CoordRS, local.spec) /\ Passed(WorkerRS)
  <2>1. CoordRS \in CoordRS..HPA /\ CoordRS \in Nat /\ WorkerRS \in Nat
    BY DEF CoordRS, WorkerRS, HPA
  <2> QED BY <1>1, <2>1, AllPassed
<1>3. CASE Fail /\ UNCHANGED objs
  BY <1>1, <1>3, FailChecked DEF StageKeeps, AllFit
<1>4. CASE Proceed(WorkerRS) /\ StoreUnchanged
  BY <1>1, <1>2, <1>4, ProceedChecked DEF StageKeeps, StoreUnchanged, AllFit
<1>5. CASE StoreObject(CoordRS, 1, 0) /\ (Fail \/ Post(Created(CoordRS)))
  BY <1>1, <1>2, <1>5, StoreFits, FailChecked, DoneChecked DEF StageKeeps, Created
<1> QED BY <1>3, <1>4, <1>5 DEF CoordinatorReplicaset, Create, StoreUnchanged

\* An update writes back the object of the cache with what the stage changed.
LEMMA UpdateFits ==
  ASSUME NEW o, NEW new, AllFit(objs), Fits(new.kind, new.spec),
         objs' = (objs \ {o}) \cup {new}
  PROVE  AllFit(objs')
  BY DEF AllFit

LEMMA WorkerChecked ==
  ASSUME CheckedInv, TypeOK, WorkerReplicaset PROVE StageKeeps
<1>1. AllFit(objs) /\ AllFit(listed) /\ UNCHANGED listed /\ Passed(WorkerRS)
  BY DEF CheckedInv, ThreadChecked, WorkerReplicaset, AtStage, StageFrame, caches
<1>2. Fits(WorkerRS, local.spec) /\ Passed(HPA)
  <2>1. WorkerRS \in CoordRS..HPA /\ HPA \in Nat /\ WorkerRS \in Nat
    BY DEF CoordRS, WorkerRS, HPA
  <2> QED BY <1>1, <2>1, AllPassed
<1>3. CASE Fail /\ UNCHANGED objs
  BY <1>1, <1>3, FailChecked DEF StageKeeps, AllFit
<1>4. CASE pc' = "stage" /\ at' = HPA /\ UNCHANGED local /\ StoreUnchanged
  BY <1>1, <1>2, <1>4 DEF StageKeeps, ThreadChecked, Passed, StoreUnchanged, AllFit
<1>5. CASE /\ StoreObject(WorkerRS, local.spec.count, 0)
           /\ Fail \/ Post(Workers(local.spec.count, "Pending"))
  BY <1>1, <1>2, <1>5, StoreFits, FailChecked, DoneChecked DEF StageKeeps, Workers
<1>6. ASSUME NEW o \in Listed({WorkerRS}),
             objs' = (objs \ {o}) \cup {[o EXCEPT !.replicas = local.spec.count]},
             Fail \/ Post(Workers(local.spec.count, "Pending"))
      PROVE  StageKeeps
  <2> DEFINE new == [o EXCEPT !.replicas = local.spec.count]
  <2>1. o \in ObjectType /\ Fits(o.kind, o.spec)
    BY <1>1, <1>6 DEF TypeOK, Listed, AllFit
  <2>2. new.kind = o.kind /\ new.spec = o.spec
    BY <2>1 DEF ObjectType
  <2>3. AllFit(objs')
    BY Zenon, <1>1, <1>6, <2>1, <2>2, UpdateFits
  <2>4. ThreadChecked'
    BY <1>6, FailChecked, DoneChecked DEF Workers
  <2> QED BY <1>1, <2>3, <2>4 DEF StageKeeps
<1>7. CASE \E o \in Listed({WorkerRS}) :
             \/ /\ pc' = "stage" /\ at' = HPA
                /\ UNCHANGED local /\ StoreUnchanged
             \/ UpdateObject(o, [o EXCEPT !.replicas = local.spec.count],
                             Post(Workers(local.spec.count, "Pending"))
                               /\ UNCHANGED queued)
  BY <1>3, <1>4, <1>6, <1>7 DEF UpdateObject, StoreUnchanged
<1> QED BY Zenon, <1>3, <1>5, <1>7 DEF WorkerReplicaset, Create, StoreUnchanged

LEMMA HpaChecked ==
  ASSUME CheckedInv, TypeOK, HpaReplicaset PROVE StageKeeps
<1>1. AllFit(objs) /\ AllFit(listed) /\ UNCHANGED listed /\ Passed(HPA)
  BY Zenon DEF CheckedInv, ThreadChecked, HpaReplicaset, AtStage, StageFrame, caches
<1>2. \A m \in Nat : Fits(m, local.spec)
  <2>1. HPA \in CoordRS..HPA
    BY DEF CoordRS, HPA
  <2> QED BY <1>1, <2>1, AllPassed
<1>3. CASE Fail /\ UNCHANGED objs
  BY <1>1, <1>3, FailChecked DEF StageKeeps, AllFit
<1>4. CASE pc' = "final" /\ StoreUnchanged
  BY <1>1, <1>4 DEF StageKeeps, ThreadChecked, StoreUnchanged, AllFit
<1>5. CASE Post(Created(HPA)) /\ StoreUnchanged
  BY <1>1, <1>5, DoneChecked DEF StageKeeps, Created, StoreUnchanged, AllFit
<1>6. CASE StoreObject(HPA, 0, wrs.n) /\ (Fail \/ Post(Created(HPA)))
  <2>1. Fits(HPA, local.spec)
    BY <1>2 DEF HPA
  <2> QED BY <1>1, <1>6, <2>1, StoreFits, FailChecked, DoneChecked
          DEF StageKeeps, Created
<1>7. CASE DeleteHpa
  <2>1. AllFit(objs')
    BY <1>1, <1>7 DEF DeleteHpa, StoreUnchanged, AllFit
  <2>2. ThreadChecked'
    BY <1>7, FailChecked, DoneChecked DEF DeleteHpa
  <2> QED BY <1>1, <2>1, <2>2 DEF StageKeeps
<1>8. ASSUME NEW h \in Listed({HPA}),
             UpdateObject(h, [h EXCEPT !.spec = local.spec, !.target = wrs.n],
                          Return(FALSE))
      PROVE  StageKeeps
  <2> DEFINE new == [h EXCEPT !.spec = local.spec, !.target = wrs.n]
  <2>1. h \in ObjectType /\ h.kind \in Nat
    BY <1>8 DEF TypeOK, Listed, ObjectType, Kinds
  <2>2. Fits(new.kind, new.spec)
    <3>1. new.kind = h.kind /\ new.spec = local.spec
      BY <2>1 DEF ObjectType
    <3> QED BY <1>2, <2>1, <3>1
  <2>3. CASE objs' = (objs \ {h}) \cup {new} /\ (Return(FALSE) \/ Fail)
    <3>1. AllFit(objs')
      BY Zenon, <1>1, <2>2, <2>3, UpdateFits
    <3>2. ThreadChecked'
      BY <2>3, FailChecked, ClearChecked DEF Return
    <3> QED BY <1>1, <3>1, <3>2 DEF StageKeeps
  <2> QED BY Zenon, <1>3, <1>8, <2>3 DEF UpdateObject, StoreUnchanged
<1>9. \/ Fail /\ UNCHANGED objs
      \/ pc' = "final" /\ StoreUnchanged
      \/ Post(Created(HPA)) /\ StoreUnchanged
      \/ StoreObject(HPA, 0, wrs.n) /\ (Fail \/ Post(Created(HPA)))
      \/ DeleteHpa
      \/ \E h \in Listed({HPA}) :
           UpdateObject(h, [h EXCEPT !.spec = local.spec, !.target = wrs.n],
                        Return(FALSE))
  BY Zenon DEF HpaReplicaset, Create, StoreUnchanged
<1> QED BY Zenon, <1>3, <1>4, <1>5, <1>6, <1>7, <1>8, <1>9

LEMMA EndChecked == ASSUME CheckedInv, StageCallFails \/ ReportPhase PROVE StageKeeps
<1>1. AllFit(objs) /\ UNCHANGED <<listed, objs>>
  BY DEF CheckedInv, StageCallFails, ReportPhase, StoreUnchanged, StageFrame, caches
<1>2. ThreadChecked'
  BY FailChecked, DoneChecked DEF StageCallFails, ReportPhase, Workers
<1> QED BY <1>1, <1>2 DEF StageKeeps, AllFit

-----------------------------------------------------------------------------
\* The other calls of the reconciler: updateStatus goes on with the copy the
\* stage checked, not with the one it has read again.
LEMMA CallsChecked ==
  ASSUME CheckedInv, Reconcile \/ AssignUuid \/ UpdateStatus
  PROVE  UNCHANGED <<objs, listed>> /\ ThreadChecked'
<1>1. UNCHANGED <<objs, listed>>
  BY Zenon DEF Reconcile, AssignUuid, UpdateStatus, store, caches
<1>2. CASE Reconcile
  <2>1. \A k \in Checked : ~(k < Headless)
    BY DEF Checked, ExternalSvc, WorkerConf, Headless
  <2> QED BY <1>1, <1>2, <2>1 DEF Reconcile, ThreadChecked, Passed
<1>3. CASE AssignUuid
  <2>1. ClearThread
    BY <1>3 DEF AssignUuid, Return
  <2> QED BY <1>1, <2>1, ClearChecked
<1>4. CASE UpdateStatus
  <2>1. CASE ClearThread
    BY <1>1, <2>1, ClearChecked
  <2>2. CASE /\ upd.next = "next" /\ pc' = "stage" /\ at' = CoordConf
             /\ UNCHANGED local
    BY <1>1, <1>4, <2>2 DEF UpdateStatus, CheckedInv, ThreadChecked, Passed
  <2> QED BY <1>4, <2>1, <2>2 DEF UpdateStatus, Return
<1> QED BY <1>1, <1>2, <1>3, <1>4

\* What is left in the store after a step of the others was there before, but
\* for the size of a replica set.
LEMMA OutsideFits ==
  ASSUME AllFit(objs), TypeOK, Outside
  PROVE  AllFit(objs') /\ UNCHANGED listed /\ UNCHANGED thread
<1>1. ASSUME NEW o \in objs, NEW r, WriteReplicaSet(o, r)
      PROVE  AllFit(objs') /\ OutsideFrame
  <2> DEFINE new == [o EXCEPT !.replicas = r]
  <2>1. o \in ObjectType /\ Fits(o.kind, o.spec)
    BY DEF TypeOK, AllFit
  <2>2. new.kind = o.kind /\ new.spec = o.spec
    BY <2>1 DEF ObjectType
  <2>3. objs' = (objs \ {o}) \cup {new} /\ OutsideFrame
    BY <1>1 DEF WriteReplicaSet
  <2> QED BY Zenon, <2>1, <2>2, <2>3, UpdateFits
<1>2. ASSUME NEW O, Remove(O) PROVE AllFit(objs') /\ OutsideFrame
  BY <1>2 DEF Remove, AllFit
<1>3. ASSUME UNCHANGED objs PROVE AllFit(objs')
  BY <1>3 DEF AllFit
<1>4. CASE \/ \E spec \in Specs, labels \in SUBSET Labels : CreatePresto(spec, labels)
           \/ \E spec \in Specs : EditSpec(spec)
           \/ \E labels \in SUBSET Labels : Relabel(labels)
           \/ DeletePresto
  <2>1. UNCHANGED objs /\ OutsideFrame
    BY Zenon, <1>4 DEF CreatePresto, EditSpec, Relabel, DeletePresto
  <2> QED BY <1>3, <2>1 DEF OutsideFrame, caches
<1>5. CASE (\E o \in objs : DeleteOwned(o)) \/ CollectGarbage
  BY Zenon, <1>2, <1>5 DEF DeleteOwned, CollectGarbage, OutsideFrame, caches
<1>6. CASE (\E h, o \in objs : HpaScales(h, o)) \/ \E o \in objs : ReplicaSetReports(o)
  BY <1>1, <1>6 DEF HpaScales, ReplicaSetReports, OutsideFrame, caches
<1> QED BY <1>4, <1>5, <1>6 DEF Outside

\* The caches take over what the API server holds.
LEMMA CachesFit ==
  ASSUME AllFit(objs), AllFit(listed),
         (\E K \in Informers : DeliverOwned(K)) \/ Restart
  PROVE  UNCHANGED <<objs, thread>> /\ AllFit(listed')
<1>1. UNCHANGED <<objs, thread>>
  BY DEF DeliverOwned, Restart, store
<1>2. listed' \subseteq listed \cup objs
  BY DEF DeliverOwned, Restart
<1> QED BY <1>1, <1>2 DEF AllFit

LEMMA ThreadKept == ASSUME ThreadChecked, UNCHANGED thread PROVE ThreadChecked'
  BY DEF ThreadChecked, Passed, thread

LEMMA NextChecked ==
  ASSUME CheckedInv, TypeOK, [Next]_vars PROVE CheckedInv'
<1>1. ASSUME StageKeeps PROVE CheckedInv'
  BY <1>1 DEF CheckedInv, StageKeeps, AllFit
<1>2. ASSUME UNCHANGED <<objs, listed>>, ThreadChecked' PROVE CheckedInv'
  BY <1>2 DEF CheckedInv, AllFit
<1>3. CASE \/ StageCallFails \/ HeadlessServiceConfig \/ ServiceConfig
           \/ RelistService \/ ReportPhase
  BY <1>1, <1>3, EndChecked, HeadlessChecked, ServiceChecked, RelistChecked
<1>4. CASE CoordinatorConfig \/ WorkerConfig \/ CatalogConfig
  BY <1>1, <1>4, ConfigMapChecked DEF CoordinatorConfig, WorkerConfig, CatalogConfig
<1>5. CASE CoordinatorReplicaset \/ WorkerReplicaset \/ HpaReplicaset
  BY <1>1, <1>5, CoordinatorChecked, WorkerChecked, HpaChecked
<1>6. CASE Reconcile \/ AssignUuid \/ UpdateStatus
  BY <1>2, <1>6, CallsChecked
<1>7. CASE \/ ReconcileNotFound \/ ReconcileGetFails \/ DeliverPresto \/ Tick
           \/ UNCHANGED vars
  <2>1. UNCHANGED <<objs, listed>> /\ UNCHANGED thread
    BY <1>7 DEF ReconcileNotFound, ReconcileGetFails, DeliverPresto, Tick, vars,
                store, caches, thread
  <2> QED BY <1>2, <2>1, ThreadKept DEF CheckedInv
<1>8. CASE HpaPanics \/ Crash
  <2>1. UNCHANGED objs /\ listed' = {} /\ ClearThread
    BY <1>8 DEF HpaPanics, Crash, Stop, store
  <2> QED BY <2>1, ClearChecked DEF CheckedInv, AllFit
<1>9. CASE (\E K \in Informers : DeliverOwned(K)) \/ Restart
  <2>1. UNCHANGED objs /\ UNCHANGED thread /\ AllFit(listed')
    BY <1>9, CachesFit DEF CheckedInv
  <2> QED BY <2>1, ThreadKept DEF CheckedInv, AllFit
<1>10. CASE Outside
  <2>1. AllFit(objs') /\ UNCHANGED listed /\ UNCHANGED thread
    BY <1>10, OutsideFits DEF CheckedInv
  <2> QED BY <2>1, ThreadKept DEF CheckedInv, AllFit
<1> QED BY <1>3, <1>4, <1>5, <1>6, <1>7, <1>8, <1>9, <1>10 DEF Next, Reconciler

\* Whatever the caches show and however users edit the spec, no object is created
\* or updated from a spec that a service or config map stage before it refuses:
\* every reconcile builds the content of these objects again before it looks
\* for them.
THEOREM OnlyAcceptedSpecs == Spec => []AcceptedSpecsOnly
<1>1. Init => CheckedInv
  BY DEF Init, CheckedInv, AllFit, ThreadChecked
<1>2. CheckedInv /\ TypeOK /\ [Next]_vars => CheckedInv'
  BY NextChecked
<1>3. CheckedInv => AcceptedSpecsOnly
  BY DEF CheckedInv, AllFit, Fits, AcceptedSpecsOnly
<1> QED BY <1>1, <1>2, <1>3, TypeCorrect, PTL DEF Spec

=============================================================================

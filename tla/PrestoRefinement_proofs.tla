----------------------- MODULE PrestoRefinement_proofs -----------------------
(***************************************************************************)
(* Proof that the reconcile loop implements the lifecycle of               *)
(* PrestoLifecycle.  The steps are judged by what they do to the stored    *)
(* Presto and to the objects made; the invariants of PrestoBuild_proofs    *)
(* say enough about the caches and about the reconcile under way.          *)
(***************************************************************************)
EXTENDS PrestoBuild_proofs, PrestoImplements

\* Both speak of the same kinds.
LEMMA SameKinds == Lifecycle!Kinds = Kinds /\ Lifecycle!Mandatory = Mandatory
  BY DEF Lifecycle!Kinds, Kinds, Lifecycle!Mandatory, Mandatory

LEMMA EmptyMapped ==
  /\ EmptyStatus.uuid = 0 /\ EmptyStatus.state = ""
  /\ EmptyStatus.names = Lifecycle!EmptyNames
<1>1. [k \in Kinds |-> 0] = Lifecycle!EmptyNames
  BY SameKinds DEF Lifecycle!EmptyNames
<1>2. EmptyStatus.names = [k \in Kinds |-> 0]
  BY DEF EmptyStatus
<1> QED BY <1>1, <1>2 DEF EmptyStatus

\* A step that leaves the Presto and the history alone is a stutter.
LEMMA Stutter ==
  ASSUME UNCHANGED <<presto, made>> PROVE UNCHANGED Lifecycle!vars
  BY DEF Lifecycle!vars

\* Objects under one uuid have one owner.
LEMMA OneOwnerHere ==
  ASSUME BuildInv, uuid # 0, NEW m \in made, m[3] = uuid PROVE m[2] = local.uid
<1> DEFINE c == <<m[2], m[3]>>
           d == <<local.uid, local.status.uuid>>
<1>1. c \in Claims /\ d \in Claims
  BY DEF Claims
<1>2. c[1] = m[2] /\ c[2] = m[3] /\ d[1] = local.uid /\ d[2] = local.status.uuid
  OBVIOUS
<1> HIDE DEF c, d
<1> QED BY <1>1, <1>2 DEF BuildInv, UuidInv, uuid

\* A stage builds one object, in order, or leaves the lifecycle alone.
LEMMA StageBuilds ==
  ASSUME StageStart, StageEffect, CaughtUp
  PROVE  [Lifecycle!Next]_(Lifecycle!vars)
<1>1. UNCHANGED presto
  BY DEF StageEffect, StageFrame
<1>2. CASE UNCHANGED made
  BY <1>1, <1>2, Stutter
<1>3. ASSUME NEW k \in Kinds, Before(k),
             made' = made \cup {<<k, local.uid, uuid>>}
      PROVE  Lifecycle!Next
  <2> DEFINE new == <<k, local.uid, uuid>>
  <2>1. new[1] = k /\ new[2] = local.uid /\ new[3] = uuid /\ new \in made'
    BY <1>3
  <2>2. uuid # 0
    BY DEF StageStart, BuildInv, CopiesInv, Working
  <2>3. \A m \in made : m[3] = uuid => m[2] = local.uid
    BY <2>2, OneOwnerHere DEF StageStart
  <2>4. Lifecycle!Begun => local.uid = presto.uid /\ uuid = presto.status.uuid
    BY DEF Lifecycle!Begun, CaughtUp, Present, Matches, StageStart, Working, uuid
  <2>5. Lifecycle!Build(k, local.uid, uuid)
    BY <1>1, <1>3, <2>2, <2>3, <2>4, SameKinds
       DEF Lifecycle!Build, Lifecycle!status, Before, Here
  <2> HIDE DEF new
  <2> QED BY <2>1, <2>5 DEF Lifecycle!Next
<1> QED BY <1>2, <1>3 DEF StageEffect, StoreEffect

\* The uuid is assigned to a Presto for which nothing was made.
LEMMA AssignUuidNames ==
  ASSUME BuildInv, TypeOK, TypeOK', AssignUuid
  PROVE  [Lifecycle!Next]_(Lifecycle!vars)
<1>1. pc = "uuid" /\ UNCHANGED made
  BY DEF AssignUuid
<1>2. CASE UNCHANGED presto
  BY <1>1, <1>2, Stutter
<1>3. CASE StatusAccepted /\ StoreStatus([seen.status EXCEPT !.uuid = NewUuid])
  <2> DEFINE s == [seen.status EXCEPT !.uuid = NewUuid]
  <2>1. /\ seen = presto /\ Exists(presto)
        /\ presto'.uid = presto.uid /\ presto'.status = s
    BY <1>1, <1>3, StatusWritten
  <2>2. /\ s.uuid = issued + 1 /\ s.names = presto.status.names
        /\ s.state = presto.status.state
    <3>1. seen.status \in StatusType
      BY DEF TypeOK, PrestoType
    <3> QED BY <2>1, <3>1 DEF NewUuid, StatusType
  <2> HIDE DEF s
  <2>3. issued \in Nat /\ issued + 1 # 0
    BY DEF TypeOK
  <2>4. \A m \in made : m[3] # issued + 1
    <3> SUFFICES ASSUME NEW m \in made PROVE m[3] # issued + 1
      OBVIOUS
    <3> DEFINE c == <<m[2], m[3]>>
    <3>1. c \in Claims /\ c[2] = m[3]
      BY DEF Claims
    <3> HIDE DEF c
    <3>2. m[3] <= issued
      BY <3>1 DEF BuildInv, UuidInv
    <3>3. m[3] \in Nat
      BY DEF TypeOK
    <3> QED BY <2>3, <3>2, <3>3
  <2>5. \A m \in made : m[2] # presto.uid
    BY <1>1, <1>3, NothingMadeForPresto
  <2>6. Lifecycle!Name
    BY <1>1, <2>1, <2>2, <2>3, <2>4, <2>5
       DEF Lifecycle!Name, Lifecycle!BuiltFor, Exists
  <2> QED BY <2>6 DEF Lifecycle!Next
<1> QED BY Zenon, <1>2, <1>3 DEF AssignUuid

\* updateStatus records what was made.
LEMMA UpdateStatusRecords ==
  ASSUME BuildInv, TypeOK, TypeOK', UpdateStatus
  PROVE  [Lifecycle!Next]_(Lifecycle!vars)
<1>1. pc = "status" /\ Truthful(upd) /\ UNCHANGED made
  BY DEF UpdateStatus, BuildInv, StageInv
<1>2. CASE UNCHANGED presto
  BY <1>1, <1>2, Stutter
<1>3. CASE StatusAccepted /\ StoreStatus(Applied(seen.status, upd))
  <2> DEFINE s == Applied(seen.status, upd)
  <2>1. /\ seen = presto /\ Exists(presto)
        /\ presto'.uid = presto.uid /\ presto'.status = s
    BY <1>1, <1>3, StatusWritten
  <2>2. seen.status \in StatusType
    BY DEF TypeOK, PrestoType
  <2>3. /\ s.uuid = presto.status.uuid /\ s.state = upd.state
        /\ s.names = [k \in Kinds |-> IF k = upd.name THEN upd.value
                                        ELSE presto.status.names[k]]
    BY <2>1, <2>2 DEF Applied, StatusType
  <2> HIDE DEF s
  <2>4. ASSUME NEW k \in Kinds
        PROVE  s.names[k] \in {presto.status.names[k], 0}
                 \cup {m[3] : m \in {x \in made : x[1] = k}}
    <3>1. CASE k # upd.name
      BY <2>3, <3>1
    <3>2. CASE k = upd.name /\ upd.value = 0
      BY <2>3, <3>2
    <3>3. CASE k = upd.name /\ upd.value # 0
      <4>1. k # 0 /\ s.names[k] = upd.value
        BY <2>3, <3>3 DEF Kinds
      <4>2. PICK m \in made : m[1] = k /\ m[3] = upd.value
        BY <1>1, <3>3, <4>1 DEF Truthful
      <4> QED BY <4>1, <4>2
    <3> QED BY <3>1, <3>2, <3>3
  <2>5. s.state = "Ready" => \E m \in made : Lifecycle!Complete(m[2], m[3])
    <3> SUFFICES ASSUME upd.state = "Ready"
                 PROVE  \E m \in made : Lifecycle!Complete(m[2], m[3])
      BY <2>3
    <3> DEFINE w == <<1, local.uid, uuid>>
    <3>1. w[2] = local.uid /\ w[3] = uuid
      OBVIOUS
    <3>2. \A k \in Mandatory : Here(k)
      BY <1>1 DEF Truthful, Before, HPA, Mandatory
    <3>3. w \in made
      BY <3>2 DEF Here, Mandatory
    <3> HIDE DEF w
    <3> QED BY <3>1, <3>2, <3>3, SameKinds DEF Here, Lifecycle!Complete
  <2>6. Lifecycle!Record
    BY <1>1, <2>1, <2>3, <2>4, <2>5, SameKinds DEF Lifecycle!Record, Exists
  <2> QED BY <2>6 DEF Lifecycle!Next
<1> QED BY <1>2, <1>3 DEF UpdateStatus

\* Users make the Presto appear and disappear.
LEMMA OutsideLives ==
  ASSUME BuildInv, TypeOK, Outside PROVE [Lifecycle!Next]_(Lifecycle!vars)
<1>1. ASSUME NEW spec, NEW labels, CreatePresto(spec, labels)
      PROVE  Lifecycle!Appear
  <2>1. /\ presto.uid = 0 /\ presto'.uid = uids + 1 /\ UNCHANGED made
        /\ presto'.status = EmptyStatus
    BY <1>1 DEF CreatePresto, Exists, OutsideFrame
  <2>2. uids \in Nat /\ \A m \in made : m[2] \in Nat /\ m[2] <= uids
    BY DEF TypeOK, BuildInv, MadeInv
  <2>3. \A m \in made : m[2] # uids + 1
    BY <2>2
  <2>4. uids + 1 # 0
    BY <2>2
  <2> QED BY Zenon, <2>1, <2>3, <2>4, EmptyMapped
          DEF Lifecycle!Appear, Lifecycle!BuiltFor, Lifecycle!NothingReported
<1>2. ASSUME DeletePresto PROVE Lifecycle!Disappear
  BY Zenon, <1>2, NoPrestoFields, EmptyMapped
     DEF DeletePresto, OutsideFrame, Exists, Lifecycle!Disappear,
         Lifecycle!NothingReported
<1>3. CASE (\E spec \in Specs : EditSpec(spec))
             \/ (\E labels \in SUBSET Labels : Relabel(labels))
  <2>1. presto \in PrestoType
    BY DEF TypeOK
  <2>2. /\ presto'.uid = presto.uid /\ presto'.status = presto.status
        /\ UNCHANGED made
    BY Zenon, <1>3, <2>1 DEF EditSpec, Relabel, PrestoType, OutsideFrame
  <2> QED BY <2>2 DEF Lifecycle!vars
<1>4. CASE \/ \E o \in objs : DeleteOwned(o)
           \/ CollectGarbage
           \/ \E h, o \in objs : HpaScales(h, o)
           \/ \E o \in objs : ReplicaSetReports(o)
  <2>1. UNCHANGED <<presto, made>>
    BY <1>4 DEF DeleteOwned, CollectGarbage, Remove, HpaScales,
                ReplicaSetReports, WriteReplicaSet, OutsideFrame
  <2> QED BY <2>1, Stutter
<1> QED BY <1>1, <1>2, <1>3, <1>4 DEF Outside, Lifecycle!Next

LEMMA NextLives ==
  ASSUME BuildInv, CaughtUp, TypeOK, TypeOK', [Next]_vars
  PROVE  [Lifecycle!Next]_(Lifecycle!vars)
<1>1. CASE Stages
  BY <1>1, StagesEffect, StageBuilds
<1>2. CASE AssignUuid
  BY <1>2, AssignUuidNames
<1>3. CASE UpdateStatus
  BY <1>3, UpdateStatusRecords
<1>4. CASE Outside
  BY <1>4, OutsideLives
<1>5. CASE \/ Reconcile \/ ReconcileNotFound \/ ReconcileGetFails \/ HpaPanics
           \/ DeliverPresto \/ (\E K \in Informers : DeliverOwned(K))
           \/ Tick \/ Crash \/ Restart \/ UNCHANGED vars
  <2>1. UNCHANGED <<presto, made>>
    BY <1>5 DEF Reconcile, ReconcileNotFound, ReconcileGetFails, HpaPanics,
                DeliverPresto, DeliverOwned, Tick, Crash, Restart, vars, store
  <2> QED BY <2>1, Stutter
<1> QED BY <1>1, <1>2, <1>3, <1>4, <1>5 DEF Next, Reconciler, Stages

LEMMA InitLives == ASSUME Init PROVE Lifecycle!Init
  BY Zenon, NoPrestoFields, EmptyMapped DEF Init, Lifecycle!Init

\* The reconcile loop implements the lifecycle, for every set of specs and any
\* number of Prestos, objects, edits, failures, crashes and races.
THEOREM Implementation == Spec => LifecycleImplemented
<1>1. Init => Lifecycle!Init
  BY InitLives
<1>2. BuildInv /\ CaughtUp /\ TypeOK /\ TypeOK' /\ [Next]_vars
        => [Lifecycle!Next]_(Lifecycle!vars)
  BY NextLives
<1> QED BY <1>1, <1>2, BuildInvariant, CaughtUpInvariant, TypeCorrect, PTL
        DEF Spec, LifecycleImplemented, Lifecycle!Spec

=============================================================================

--------------------------- MODULE PrestoLifecycle ---------------------------
(***************************************************************************)
(* What the operator promises about the clusters of one Presto name, with  *)
(* no cache, no queue and no process: Prestos come and go; the current one *)
(* may be given a uuid as long as nothing was built for it; the objects of *)
(* a cluster are built in the order of the kinds, and for no other cluster *)
(* once the current one has any; and the status records only what was      *)
(* built.                                                                  *)
(***************************************************************************)
EXTENDS PrestoKinds

VARIABLES
  owner,    \* the Presto that exists now, 0 if there is none
  uuid,     \* status.uuid of this Presto, 0 if it is empty
  names,    \* the object names in its status
  state,    \* status.clusterState
  cluster   \* <<kind, owner, uuid>> of every object ever built

vars == <<owner, uuid, names, state, cluster>>
status == <<uuid, names, state>>

EmptyNames == [k \in Kinds |-> 0]
NothingReported == uuid' = 0 /\ names' = EmptyNames /\ state' = ""

Init == /\ owner = 0 /\ uuid = 0 /\ names = EmptyNames /\ state = ""
        /\ cluster = {}

BuiltFor(i) == {m \in cluster : m[2] = i}

\* A Presto is created: it is nobody's earlier owner.
Appear ==
  /\ owner = 0 /\ owner' # 0 /\ BuiltFor(owner') = {}
  /\ NothingReported
  /\ UNCHANGED cluster

Disappear ==
  /\ owner # 0 /\ owner' = 0
  /\ NothingReported
  /\ UNCHANGED cluster

\* The Presto gets a uuid no object carries, before anything is built for it.
Name ==
  /\ owner # 0 /\ BuiltFor(owner) = {}
  /\ uuid' # 0 /\ \A m \in cluster : m[3] # uuid'
  /\ UNCHANGED <<owner, names, state, cluster>>

(***************************************************************************)
(* An object of kind k is built for Presto i under uuid u: after the       *)
(* mandatory objects of the lower kinds, and never under the uuid of       *)
(* another Presto.  Neither i nor u need be the current ones until an      *)
(* object has been built for these.                                        *)
(***************************************************************************)
Begun == \E m \in cluster : m[2] = owner /\ m[3] = uuid

Build(k, i, u) ==
  /\ u # 0
  /\ Begun => i = owner /\ u = uuid
  /\ \A j \in Mandatory : j < k => <<j, i, u>> \in cluster
  /\ \A m \in cluster : m[3] = u => m[2] = i
  /\ cluster' = cluster \cup {<<k, i, u>>}
  /\ UNCHANGED <<owner, status>>

Complete(i, u) == \A k \in Mandatory : <<k, i, u>> \in cluster

\* The status is updated: a name is dropped or is one of an object built, and
\* Ready follows a complete cluster.
Record ==
  /\ owner # 0
  /\ \A k \in Kinds :
       names'[k] \in {names[k], 0} \cup {m[3] : m \in {x \in cluster : x[1] = k}}
  /\ state' = "Ready" => \E m \in cluster : Complete(m[2], m[3])
  /\ UNCHANGED <<owner, uuid, cluster>>

Next ==
  \/ Appear \/ Disappear \/ Name \/ Record
  \/ \E m \in cluster' : Build(m[1], m[2], m[3])

Spec == Init /\ [][Next]_vars

=============================================================================

----------------------------- MODULE PrestoKinds -----------------------------
EXTENDS Naturals

(***************************************************************************)
(* The objects owned by a Presto, numbered in the order in which Reconcile *)
(* handles them.                                                           *)
(***************************************************************************)
Headless    == 1   \* service pod-discovery-<uuid>
ExternalSvc == 2   \* service external-presto-svc-<uuid>
CoordConf   == 3   \* config map coordinatorconfig-<uuid>
WorkerConf  == 4   \* config map workerconfig-<uuid>
CatalogConf == 5   \* config map catalogconfig-<uuid>
CoordRS     == 6   \* replica set with a generated name
WorkerRS    == 7   \* replica set with a generated name
HPA         == 8   \* horizontal pod autoscaler hpa-<uuid>

Kinds     == 1..8
Mandatory == 1..7  \* every cluster has these; the HPA only with autoscaling

=============================================================================

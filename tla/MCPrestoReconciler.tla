------------------------- MODULE MCPrestoReconciler -------------------------
(***************************************************************************)
(* Instances of PrestoReconciler for TLC: the specs the users write, and   *)
(* initial states in which the cluster has been built.                     *)
(***************************************************************************)
EXTENDS PrestoImplements

Workers1 == [count |-> 1, enabled |-> FALSE, min |-> 1, max |-> 2, cpu |-> 1,
             invalid |-> {}]
Workers2 == [Workers1 EXCEPT !.count = 2]
Auto     == [Workers1 EXCEPT !.enabled = TRUE]
Auto2    == [Auto EXCEPT !.min = 2]
NoMin    == [Auto EXCEPT !.min = 0]               \* minReplicas is left out
MinAbove == [Auto EXCEPT !.min = 2, !.max = 1]    \* the API server refuses it
Refused(k) == [Workers1 EXCEPT !.invalid = {k}]

OneSpec     == {Workers1}
\* The build stops at the external service, or at the first config map.
FirstStages == {Refused(ExternalSvc), Refused(CoordConf)}
Services    == {Refused(CoordConf)}
Scalings    == {Workers2, Auto, Auto2, MinAbove, NoMin,
                [Workers1 EXCEPT !.invalid = {CoordRS, WorkerRS}]}
MissingBounds == {Auto, NoMin}

(***************************************************************************)
(* The cluster of Presto 1 is built from spec, reported Ready, and at      *)
(* rest.  Init leads here when no write of the status is refused.          *)
(***************************************************************************)
Built(spec) ==
  LET K     == IF spec.enabled THEN Kinds ELSE Mandatory
      built == {[kind |-> k, uid |-> 1, uuid |-> 1, n |-> 1, spec |-> spec,
                 replicas |-> IF k \in {CoordRS, WorkerRS} THEN 1 ELSE 0,
                 target |-> IF k = HPA THEN 1 ELSE 0] : k \in K}
      p == [uid |-> 1, gen |-> 1, labels |-> {}, spec |-> spec,
            status |-> [uuid |-> 1, addr |-> <<1, 1>>, state |-> "Ready",
                        names |-> [k \in Kinds |-> IF k \in K THEN 1 ELSE 0],
                        desired |-> 1]]
  IN /\ presto = p /\ seen = p /\ objs = built /\ listed = built
     /\ made = {<<k, 1, 1>> : k \in K}
     /\ uids = 1 /\ issued = 1 /\ registered = TRUE
     /\ local = NoPresto /\ behind = {} /\ queued = FALSE /\ up = "up"
     /\ pc = "idle" /\ at = 0 /\ wrs = NoObject /\ upd = NoUpdate

\* With a fixed number of workers, and with an autoscaler.
Settled == Built(Workers1)
Scaled  == Built(Auto)

\* The Presto has just been created.
Fresh ==
  /\ presto = [NoPresto EXCEPT !.uid = 1, !.gen = 1, !.spec = Workers1]
  /\ uids = 1 /\ behind = {PrestoId}
  /\ seen = NoPresto /\ local = NoPresto
  /\ objs = {} /\ listed = {} /\ made = {} /\ issued = 0
  /\ queued = FALSE /\ registered = FALSE /\ up = "up"
  /\ pc = "idle" /\ at = 0 /\ wrs = NoObject /\ upd = NoUpdate

SettledSpec    == Settled /\ budget = InitialBudget /\ [][Next]_vars
ScaledSpec     == Scaled /\ budget = InitialBudget /\ [][Next]_vars
ScaledFairSpec == ScaledSpec /\ Fairness

(***************************************************************************)
(* A cluster that is disturbed: two edits together with a failed call or a *)
(* write of another controller, an edit together with a deleted object, or *)
(* a failed call during the build.                                         *)
(***************************************************************************)
Left(edits, faults, deletes, churn) ==
  budget = [InitialBudget EXCEPT !.edits = edits, !.faults = faults,
                                 !.deletes = deletes, !.churn = churn]
DisturbedInit ==
  \/ (Settled \/ Scaled) /\ Left(2, 1, 0, 0)
  \/ Scaled /\ (Left(2, 0, 0, 1) \/ Left(1, 0, 1, 0))
  \/ Fresh /\ Left(0, 1, 0, 0)
DisturbedFairSpec == DisturbedInit /\ [][Next]_vars /\ Fairness

=============================================================================

--------------------------- MODULE PrestoImplements ---------------------------
(***************************************************************************)
(* The reconcile loop implements the lifecycle of PrestoLifecycle: the     *)
(* abstract state is what the API server holds of the Presto, and the      *)
(* history of the objects created.                                         *)
(***************************************************************************)
EXTENDS PrestoReconciler

Lifecycle == INSTANCE PrestoLifecycle WITH
  owner <- presto.uid, uuid <- presto.status.uuid,
  names <- presto.status.names, state <- presto.status.state,
  cluster <- made

\* Whatever the caches show, and however reconciles, edits, deletions, crashes
\* and lost answers interleave, every step of the operator and of its
\* surroundings is a step of the lifecycle or leaves it alone.
LifecycleImplemented == Lifecycle!Spec

=============================================================================

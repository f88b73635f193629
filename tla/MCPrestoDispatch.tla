-------------------------- MODULE MCPrestoDispatch --------------------------
(***************************************************************************)
(* An instance of PrestoDispatch for TLC.                                  *)
(***************************************************************************)
EXTENDS PrestoDispatch

TwoPrestos == {"p1", "p2"}

=============================================================================

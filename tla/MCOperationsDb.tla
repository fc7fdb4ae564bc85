---------------------------- MODULE MCOperationsDb ----------------------------
(* Instances of OperationsDb for TLC. *)
EXTENDS OperationsDb, TLC

=============================================================================

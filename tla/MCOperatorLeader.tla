-------------------------- MODULE MCOperatorLeader --------------------------
(* OperatorLeader for TLC: the configurations give every constant.         *)
EXTENDS OperatorLeader
=============================================================================

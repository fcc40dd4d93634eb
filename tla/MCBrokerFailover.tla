-------------------------- MODULE MCBrokerFailover --------------------------
(* BrokerFailover for TLC: the configurations give every constant.         *)
EXTENDS BrokerFailover
=============================================================================

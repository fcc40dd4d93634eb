--------------------------- MODULE MCBrokerMaster ---------------------------
(* BrokerMaster for TLC: brokers and coordinators are interchangeable. *)
EXTENDS BrokerMaster, TLC

Symmetry == Permutations(Brokers) \union Permutations(Coordinators)
=============================================================================

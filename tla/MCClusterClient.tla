--------------------------- MODULE MCClusterClient --------------------------
(* ClusterClient for TLC: requests are interchangeable, as are removed     *)
(* proxies.                                                                *)
EXTENDS ClusterClient, TLC

Symmetry == Permutations(Tasks) \union Permutations(Removed)
=============================================================================

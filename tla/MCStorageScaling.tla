-------------------------- MODULE MCStorageScaling --------------------------
(* StorageScaling for TLC. *)
EXTENDS StorageScaling
=============================================================================

-------------------------- MODULE MCEtlJobLifecycle --------------------------
(* Instances of EtlJobLifecycle for TLC: the sizes are in the .cfg files. *)
EXTENDS EtlJobLifecycle
=============================================================================

----------------------------- MODULE MCEtlEngine -----------------------------
(* Instances of EtlEngine for TLC; the .cfg files give the sizes. *)
EXTENDS EtlEngine
=============================================================================

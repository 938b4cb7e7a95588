---------------------------- MODULE MCEngineRpc ----------------------------
(* EngineRpc for TLC. *)
EXTENDS EngineRpc
=============================================================================

---------------------------- MODULE MCEngineNode ----------------------------
(* Two attempts per start, three devices.                                  *)
EXTENDS EngineNode
=============================================================================

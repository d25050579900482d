------------------------- MODULE MCEngineCompaction --------------------------
(* The engine with compaction on small instances. *)
EXTENDS EngineCompaction
==============================================================================

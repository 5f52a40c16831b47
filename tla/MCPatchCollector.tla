-------------------------- MODULE MCPatchCollector --------------------------
(* Small instances of PatchCollector. *)
EXTENDS PatchCollector
=============================================================================

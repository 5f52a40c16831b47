------------------------- MODULE MCArtifactInstall -------------------------
(* Small instances of ArtifactInstall. *)
EXTENDS ArtifactInstall
=============================================================================

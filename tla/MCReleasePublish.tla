-------------------------- MODULE MCReleasePublish --------------------------
(* Small instances of ReleasePublish. *)
EXTENDS ReleasePublish

CONSTANTS p1, p2
=============================================================================

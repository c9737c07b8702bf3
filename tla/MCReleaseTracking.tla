------------------------- MODULE MCReleaseTracking -------------------------
(* The constants of MCReleaseVersioning for ReleaseTracking.               *)
EXTENDS ReleaseTracking, MCReleaseVersioning
=============================================================================

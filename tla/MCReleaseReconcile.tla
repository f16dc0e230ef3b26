------------------------- MODULE MCReleaseReconcile -------------------------
(* The instance of ReleaseReconcile that TLC checks: release.cfg names the  *)
(* runs, the assets and the package.                                        *)
EXTENDS ReleaseReconcile
=============================================================================

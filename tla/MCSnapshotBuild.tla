-------------------------- MODULE MCSnapshotBuild --------------------------
(* SnapshotBuild with three builds and one snapshot from before them.      *)
EXTENDS SnapshotBuild

CONSTANTS build1, build2, build3

MCBuild == {build1, build2, build3}
=============================================================================

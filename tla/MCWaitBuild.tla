---------------------------- MODULE MCWaitBuild ----------------------------
(***************************************************************************)
(* An instance of WaitBuild: three builds, the second somebody else's, and *)
(* a list that shows two.                                                  *)
(***************************************************************************)
EXTENDS WaitBuild

MCBuilds == 1..3
MCOurs == {1, 3}
=============================================================================

----------------------------- MODULE MCBuildRun -----------------------------
(* Instances of BuildRun: commands that succeed with 0 or fail with 23.     *)
EXTENDS BuildRun, TLC

BuildExitCodes == {0, 23}
=============================================================================

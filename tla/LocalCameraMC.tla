--------------------------- MODULE LocalCameraMC ---------------------------
(* Instances of LocalCamera for TLC.                                       *)
EXTENDS LocalCamera, TLC

\* Pids only name processes.
PidSymmetry == Permutations(Pids)
=============================================================================

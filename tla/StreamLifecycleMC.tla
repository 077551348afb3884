-------------------------- MODULE StreamLifecycleMC --------------------------
(* Symmetry for TLC: requests, workers and pids are interchangeable.          *)
EXTENDS StreamLifecycle, TLC

Symmetry ==
  Permutations(Starts) \cup Permutations(Stops)
    \cup Permutations(Workers) \cup Permutations(Pids)
=============================================================================

--------------------------- MODULE PullGatewaysMC ---------------------------
(* Instances of PullGateways for TLC.                                      *)
EXTENDS PullGateways, TLC

\* Threads and channels only tell things apart.
Symmetry == Permutations(Threads) \cup Permutations(Channels)
=============================================================================

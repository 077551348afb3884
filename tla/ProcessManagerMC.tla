-------------------------- MODULE ProcessManagerMC --------------------------
(* Small instances of ProcessManager for TLC. *)
EXTENDS ProcessManager, TLC

\* Ids and pids are interchangeable: the safety properties name none of them.
Symmetry == Permutations(Ids) \cup Permutations(Pids)
=============================================================================

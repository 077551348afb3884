------------------------- MODULE BitrateAllocatorMC -------------------------
(* Two streams under up to two protocols each, at the scale of main.cpp.    *)
EXTENDS BitrateAllocator, TLC

Pictures == {[width |-> 1920, height |-> 1080, fps |-> 30]}

Symmetry == Permutations(StreamKeys)
=============================================================================

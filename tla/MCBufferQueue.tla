--------------------------- MODULE MCBufferQueue ---------------------------
(* BufferQueue on a small instance, with threads and configs as model values. *)
EXTENDS BufferQueue, TLC

ThreadSymmetry == Permutations(Threads)
ConfigSymmetry == Permutations(Configs)
Symmetry == ThreadSymmetry \cup ConfigSymmetry
=============================================================================

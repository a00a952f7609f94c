------------------------ MODULE MCVSyncDistributor ------------------------
(* VSyncDistributor on a small instance; connections are interchangeable. *)
EXTENDS VSyncDistributor, TLC

ConnectionSymmetry == Permutations(Connections)
=============================================================================

--------------------------- MODULE MCDatasetCache ---------------------------
(* Files of two blocks; inodes are interchangeable. *)
EXTENDS DatasetCache, TLC

InodeSymmetry == Permutations(Inodes)
=============================================================================

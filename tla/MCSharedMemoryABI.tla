------------------------- MODULE MCSharedMemoryABI -------------------------
(* SharedMemoryABI on small buffers for TLC. *)
EXTENDS SharedMemoryABI, TLC

Symmetry == Permutations(Writers)
=============================================================================

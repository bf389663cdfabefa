---------------------------- MODULE MCBufferCache ----------------------------
(* Small instances of BufferCache for TLC. *)
EXTENDS BufferCache, TLC

\* Every block on one device.
OneDev == [k \in Blocks |-> CHOOSE d \in Devs : TRUE]

Symmetry == Permutations(Procs) \cup Permutations(Bufs) \cup Permutations(Values)

\* With one device and no u_xablock the blocks are alike, too.
SymmetryOfBlocks == Symmetry \cup Permutations(Blocks)
=============================================================================

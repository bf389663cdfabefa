------------------------------- MODULE MCPipe -------------------------------
EXTENDS Pipe, TLC

Symmetry == Permutations(Procs)

ReadOrWrite == {{"R"}, {"W"}}
=============================================================================

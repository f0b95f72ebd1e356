--------------------------- MODULE MCKernelServer ---------------------------
EXTENDS KernelServer, TLC
CONSTANT x
SomeStreams == {<<x>>, <<x, x, x, x, Newline, x>>}
Symmetry == Permutations(Threads) \cup Permutations(Connections)
=============================================================================

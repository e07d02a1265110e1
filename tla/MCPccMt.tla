------------------------------ MODULE MCPccMt -------------------------------
\* The threads are interchangeable.
EXTENDS PccMt

ThreadSymmetry == Permutations(Thread)
=============================================================================

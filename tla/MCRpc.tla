------------------------------- MODULE MCRpc -------------------------------
EXTENDS Rpc

\* Threads differ only in their names.
ThreadSymmetry == Permutations(Threads)
=============================================================================

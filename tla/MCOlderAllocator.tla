---------------------------- MODULE MCOlderAllocator ----------------------------
\* A small instance of OlderAllocator for TLC.
EXTENDS OlderAllocator

Symmetric == Permutations(Threads)
=============================================================================

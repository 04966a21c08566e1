---------------------------- MODULE MCAllocator ----------------------------
EXTENDS Allocator

Symmetric == Permutations(Threads)
=============================================================================

---------------------------- MODULE MCFileSystem ----------------------------
\* Small instances of FileSystem for TLC.
EXTENDS FileSystemRefinement, TLC

\* malloc returned cleared memory, or memory with a bit set.
Cleared == {{}}
NotCleared == {{2}}

\* The table was written from cleared memory.
ClearedTable == {[mode |-> "none", block |-> 0]}

Symmetric == Permutations(Names)
=============================================================================

------------------------- MODULE FileSystemRefinement -------------------------
(***************************************************************************)
(* The refinement mapping from FileSystem to NameTree.                     *)
(***************************************************************************)
EXTENDS FileSystem

\* A request is done with the write of the inode: the last write of create and
\* mkdir, the first of unlink and rmdir, which hides everything in a directory.
RequestState(w) ==
  IF \/ pc[w] \in {"read entries", "write entries", "read block", "delete entries",
                   "delete inode", "leave"}
     \/ pc[w] = "idle" /\ loc[w].ret = "ok"
  THEN "done"
  ELSE IF pc[w] = "idle" THEN "failed" ELSE "pending"

\* The name has an entry, but the inode is free and nobody is working on it.
IsSpoiled(path) ==
  /\ Exists(Directory(path))
  /\ InodeFromPath(path) > 0
  /\ ~IsUsed(InodeFromPath(path))
  /\ \A w \in Workers : pc[w] # "idle" => loc[w].num # InodeFromPath(path)

\* A name is in the tree when sfs_getattr finds it.
names        == {[path |-> p, kind |-> Kind(p)] : p \in {q \in Paths : Exists(q)}}
spoiledNames == {p \in Paths : IsSpoiled(p)}
requests     == [w \in Workers |-> [call |-> loc[w].call, path |-> loc[w].path,
                                    state |-> RequestState(w)]]

Tree == INSTANCE NameTree
          WITH tree <- names, spoiled <- spoiledNames, request <- requests

\* With one request at a time, and whatever crashes there are, a request that is
\* answered with 0 has changed the names that can be found, once and as a whole,
\* except that names a crash has spoiled stay hidden; one that fails or is lost
\* in a crash has changed none of them.  It needs the table of inodes written from
\* cleared memory: otherwise, after a crash has left an entry without its inode,
\* rmdir may take what malloc left in the inode for a directory and clear its block.
ImplementsTree == Tree!Spec
=============================================================================

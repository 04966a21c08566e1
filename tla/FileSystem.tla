----------------------------- MODULE FileSystem -----------------------------
(***************************************************************************)
(* The name space of the file system in filesystemFUSE/submission: the     *)
(* bitmaps (bitmap.c, block.c), the inode table (inode.c), directory       *)
(* entries (dirent.c), and the handlers of sfs.c that change them: init,   *)
(* create, mkdir, unlink and rmdir.                                        *)
(*                                                                         *)
(* Everything durable is in blocks of the disk file, read and written      *)
(* whole.  A handler works on copies: it reads a block, changes its copy   *)
(* and writes it back later, and nothing locks the disk.  So each write of *)
(* a block is a step, and so is each read whose copy is written back; the  *)
(* reads of a path lookup are one step together.  FUSE calls the handlers  *)
(* from several threads; the kernel locks the directory they change.       *)
(*                                                                         *)
(* Names are short enough for one block to hold every entry a directory    *)
(* can have (31 of up to seven characters), so directories do not grow.    *)
(* Paths are at most two names long.  Contents of files are empty.         *)
(***************************************************************************)
EXTENDS Integers, Sequences, FiniteSets, SequencesExt

CONSTANTS
  Workers,           \* threads of fuse_main
  Names,             \* file names, neither "." nor ".."
  WORD,              \* bits of an int, the word of a bitmap
  NINODES_BLOCK,     \* inodes in a block
  NUM_INODE_BLOCKS,  \* blocks of the inode table
  NBIT_BLOCK,        \* blocks of the block bitmap
  Uninitialised,     \* what malloc may leave in the bitmap sfs_init does not clear
  Leftovers,         \* and in the mode and the block of an inode it does not set
  Fragile,           \* phases in which the process may crash: "format", "mounted"
  MaxInodes,         \* bound: inodes handed out
  MaxCrashes         \* bound: crashes

Inodes  == 0 .. (NINODES_BLOCK * NUM_INODE_BLOCKS - 1)
Blocks  == 0 .. (WORD - 1)      \* data blocks whose bit is ever looked at
Bitmaps == 0 .. (NBIT_BLOCK - 1)
Dots    == {".", ".."}

\* <<n>> is /n and <<d, n>> is /d/n.
Paths == {<<n>> : n \in Names} \cup (Names \X Names)

ASSUME SizesAssumption ==
  /\ WORD \in Nat \ {0, 1} /\ NINODES_BLOCK \in Nat \ {0} /\ NUM_INODE_BLOCKS \in Nat \ {0}
  /\ NBIT_BLOCK \in Nat \ {0} /\ NINODES_BLOCK * NUM_INODE_BLOCKS >= WORD
ASSUME NamesAssumption == Names \cap Dots = {}
ASSUME CrashAssumption == Fragile \subseteq {"format", "mounted"} /\ MaxCrashes \in Nat
ASSUME MemoryAssumption ==
  /\ Uninitialised \subseteq SUBSET Blocks
  /\ Leftovers \subseteq [mode : {"none", "dir", "file"}, block : Blocks]

VARIABLES
  disk,             \* the blocks of the disk file
  mount,            \* where sfs_init is, "mounted" after it
  format,           \* its locals: the root's block, the next table block to write
  pc,               \* what each worker does next, "idle" between requests
  loc,              \* the request of each worker and the locals of its handler
  entry,            \* the global cursor of dirent.c: whose buffer, which entry
  dataBlockBuffer,  \* the global buffer of inode.c
  crashes           \* crashes so far

vars == <<disk, mount, format, pc, loc, entry, dataBlockBuffer, crashes>>

\* An inode: size -1 means free; numBlocks is 0 where mode is "none", else 1.
NewInode(m, b) == [size |-> 0, mode |-> m, block |-> b]
ZeroInode      == [size |-> 0, mode |-> "none", block |-> 0]

\* Mutant: an inode that is freed keeps its mode.
FreeInode_keepsMode == [size |-> -1, mode |-> "file", block |-> 0]

\* One that was freed; of those that were never made see FormatInodeTable.
FreeInode == [size |-> -1, mode |-> "none", block |-> 0]

Entry(n, name) == [iNum |-> n, name |-> name]

\* The index of the bit is not reset for the second word, so only the first
\* word is searched; and bit 0 is not.
FindFirstFree(bits) ==
  LET free == (1 .. (WORD - 1)) \ bits
  IN  IF free = {} THEN -1 ELSE CHOOSE l \in free : \A k \in free : l <= k

\* findFreeBlock(): the bitmap the bit is in and its index there, to which the
\* bits of the bitmaps before are not added.
FreeBlock ==
  LET full(i) == FindFirstFree(disk.bbitmap[i]) = -1
      i == CHOOSE j \in Bitmaps : /\ full(j) => j = NBIT_BLOCK - 1
                                  /\ \A k \in 0 .. (j - 1) : full(k)
  IN  [bitmap |-> i, block |-> FindFirstFree(disk.bbitmap[i])]

TableBlock(n) == n \div NINODES_BLOCK
TableIndex(n) == n % NINODES_BLOCK
Inode(n)      == disk.itable[TableBlock(n)][TableIndex(n)]
IsUsed(n)     == Inode(n).size >= 0
HasBlock(n)   == IsUsed(n) /\ Inode(n).mode # "none"

Entries(n) == IF Inode(n).mode = "none" THEN <<>> ELSE disk.data[Inode(n).block]

\* The first of some entries with a name, or with an inode, and 0 for none.
FirstNamed(es, name) == SelectInSeq(es, LAMBDA e : e.name = name)
FirstNumbered(es, n) == SelectInSeq(es, LAMBDA e : e.iNum = n)

FindInode ==
  [n \in Inodes |-> [name \in Names |->
     LET i == FirstNamed(Entries(n), name)
     IN  IF i = 0 THEN -1 ELSE Entries(n)[i].iNum]]

InodeFromPath(path) ==
  LET n == FindInode[0][path[1]]
      m == FindInode[n][path[2]]
  IN  IF path = <<>> THEN 0
      ELSE IF n <= 0 THEN -1
      ELSE IF Len(path) = 1 THEN n
      ELSE IF m > 0 /\ m # n THEN m ELSE -1

\* The directory of a path, <<>> for the root.
Directory(path) == Front(path)

\* What sfs_getattr answers: every inode on the way is in use.
Exists(path) ==
  \A k \in 1 .. Len(path) :
    InodeFromPath(SubSeq(path, 1, k)) > 0 /\ IsUsed(InodeFromPath(SubSeq(path, 1, k)))

Kind(path) == Inode(InodeFromPath(path)).mode

-----------------------------------------------------------------------------
(***************************************************************************)
(* The requests that change nothing: their answers in the present state.   *)
(***************************************************************************)

\* sfs_open
Open(path) ==
  IF InodeFromPath(path) # -1 /\ Kind(path) = "file" THEN "ok" ELSE "ENOENT"

\* sfs_opendir
OpenDir(path) ==
  IF InodeFromPath(path) # -1 /\ Kind(path) = "dir" THEN "ok" ELSE "ENOENT"

\* The names sfs_readdir hands to filler, of a directory that it can list.
ReadDir(path) == [i \in DOMAIN Entries(InodeFromPath(path)) |-> Entries(InodeFromPath(path))[i].name]

-----------------------------------------------------------------------------
NoCall == [call |-> "none", path |-> <<>>, num |-> 0, block |-> 0, bitmap |-> 0, bits |-> {},
           table |-> <<>>, dir |-> 0, dirBlock |-> 0, buffer |-> <<>>, frames |-> <<>>, ret |-> "none"]

NoCursor == [owner |-> "freed", pos |-> 0]

Init ==
  /\ disk = [super   |-> FALSE,
             ibitmap |-> {},
             bbitmap |-> [i \in Bitmaps |-> {}],
             itable  |-> [i \in 0 .. (NUM_INODE_BLOCKS - 1) |->
                            [j \in 0 .. (NINODES_BLOCK - 1) |-> ZeroInode]],
             data    |-> [b \in Blocks |-> <<>>]]
  /\ mount = "unmounted"
  /\ format = [block |-> 0, next |-> 0]
  /\ pc = [w \in Workers |-> "idle"]
  /\ loc = [w \in Workers |-> NoCall]
  /\ entry = NoCursor
  /\ dataBlockBuffer = <<>>
  /\ crashes = 0

At(w, l) == mount = "mounted" /\ pc[w] = l

Goto(w, l) == pc' = [pc EXCEPT ![w] = l]

Set(w, rec) == loc' = [loc EXCEPT ![w] = rec]

\* The request is answered.  What it was stays visible until the next.
Reply(w, r) ==
  /\ Goto(w, "idle")
  /\ Set(w, [NoCall EXCEPT !.call = loc[w].call, !.path = loc[w].path, !.ret = r])

globals == <<entry, dataBlockBuffer>>
system  == <<mount, format, crashes>>

-----------------------------------------------------------------------------
(***************************************************************************)
(* sfs_init on a disk file of zeroes, a write a step.  The superblock,     *)
(* whose magic number says that the rest is there, is written first.       *)
(***************************************************************************)
Format(at, next) ==
  /\ mount = at
  /\ mount' = next
  /\ UNCHANGED <<pc, loc, entry, dataBlockBuffer, crashes>>

Mount ==
  /\ disk.super
  /\ Format("unmounted", "mounted")
  /\ UNCHANGED <<disk, format>>

FormatSuper ==
  /\ ~disk.super
  /\ disk' = [disk EXCEPT !.super = TRUE]
  /\ Format("unmounted", "inode bitmap")
  /\ UNCHANGED format

\* setBit changes nothing: bit 0 stays clear.
FormatInodeBitmap ==
  /\ disk' = [disk EXCEPT !.ibitmap = {}]
  /\ Format("inode bitmap", "block bitmaps")
  /\ UNCHANGED format

FormatBlockBitmaps ==
  /\ disk' = [disk EXCEPT !.bbitmap = [i \in Bitmaps |-> {}]]
  /\ Format("block bitmaps", "first block bitmap")
  /\ UNCHANGED format

\* The first one is written once more, from memory fresh from malloc.
FormatFirstBlockBitmap ==
  /\ \E bits \in Uninitialised : disk' = [disk EXCEPT !.bbitmap[0] = bits]
  /\ Format("first block bitmap", "root block")
  /\ UNCHANGED format

FormatRootBlock ==
  LET free == FreeBlock
  IN  /\ disk' = [disk EXCEPT !.bbitmap[free.bitmap] = @ \cup {free.block}]
      /\ format' = [format EXCEPT !.block = free.block]
      /\ Format("root block", "root entries")

DotEntries(n, parent) == <<Entry(n, "."), Entry(parent, "..")>>

\* Mutant: the root has no parent.
FormatRootEntries_noParent ==
  /\ disk' = [disk EXCEPT !.data[format.block] = DotEntries(0, -1)]
  /\ Format("root entries", "inode table")
  /\ UNCHANGED format

FormatRootEntries ==
  /\ disk' = [disk EXCEPT !.data[format.block] = DotEntries(0, 0)]
  /\ Format("root entries", "inode table")
  /\ UNCHANGED format

\* Of an inode but the root's only the number and the size are set, the rest is as
\* malloc left it.
FormatInodeTable ==
  \E left \in [0 .. (NINODES_BLOCK - 1) -> Leftovers] :
    LET fresh == [j \in 0 .. (NINODES_BLOCK - 1) |->
                    IF format.next = 0 /\ j = 0
                    THEN NewInode("dir", format.block)
                    ELSE [size |-> -1, mode |-> left[j].mode, block |-> left[j].block]]
    IN  /\ disk' = [disk EXCEPT !.itable[format.next] = fresh]
        /\ format' = [format EXCEPT !.next = (@ + 1) % NUM_INODE_BLOCKS]
        /\ Format("inode table",
                  IF format.next + 1 = NUM_INODE_BLOCKS THEN "mounted" ELSE "inode table")

-----------------------------------------------------------------------------
(***************************************************************************)
(* Requests.  The kernel asks sfs_getattr first, locks the directory and,  *)
(* for rmdir, the one to be removed.                                       *)
(***************************************************************************)
LockedBy(call, path) == {Directory(path)} \cup IF call = "rmdir" THEN {path} ELSE {}

Unlocked(w, call, path) ==
  \A v \in Workers \ {w} :
    pc[v] # "idle" => LockedBy(call, path) \cap LockedBy(loc[v].call, loc[v].path) = {}

Begin(w, call, path, l) ==
  /\ At(w, "idle")
  /\ Unlocked(w, call, path)
  /\ Goto(w, l)
  /\ UNCHANGED <<disk, globals, system>>

StartCreate(w, call, path) ==
  /\ ~Exists(path)
  /\ Exists(Directory(path)) /\ Kind(Directory(path)) = "dir"
  /\ Cardinality(disk.ibitmap) < MaxInodes
  /\ Begin(w, call, path, "find inode")
  /\ Set(w, [NoCall EXCEPT !.call = call, !.path = path])

\* unlink and rmdir look up the inode and its directory, and rmdir keeps a copy
\* of the inode.
StartRemove(w, call, path) ==
  LET n == InodeFromPath(path)
  IN  /\ Exists(path)
      /\ Kind(path) = IF call = "rmdir" THEN "dir" ELSE "file"
      /\ Begin(w, call, path, "read inode")
      /\ Set(w, [NoCall EXCEPT !.call = call, !.path = path, !.num = n,
                               !.block = Inode(n).block, !.dir = InodeFromPath(Directory(path))])

-----------------------------------------------------------------------------
(***************************************************************************)
(* createInode                                                             *)
(***************************************************************************)

ReadInodeBitmap(w) ==
  LET n == FindFirstFree(disk.ibitmap)
  IN  /\ At(w, "find inode")
      /\ IF n = -1
         THEN Reply(w, "ENOENT")
         ELSE /\ Goto(w, "write inode bitmap")
              /\ Set(w, [loc[w] EXCEPT !.num = n, !.bits = disk.ibitmap \cup {n}])
      /\ UNCHANGED <<disk, globals, system>>

WriteInodeBitmap(w) ==
  /\ At(w, "write inode bitmap")
  /\ disk' = [disk EXCEPT !.ibitmap = loc[w].bits]
  /\ Goto(w, "read table")
  /\ Set(w, [loc[w] EXCEPT !.bits = {}])
  /\ UNCHANGED <<globals, system>>

ReadTable(w) ==
  /\ At(w, "read table")
  /\ IF Inode(loc[w].num).size = -1
     THEN /\ Goto(w, "find block")
          /\ Set(w, [loc[w] EXCEPT !.table = disk.itable[TableBlock(loc[w].num)]])
     ELSE Reply(w, "EFAULT")
  /\ UNCHANGED <<disk, globals, system>>

ReadBlockBitmap(w) ==
  LET free == FreeBlock
  IN  /\ At(w, "find block")
      /\ Goto(w, "write block bitmap")
      /\ Set(w, [loc[w] EXCEPT !.block = free.block, !.bitmap = free.bitmap,
                               !.bits = disk.bbitmap[free.bitmap] \cup {free.block}])
      /\ UNCHANGED <<disk, globals, system>>

\* Mutant: the bit is not written back.
WriteBlockBitmap_forgets(w) ==
  /\ At(w, "write block bitmap")
  /\ Goto(w, IF loc[w].call = "mkdir" THEN "write dots" ELSE "read directory")
  /\ Set(w, [loc[w] EXCEPT
               !.bits = {}, !.bitmap = 0, !.dir = InodeFromPath(Directory(loc[w].path)),
               !.table[TableIndex(loc[w].num)] =
                  NewInode(IF loc[w].call = "mkdir" THEN "dir" ELSE "file", loc[w].block)])
  /\ UNCHANGED <<disk, globals, system>>

\* Then the parent is looked up and the inode filled in, in the copy of the table.
WriteBlockBitmap(w) ==
  /\ At(w, "write block bitmap")
  /\ disk' = [disk EXCEPT !.bbitmap[loc[w].bitmap] = loc[w].bits]
  /\ Goto(w, IF loc[w].call = "mkdir" THEN "write dots" ELSE "read directory")
  /\ Set(w, [loc[w] EXCEPT
               !.bits = {}, !.bitmap = 0, !.dir = InodeFromPath(Directory(loc[w].path)),
               !.table[TableIndex(loc[w].num)] =
                  NewInode(IF loc[w].call = "mkdir" THEN "dir" ELSE "file", loc[w].block)])
  /\ UNCHANGED <<globals, system>>

\* initializeDEntries: the cursor is left in a buffer that is freed.  Another worker
\* that moves the cursor while this one fills its buffer is left out.
WriteDots(w) ==
  /\ At(w, "write dots")
  /\ disk' = [disk EXCEPT !.data[loc[w].block] = DotEntries(loc[w].num, loc[w].dir)]
  /\ entry' = NoCursor
  /\ Goto(w, "read directory")
  /\ UNCHANGED <<loc, dataBlockBuffer, system>>

\* createDEntry moves the global cursor behind the last entry of its buffer...
ReadDirectory(w) ==
  /\ At(w, "read directory")
  /\ Goto(w, "fill entry")
  /\ Set(w, [loc[w] EXCEPT !.buffer = Entries(loc[w].dir),
                           !.dirBlock = Inode(loc[w].dir).block])
  /\ entry' = [owner |-> w, pos |-> Len(Entries(loc[w].dir)) + 1]
  /\ UNCHANGED <<disk, dataBlockBuffer, system>>

\* ...and fills in the entry where the cursor is by then, in whatever buffer.
FillEntry(w) ==
  LET v   == entry.owner
      new == Entry(loc[w].num, Last(loc[w].path))
      old == loc[v].buffer
  IN  /\ At(w, "fill entry")
      /\ IF v \in Workers /\ pc[v] \in {"fill entry", "write entry"}
         THEN Set(v, [loc[v] EXCEPT !.buffer = SubSeq(old, 1, entry.pos - 1) \o <<new>>])
         ELSE UNCHANGED loc
      /\ Goto(w, "write entry")
      /\ UNCHANGED <<disk, globals, system>>

WriteEntry(w) ==
  /\ At(w, "write entry")
  /\ disk' = [disk EXCEPT !.data[loc[w].dirBlock] = loc[w].buffer]
  /\ Goto(w, "write table")
  /\ Set(w, [loc[w] EXCEPT !.buffer = <<>>])
  /\ UNCHANGED <<globals, system>>

\* The copy that was read before the directory was changed.
WriteTable(w) ==
  /\ At(w, "write table")
  /\ disk' = [disk EXCEPT !.itable[TableBlock(loc[w].num)] = loc[w].table]
  /\ Reply(w, "ok")
  /\ UNCHANGED <<globals, system>>

-----------------------------------------------------------------------------
(***************************************************************************)
(* sfs_unlink and sfs_rmdir                                                *)
(***************************************************************************)

\* removeInode reads the table block.  It fails, with -1, on a free inode and
\* on a file that is to be removed as a directory; unlink takes -1 for success.
ReadInode(w) ==
  LET n == loc[w].num
  IN  /\ At(w, "read inode")
      /\ IF IsUsed(n) /\ (loc[w].call = "rmdir" => Inode(n).mode = "dir")
         THEN /\ Goto(w, "write inode")
              /\ Set(w, [loc[w] EXCEPT !.table = [disk.itable[TableBlock(n)] EXCEPT
                                                    ![TableIndex(n)] = FreeInode]])
         ELSE IF loc[w].call = "rmdir"
              THEN Reply(w, "-1")
              ELSE Goto(w, "read entries") /\ UNCHANGED loc
      /\ UNCHANGED <<disk, globals, system>>

WriteInode(w) ==
  /\ At(w, "write inode")
  /\ disk' = [disk EXCEPT !.itable[TableBlock(loc[w].num)] = loc[w].table]
  /\ Goto(w, "read entries")
  /\ Set(w, [loc[w] EXCEPT !.table = <<>>])
  /\ UNCHANGED <<globals, system>>

\* Mutant: the entry behind the one that is meant goes.
ReadEntries_next(w) ==
  LET es == Entries(loc[w].dir)
      i  == FirstNumbered(es, loc[w].num)
  IN  /\ At(w, "read entries")
      /\ Goto(w, "write entries")
      /\ Set(w, [loc[w] EXCEPT !.buffer = RemoveAt(es, IF i < Len(es) THEN i + 1 ELSE i),
                               !.dirBlock = Inode(loc[w].dir).block])
      /\ UNCHANGED <<disk, globals, system>>

\* deleteInodeEntry takes out the first entry with the inode's number.  If there
\* is none, rmdir fails; to unlink this -1, too, is success.
ReadEntries(w) ==
  LET es == Entries(loc[w].dir)
      i  == FirstNumbered(es, loc[w].num)
  IN  /\ At(w, "read entries")
      /\ IF i = 0
         THEN Reply(w, IF loc[w].call = "rmdir" THEN "-1" ELSE "ok")
         ELSE /\ Goto(w, "write entries")
              /\ Set(w, [loc[w] EXCEPT !.buffer = RemoveAt(es, i),
                                       !.dirBlock = Inode(loc[w].dir).block])
      /\ UNCHANGED <<disk, globals, system>>

\* rmdir goes on with deleteAllInodeEntries of its copy of the inode.
WriteEntries(w) ==
  /\ At(w, "write entries")
  /\ disk' = [disk EXCEPT !.data[loc[w].dirBlock] = loc[w].buffer]
  /\ IF loc[w].call = "rmdir"
     THEN /\ Goto(w, "read block")
          /\ Set(w, [loc[w] EXCEPT !.buffer = <<>>,
                                   !.frames = <<[block |-> loc[w].block, pos |-> 1]>>])
     ELSE Reply(w, "ok")
  /\ UNCHANGED <<globals, system>>

-----------------------------------------------------------------------------
(***************************************************************************)
(* deleteAllInodeEntries.  It works in the one global buffer, also when it *)
(* calls itself for the inode of an entry, directory or not; a frame is    *)
(* its block and the position of its pointer.                              *)
(***************************************************************************)

Frame(w) == Last(loc[w].frames)

SetFrame(w, pos) == Set(w, [loc[w] EXCEPT !.frames = Append(Front(@), [Frame(w) EXCEPT !.pos = pos])])

\* A block of 0 stands for an inode without blocks.
ReadDeletedBlock(w) ==
  /\ At(w, "read block")
  /\ dataBlockBuffer' = IF Frame(w).block = 0 THEN dataBlockBuffer ELSE disk.data[Frame(w).block]
  /\ Goto(w, IF Frame(w).block = 0 THEN "leave" ELSE "delete entries")
  /\ UNCHANGED <<disk, loc, entry, system>>

\* Mutant: ".." is deleted like any other entry.
IsDeletable_dotdot(e) == e.iNum > 0 /\ e.name # "."

IsDeletable(e) == e.iNum > 0 /\ e.name \notin Dots

\* The entry at the pointer is passed over, or its inode is read to be removed.
DeleteEntries(w) ==
  LET pos == Frame(w).pos
      n   == dataBlockBuffer[pos].iNum
  IN  /\ At(w, "delete entries")
      /\ IF pos > Len(dataBlockBuffer)
         THEN Goto(w, "leave") /\ UNCHANGED loc
         ELSE IF IsDeletable(dataBlockBuffer[pos])
         THEN /\ Goto(w, "delete inode")
              /\ Set(w, [loc[w] EXCEPT !.num = n, !.block = Inode(n).block,
                                       !.table = [disk.itable[TableBlock(n)] EXCEPT
                                                    ![TableIndex(n)] = FreeInode]])
         ELSE SetFrame(w, pos + 1) /\ UNCHANGED pc
      /\ UNCHANGED <<disk, globals, system>>

\* The inode, if it was in use, is free now; its entry is cut out of the buffer,
\* but the block is not written; and the inode's own entries are next.
DeleteInode(w) ==
  /\ At(w, "delete inode")
  /\ disk' = IF IsUsed(loc[w].num)
             THEN [disk EXCEPT !.itable[TableBlock(loc[w].num)] = loc[w].table]
             ELSE disk
  /\ dataBlockBuffer' = RemoveAt(dataBlockBuffer, Frame(w).pos)
  /\ Goto(w, "read block")
  /\ Set(w, [loc[w] EXCEPT !.table = <<>>,
                           !.frames = Append(@, [block |-> loc[w].block, pos |-> 1])])
  /\ UNCHANGED <<entry, system>>

\* The call returns.  Its caller, if it is one of the same, frees the inode a
\* second time and moves its pointer on by the entry it cut out and by whatever
\* now lies at its place.
Leave(w) ==
  LET frames == Front(loc[w].frames)
      pos    == Last(frames).pos
      skip   == IF pos <= Len(dataBlockBuffer) THEN 2 ELSE 1
  IN  /\ At(w, "leave")
      /\ IF frames = <<>>
         THEN Reply(w, "ok")
         ELSE /\ Goto(w, "delete entries")
              /\ Set(w, [loc[w] EXCEPT !.frames = Append(Front(frames),
                                                         [Last(frames) EXCEPT !.pos = pos + skip])])
      /\ UNCHANGED <<disk, globals, system>>

-----------------------------------------------------------------------------
\* The process dies: killed, or aborted by the C library at the second free.
\* The next mount calls sfs_init on what is on the disk.
Crash ==
  /\ crashes < MaxCrashes
  /\ \/ mount = "mounted" /\ "mounted" \in Fragile
     \/ mount \notin {"unmounted", "mounted"} /\ "format" \in Fragile
  /\ mount' = "unmounted"
  /\ crashes' = crashes + 1
  /\ format' = [block |-> 0, next |-> 0]
  /\ pc' = [w \in Workers |-> "idle"]
  /\ loc' = [w \in Workers |-> NoCall]
  /\ entry' = NoCursor
  /\ dataBlockBuffer' = <<>>
  /\ UNCHANGED disk

MountStep ==
  \/ Mount \/ FormatSuper \/ FormatInodeBitmap \/ FormatBlockBitmaps \/ FormatFirstBlockBitmap
  \/ FormatRootBlock \/ FormatRootEntries \/ FormatInodeTable

CreateStep(w) ==
  \/ ReadInodeBitmap(w) \/ WriteInodeBitmap(w) \/ ReadTable(w)
  \/ ReadBlockBitmap(w) \/ WriteBlockBitmap(w) \/ WriteDots(w)
  \/ ReadDirectory(w) \/ FillEntry(w) \/ WriteEntry(w) \/ WriteTable(w)

RemoveStep(w) ==
  \/ ReadInode(w) \/ WriteInode(w) \/ ReadEntries(w) \/ WriteEntries(w)
  \/ ReadDeletedBlock(w) \/ DeleteEntries(w) \/ DeleteInode(w) \/ Leave(w)

Request(w) ==
  \E path \in Paths :
    \/ \E call \in {"create", "mkdir"} : StartCreate(w, call, path)
    \/ \E call \in {"unlink", "rmdir"} : StartRemove(w, call, path)

Next ==
  \/ MountStep
  \/ \E w \in Workers : Request(w) \/ CreateStep(w) \/ RemoveStep(w)
  \/ Crash

Spec == Init /\ [][Next]_vars

-----------------------------------------------------------------------------
InodeType == [size : {-1, 0}, mode : {"none", "dir", "file"}, block : Blocks]
TableType == [0 .. (NINODES_BLOCK - 1) -> InodeType]
EntryType == [iNum : Inodes, name : Names \cup Dots]

\* The disk and the copies of its blocks keep their types.
TypeOK ==
  /\ disk.super \in BOOLEAN
  /\ disk.ibitmap \subseteq Blocks
  /\ disk.bbitmap \in [Bitmaps -> SUBSET Blocks]
  /\ disk.itable \in [0 .. (NUM_INODE_BLOCKS - 1) -> TableType]
  /\ DOMAIN disk.data = Blocks
  /\ \A b \in Blocks : \A i \in DOMAIN disk.data[b] : disk.data[b][i] \in EntryType
  /\ format \in [block : Blocks, next : 0 .. (NUM_INODE_BLOCKS - 1)]
  /\ entry.owner \in Workers \cup {"freed"}
  /\ \A i \in DOMAIN dataBlockBuffer : dataBlockBuffer[i] \in EntryType
  /\ \A w \in Workers :
       /\ loc[w].num \in Inodes /\ loc[w].dir \in Inodes
       /\ loc[w].block \in Blocks /\ loc[w].bits \subseteq Blocks
       /\ loc[w].table \in TableType \cup {<<>>}
       /\ \A i \in DOMAIN loc[w].buffer : loc[w].buffer[i] \in EntryType
  /\ crashes \in 0 .. MaxCrashes

\* Worker w is past the search for a block and has not yet written its inode.
FillsInode(w) == pc[w] \in {"write block bitmap", "write dots", "read directory",
                            "fill entry", "write entry", "write table"}

\* No data block has two owners, whatever crashes come between the bitmap and
\* the inode: the blocks of the inodes in use differ from one another and from
\* the block a create is about to use.
BlocksHaveOneOwner ==
  mount = "mounted" =>
    \A n \in Inodes :
      HasBlock(n) =>
        /\ \A m \in Inodes \ {n} : HasBlock(m) => Inode(n).block # Inode(m).block
        /\ \A w \in Workers : FillsInode(w) => Inode(n).block # loc[w].block

\* Between requests, and without a crash, the directories are what the inodes say: a
\* directory starts with itself and the directory it is entered in, every other entry
\* names an inode in use, and no name is entered twice in one directory and no inode
\* twice in any.
DirectoriesMatchInodes ==
  mount = "mounted" /\ crashes = 0 /\ (\A w \in Workers : pc[w] = "idle") =>
    LET dirs == {n \in Inodes : IsUsed(n) /\ Inode(n).mode = "dir"}
        IsDirectory(n, parent) == SubSeq(Entries(n), 1, 2) = DotEntries(n, parent)
        entries == UNION {{<<n, i, Entries(n)[i]>> : i \in 3 .. Len(Entries(n))} : n \in dirs}
    IN  /\ IsDirectory(0, 0)
        /\ \A e \in entries : /\ IsUsed(e[3].iNum)
                              /\ e[3].iNum \in dirs => IsDirectory(e[3].iNum, e[1])
        /\ \A e, f \in entries :
             e # f => /\ e[3].iNum # f[3].iNum
                      /\ e[1] = f[1] => e[3].name # f[3].name

\* Whoever looks at a name in another way sees the same, at every moment: a path
\* that sfs_getattr finds can be opened as a file or as a directory and not as
\* both, one that it does not find as neither, and what is found in a directory is
\* listed there.  Between requests, and without a crash, nothing else is listed but
\* the two dots, and nothing twice.
\* It needs the table of inodes written from cleared memory: otherwise what malloc
\* left as the mode of an inode can be opened between its entry and its write.
AnswersAgree ==
  mount = "mounted" /\ IsUsed(0) =>
    /\ \A p \in Paths : {o \in {<<"file", Open(p)>>, <<"dir", OpenDir(p)>>} : o[2] = "ok"}
                         = IF Exists(p) THEN {<<Kind(p), "ok">>} ELSE {}
    /\ \A d \in {q \in Paths \cup {<<>>} : Len(q) < 2 /\ OpenDir(q) = "ok"} :
         LET found == {n \in Names : Exists(Append(d, n))}
         IN  /\ found \subseteq ToSet(ReadDir(d))
             /\ crashes = 0 /\ (\A w \in Workers : pc[w] = "idle")
                => ToSet(ReadDir(d)) = found \cup Dots /\ IsInjective(ReadDir(d))

\* "Inode is free" (inode.c:38): the inode a create found free belongs to it until
\* it has written it, and to no other create.  The code does not keep this.
FoundInodeIsFree ==
  \A v, w \in Workers :
    /\ v # w
    /\ pc[v] = "find block" \/ FillsInode(v)
    /\ pc[w] = "find block" \/ FillsInode(w)
    => loc[v].num # loc[w].num
=============================================================================

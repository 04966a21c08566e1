-------------------------- MODULE FileSystemProofs --------------------------
(***************************************************************************)
(* Proofs about FileSystem, for any number of names, inodes and blocks and *)
(* any crashes, with one request at a time and as long as the first bitmap *)
(* has a free block whenever one is looked for.  First types and owners of *)
(* blocks, whatever malloc left in the table of inodes.  Then, for a table *)
(* written from cleared memory, the tree of directories, which stays a     *)
(* tree whatever the crashes and until the first one agrees with the       *)
(* inodes; and with it that every step is one of NameTree or changes       *)
(* nothing that can be seen.                                               *)
(***************************************************************************)
EXTENDS FileSystem, FileSystemRefinement, SequenceTheorems, FiniteSetTheorems, TLAPS

\* One thread serves the requests, as with the option -s of FUSE.
OneRequest == \A v, w \in Workers : v = w

\* When a block is looked for, for the root or by a create, the first bitmap has a
\* free bit.  findFreeBlock hands a block out twice once it has none (block.c:102);
\* with the sizes of stdefs.h that is when the thirty-first inode is made, or earlier
\* when files have grown.
EnoughBlocks ==
  mount = "root block" \/ (\E w \in Workers : pc[w] = "find block") =>
    FindFirstFree(disk.bbitmap[0]) # -1

\* The memory from malloc that sfs_init writes the table of inodes from is clear
\* (sfs.c:104).
TableCleared == Leftovers \subseteq {[mode |-> "none", block |-> 0]}

-----------------------------------------------------------------------------
(***************************************************************************)
(* Types, with those of the sequences.                                     *)
(***************************************************************************)
Files == Seq(EntryType)
Frames == Seq([block : Blocks, pos : Nat \ {0}])

DiskType == [super : BOOLEAN, ibitmap : SUBSET Blocks, bbitmap : [Bitmaps -> SUBSET Blocks],
             itable : [0 .. (NUM_INODE_BLOCKS - 1) -> TableType], data : [Blocks -> Files]]

CallType == [call : {"none", "create", "mkdir", "unlink", "rmdir"}, path : Paths \cup {<<>>},
             num : Inodes, block : Blocks, bitmap : Bitmaps, bits : SUBSET Blocks,
             table : TableType \cup {<<>>}, dir : Inodes, dirBlock : Blocks, buffer : Files,
             frames : Frames, ret : {"none", "ok", "ENOENT", "EFAULT", "-1"}]

Formatting == {"inode bitmap", "block bitmaps", "first block bitmap", "root block",
               "root entries", "inode table"}

Finding  == {"find inode", "write inode bitmap", "read table", "find block"}
Filling  == {"write block bitmap", "write dots", "read directory", "fill entry", "write entry",
             "write table"}
Removing == {"read inode", "write inode", "read entries", "write entries"}
Deleting == {"read block", "delete entries", "delete inode", "leave"}

Types ==
  /\ disk \in DiskType
  /\ mount \in {"unmounted", "mounted"} \cup Formatting
  /\ format \in [block : Blocks, next : 0 .. (NUM_INODE_BLOCKS - 1)]
  /\ pc \in [Workers -> {"idle"} \cup Finding \cup Filling \cup Removing \cup Deleting]
  /\ loc \in [Workers -> CallType]
  /\ entry \in [owner : Workers \cup {"freed"}, pos : Nat]
  /\ dataBlockBuffer \in Files
  /\ crashes \in 0 .. MaxCrashes
  /\ \A w \in Workers : pc[w] # "idle" => mount = "mounted" /\ loc[w].path \in Paths

-----------------------------------------------------------------------------
(***************************************************************************)
(* What holds of the disk.                                                 *)
(***************************************************************************)

\* A free inode has what malloc left.
IsFree(inode) == inode.size = -1 /\ (TableCleared => inode = FreeInode)

IsDir(n) == HasBlock(n) /\ Inode(n).mode = "dir"

\* An inode is as the disk file had it, free, or a file or directory with a block
\* that is marked.  The root is never free.
InodesInv ==
  \A n \in Inodes :
    \/ Inode(n) = ZeroInode
    \/ n # 0 /\ IsFree(Inode(n))
    \/ /\ Inode(n).size = 0 /\ Inode(n).mode \in {"file", "dir"}
       /\ Inode(n).block \in disk.bbitmap[0] \ {0}
       /\ n \in disk.ibitmap \cup {0}

\* No block has two inodes.
OwnersInv ==
  \A n, m \in Inodes : HasBlock(n) /\ HasBlock(m) /\ n # m => Inode(n).block # Inode(m).block

\* Blocks that are not marked, and those of files, are empty.
DataInv ==
  /\ \A b \in Blocks : b \notin disk.bbitmap[0] => disk.data[b] = <<>>
  /\ \A n \in Inodes : HasBlock(n) /\ Inode(n).mode = "file" => disk.data[Inode(n).block] = <<>>

\* An entry's inode was handed out and made.
Valid(e) == e.name \notin Dots => e.iNum \in disk.ibitmap \ {0} /\ Inode(e.iNum) # ZeroInode

EntriesInv == \A b \in Blocks : \A i \in DOMAIN disk.data[b] : Valid(disk.data[b][i])

\* sfs_init writes one thing after the other.
FormatInv ==
  /\ ~disk.super => mount = "unmounted"
  /\ mount # "inode table" => format.next = 0
  /\ ~disk.super \/ mount \in Formatting =>
       /\ disk.ibitmap = {}
       /\ \A n \in Inodes :
            IF mount = "inode table" /\ TableBlock(n) < format.next
            THEN IF n = 0 THEN Inode(n) = NewInode("dir", format.block) ELSE IsFree(Inode(n))
            ELSE Inode(n) = ZeroInode
       /\ \A b \in Blocks :
            disk.data[b] = IF mount = "inode table" /\ b = format.block THEN DotEntries(0, 0) ELSE <<>>
  /\ mount \in {"root entries", "inode table"} => format.block \in disk.bbitmap[0] \ {0}

DiskInv == InodesInv /\ OwnersInv /\ DataInv /\ EntriesInv /\ FormatInv

-----------------------------------------------------------------------------
(***************************************************************************)
(* What holds of a request: its locals and the copies it has of blocks.    *)
(***************************************************************************)

\* An entry that is not a dot has inode n.
Entered(n) == \E b \in Blocks : \E i \in DOMAIN disk.data[b] :
                disk.data[b][i].name \notin Dots /\ disk.data[b][i].iNum = n

\* The copy of n's block of the table with another inode n.
TableWith(n, inode) == [disk.itable[TableBlock(n)] EXCEPT ![TableIndex(n)] = inode]

\* A create has found a directory and an inode.
FindingInv(w) ==
  LET l == loc[w]
      p == pc[w]
      d == InodeFromPath(Directory(l.path))
  IN  /\ p \in Finding \cup Filling => l.call \in {"create", "mkdir"}
      /\ p \in Finding \cup {"write block bitmap"} => d \in Inodes /\ IsDir(d)
      /\ p = "write inode bitmap" => /\ l.num \in Blocks \ ({0} \cup disk.ibitmap)
                                     /\ l.bits = disk.ibitmap \cup {l.num}
      /\ p \in {"read table", "find block"} \cup Filling =>
           /\ l.num \in disk.ibitmap \ {0}
           /\ p # "write table" => ~Entered(l.num)
      /\ p \in {"find block"} \cup Filling => IsFree(Inode(l.num))
      /\ p \in {"find block", "write block bitmap"} => l.table = disk.itable[TableBlock(l.num)]

\* It has found a block and fills in the inode and the entry.
FillingInv(w) ==
  LET l    == loc[w]
      p    == pc[w]
      kind == IF l.call = "mkdir" THEN "dir" ELSE "file"
  IN  p \in Filling =>
        /\ l.block # 0
        /\ \A n \in Inodes : HasBlock(n) => Inode(n).block # l.block
        /\ p = "write block bitmap" => /\ l.bitmap = 0 /\ l.block \notin disk.bbitmap[0]
                                       /\ l.bits = disk.bbitmap[0] \cup {l.block}
        /\ p = "write dots" => l.call = "mkdir"
        /\ p # "write block bitmap" =>
             /\ l.block \in disk.bbitmap[0]
             /\ l.table = TableWith(l.num, NewInode(kind, l.block))
             /\ IsDir(l.dir)
        /\ disk.data[l.block] =
             IF l.call = "mkdir" /\ p \notin {"write block bitmap", "write dots"}
             THEN DotEntries(l.num, l.dir) ELSE <<>>
        /\ p \in {"fill entry", "write entry"} => l.dirBlock = Inode(l.dir).block
        /\ p = "fill entry" => /\ l.buffer = Entries(l.dir)
                               /\ entry = [owner |-> w, pos |-> Len(Entries(l.dir)) + 1]
        /\ p = "write entry" => l.buffer = Append(Entries(l.dir), Entry(l.num, Last(l.path)))

\* unlink and rmdir have freed the inode and take out its entry.
RemovingInv(w) ==
  LET l == loc[w]
      p == pc[w]
  IN  /\ p \in Removing => l.num # 0 /\ l.call \in {"unlink", "rmdir"}
      /\ p = "write inode" => l.table = TableWith(l.num, FreeInode)
      /\ p = "write entries" =>
           /\ Inode(l.dir).mode # "none" /\ l.dirBlock = Inode(l.dir).block
           /\ \E i \in DOMAIN Entries(l.dir) : /\ Entries(l.dir)[i].iNum = l.num
                                               /\ l.buffer = RemoveAt(Entries(l.dir), i)

\* rmdir deletes what the directory's entries name.
DeletingInv(w) ==
  LET l == loc[w]
      p == pc[w]
  IN  /\ p \in Deleting => l.call = "rmdir" /\ l.frames # <<>>
      /\ p = "delete inode" => /\ l.num # 0 /\ Frame(w).pos <= Len(dataBlockBuffer)
                               /\ l.table = TableWith(l.num, FreeInode)
                               /\ l.block = Inode(l.num).block

RequestInv == \A w \in Workers : FindingInv(w) /\ FillingInv(w) /\ RemovingInv(w) /\ DeletingInv(w)

FSInv == Types /\ DiskInv /\ RequestInv

-----------------------------------------------------------------------------
(***************************************************************************)
(* Numbers, the least of them, and the table of inodes.                    *)
(***************************************************************************)

\* The numbers of blocks, bitmaps and inodes start at 0, and a block's number is
\* an inode's too.
LEMMA Numbers ==
  /\ WORD \in Nat /\ WORD >= 2
  /\ 0 \in Blocks /\ 0 \in Bitmaps /\ Blocks \subseteq Inodes /\ Inodes \subseteq Nat
  /\ NUM_INODE_BLOCKS \in Nat /\ NUM_INODE_BLOCKS > 0 /\ NINODES_BLOCK \in Nat /\ NINODES_BLOCK > 0
<1>1. NINODES_BLOCK * NUM_INODE_BLOCKS \in Nat
  BY SizesAssumption
<1>. QED BY <1>1, SizesAssumption DEF Blocks, Bitmaps, Inodes

\* An inode has a place of its own in the table.
LEMMA Places ==
  /\ \A n \in Inodes : /\ TableBlock(n) \in 0 .. (NUM_INODE_BLOCKS - 1)
                       /\ TableIndex(n) \in 0 .. (NINODES_BLOCK - 1)
  /\ \A n, m \in Inodes : TableBlock(n) = TableBlock(m) /\ TableIndex(n) = TableIndex(m) => n = m
  /\ TableBlock(0) = 0 /\ TableIndex(0) = 0
<1>. DEFINE K == NINODES_BLOCK
<1>1. K \in Nat /\ K > 0 /\ NUM_INODE_BLOCKS \in Nat /\ NUM_INODE_BLOCKS > 0
  BY SizesAssumption
<1>2. \A n \in Nat : n \div K \in Nat /\ n % K \in 0 .. (K - 1) /\ n = K * (n \div K) + (n % K)
  BY <1>1
<1>3. ASSUME NEW n \in Inodes PROVE n \div K \in 0 .. (NUM_INODE_BLOCKS - 1)
  <2>. DEFINE q == n \div K
              N == NUM_INODE_BLOCKS
  <2>1. q \in Nat /\ K * q <= n
    BY <1>1, <1>2, Numbers
  <2>2. n < K * N
    BY <1>1, Numbers DEF Inodes
  <2>. HIDE DEF q
  <2>3. ASSUME q >= N PROVE FALSE
    <3>1. PICK d \in Nat : q = N + d
      BY <1>1, <2>1, <2>3
    <3>. DEFINE a == K * q  b == K * N  c == K * d
    <3>2. a = b + c /\ b \in Nat /\ c \in Nat
      BY <1>1, <3>1
    <3>3. n \in Nat /\ a <= n /\ n < b
      BY <2>1, <2>2, Numbers
    <3>. HIDE DEF a, b, c
    <3>. QED BY <3>2, <3>3
  <2>. QED BY <1>1, <2>1, <2>3 DEF q
<1>. QED BY <1>1, <1>2, <1>3, Numbers DEF TableBlock, TableIndex

\* The table with one inode written.
LEMMA InodeWritten ==
  ASSUME Types, NEW k \in Inodes, NEW x \in InodeType
  PROVE  /\ TableWith(k, x) \in TableType
         /\ disk'.itable = [disk.itable EXCEPT ![TableBlock(k)] = TableWith(k, x)] =>
              \A n \in Inodes : Inode(n)' = IF n = k THEN x ELSE Inode(n)
<1>1. /\ disk.itable \in [0 .. (NUM_INODE_BLOCKS - 1) -> TableType]
      /\ TableBlock(k) \in 0 .. (NUM_INODE_BLOCKS - 1) /\ TableIndex(k) \in 0 .. (NINODES_BLOCK - 1)
  BY Places DEF Types, DiskType
<1>2. TableWith(k, x) \in TableType
  BY <1>1 DEF TableWith, TableType
<1>3. ASSUME disk'.itable = [disk.itable EXCEPT ![TableBlock(k)] = TableWith(k, x)], NEW n \in Inodes
      PROVE  Inode(n)' = IF n = k THEN x ELSE Inode(n)
  <2>1. TableBlock(n) \in 0 .. (NUM_INODE_BLOCKS - 1) /\ TableIndex(n) \in 0 .. (NINODES_BLOCK - 1)
    BY Places
  <2>2. Inode(n)' = disk'.itable[TableBlock(n)][TableIndex(n)]
    BY DEF Inode
  <2>3. CASE TableBlock(n) # TableBlock(k)
    BY <1>1, <1>3, <2>1, <2>2, <2>3 DEF Inode
  <2>4. CASE TableBlock(n) = TableBlock(k)
    <3>1. Inode(n)' = TableWith(k, x)[TableIndex(n)]
      BY <1>1, <1>3, <2>2, <2>4
    <3>2. n = k <=> TableIndex(n) = TableIndex(k)
      BY <2>4, Places
    <3>3. disk.itable[TableBlock(k)] \in [0 .. (NINODES_BLOCK - 1) -> InodeType]
      BY <1>1 DEF TableType
    <3>. QED BY <1>1, <2>1, <2>4, <3>1, <3>2, <3>3 DEF TableWith, Inode
  <2>. QED BY <2>3, <2>4
<1>. QED BY <1>2, <1>3

\* The types of what is looked at.
LEMMA LookTypes ==
  ASSUME Types
  PROVE  /\ \A n \in Inodes : Inode(n) \in InodeType /\ Entries(n) \in Files
         /\ ZeroInode \in InodeType /\ FreeInode \in InodeType
         /\ \A b \in Blocks : NewInode("dir", b) \in InodeType /\ NewInode("file", b) \in InodeType
<1>1. ASSUME NEW n \in Inodes PROVE Inode(n) \in InodeType
  <2>1. disk.itable \in [0 .. (NUM_INODE_BLOCKS - 1) -> TableType]
    BY DEF Types, DiskType
  <2>2. disk.itable[TableBlock(n)] \in [0 .. (NINODES_BLOCK - 1) -> InodeType]
    BY <2>1, Places DEF TableType
  <2>. QED BY <2>2, Places DEF Inode
<1>2. \A n \in Inodes : Entries(n) \in Files
  BY <1>1, EmptySeq DEF Types, DiskType, Entries, InodeType, Files
<1>. QED BY <1>1, <1>2, Numbers DEF InodeType, ZeroInode, FreeInode, NewInode

\* A set of numbers has a least one.
LEMMA LeastNumber ==
  ASSUME NEW S \in SUBSET Nat, S # {}
  PROVE  \E m \in S : \A n \in S : m <= n
<1>. DEFINE T == {0 .. n : n \in S}
<1>1. T \subseteq FiniteSubsetsOf(Nat) /\ T # {}
  <2>1. ASSUME NEW n \in S PROVE 0 .. n \in FiniteSubsetsOf(Nat)
    <3>1. n \in Int /\ 0 \in Int
      OBVIOUS
    <3>2. IsFiniteSet(0 .. n)
      BY <3>1, FS_Interval
    <3>3. 0 .. n \in SUBSET Nat
      OBVIOUS
    <3>. QED BY <3>2, <3>3 DEF FiniteSubsetsOf
  <2>. QED BY <2>1
<1>2. PICK x \in T : \A y \in T : ~ (<<y, x>> \in StrictSubsetOrdering(Nat))
  BY <1>1, FS_StrictSubsetOrderingWellFounded, WFMin
<1>3. PICK m \in S : x = 0 .. m
  OBVIOUS
<1>4. ASSUME NEW n \in S, n < m PROVE FALSE
  <2>1. <<0 .. n, 0 .. m>> \in StrictSubsetOrdering(Nat)
    BY <1>4 DEF StrictSubsetOrdering
  <2>. QED BY <1>2, <1>3, <2>1
<1>. QED BY <1>4

\* The search for a free bit finds one unless all but bit 0 are set.
LEMMA FirstFree ==
  ASSUME NEW bits
  PROVE  \/ FindFirstFree(bits) = -1 /\ 1 .. (WORD - 1) \subseteq bits
         \/ FindFirstFree(bits) \in Blocks \ ({0} \cup bits)
<1>. DEFINE free == (1 .. (WORD - 1)) \ bits
<1>1. CASE free = {}
  BY <1>1 DEF FindFirstFree
<1>2. CASE free # {}
  <2>1. free \in SUBSET Nat
    BY Numbers
  <2>2. PICK m \in free : \A k \in free : m <= k
    BY <1>2, <2>1, LeastNumber
  <2>3. FindFirstFree(bits) = CHOOSE l \in free : \A k \in free : l <= k
    BY <1>2 DEF FindFirstFree
  <2>4. FindFirstFree(bits) \in free
    BY <2>2, <2>3
  <2>. QED BY <2>4, Numbers DEF Blocks
<1>. QED BY <1>1, <1>2

\* The block is then looked for in the first bitmap.
LEMMA FreeBlockIs ==
  ASSUME FindFirstFree(disk.bbitmap[0]) # -1
  PROVE  FreeBlock = [bitmap |-> 0, block |-> FindFirstFree(disk.bbitmap[0])]
<1>. DEFINE full(i) == FindFirstFree(disk.bbitmap[i]) = -1
            P(j) == (full(j) => j = NBIT_BLOCK - 1) /\ \A k \in 0 .. (j - 1) : full(k)
            i == CHOOSE j \in Bitmaps : P(j)
<1>1. P(0) /\ 0 \in Bitmaps
  BY Numbers
<1>2. \A j \in Bitmaps : P(j) => j = 0
  BY Numbers, SizesAssumption DEF Bitmaps
<1>3. FreeBlock = [bitmap |-> i, block |-> FindFirstFree(disk.bbitmap[i])]
  BY DEF FreeBlock
<1>. HIDE DEF P
<1>4. i = 0
  BY <1>1, <1>2
<1>. QED BY <1>3, <1>4

-----------------------------------------------------------------------------
(***************************************************************************)
(* Sequences of entries, lookups and paths.                                *)
(***************************************************************************)

\* Both searches return the first place of a set, or 0.
LEMMA FirstOf ==
  ASSUME NEW I \in SUBSET (Nat \ {0}), NEW i, i = IF I # {} THEN Min(I) ELSE 0
  PROVE  \/ i = 0 /\ I = {}
         \/ i \in I /\ \A k \in I : i <= k
<1>1. CASE I # {}
  <2>1. PICK m \in I : \A k \in I : m <= k
    BY <1>1, LeastNumber
  <2>2. Min(I) \in I /\ \A k \in I : Min(I) <= k
    BY <2>1 DEF Min
  <2>. QED BY <1>1, <2>2
<1>. QED BY <1>1

\* The first entry with an inode.
LEMMA FirstNumberedIs ==
  ASSUME NEW s \in Files, NEW n
  PROVE  \/ FirstNumbered(s, n) = 0 /\ \A k \in DOMAIN s : s[k].iNum # n
         \/ /\ FirstNumbered(s, n) \in DOMAIN s /\ s[FirstNumbered(s, n)].iNum = n
            /\ \A k \in DOMAIN s : k < FirstNumbered(s, n) => s[k].iNum # n
<1>. DEFINE I == {i \in 1 .. Len(s) : s[i].iNum = n}
<1>1. FirstNumbered(s, n) = IF I # {} THEN Min(I) ELSE 0
  BY DEF SelectInSeq, FirstNumbered
<1>2. DOMAIN s = 1 .. Len(s) /\ Len(s) \in Nat
  BY LenProperties DEF Files
<1>3. I \in SUBSET (Nat \ {0})
  BY <1>2
<1>4. \/ FirstNumbered(s, n) = 0 /\ I = {}
      \/ FirstNumbered(s, n) \in I /\ \A k \in I : FirstNumbered(s, n) <= k
  BY <1>1, <1>3, FirstOf
<1>. QED BY <1>2, <1>4

\* The inode of the first entry with a name, or -1.
Lookup(s, x) == IF FirstNamed(s, x) = 0 THEN -1 ELSE s[FirstNamed(s, x)].iNum

LEMMA LookupIs ==
  ASSUME NEW s \in Files, NEW x
  PROVE  \/ Lookup(s, x) = -1 /\ \A k \in DOMAIN s : s[k].name # x
         \/ \E i \in DOMAIN s : /\ s[i].name = x /\ Lookup(s, x) = s[i].iNum
                                /\ \A k \in DOMAIN s : s[k].name = x => i <= k
<1>. DEFINE I == {i \in 1 .. Len(s) : s[i].name = x}
<1>1. FirstNamed(s, x) = IF I # {} THEN Min(I) ELSE 0
  BY DEF SelectInSeq, FirstNamed
<1>2. DOMAIN s = 1 .. Len(s) /\ Len(s) \in Nat
  BY LenProperties DEF Files
<1>3. I \in SUBSET (Nat \ {0})
  BY <1>2
<1>4. \/ FirstNamed(s, x) = 0 /\ I = {}
      \/ FirstNamed(s, x) \in I /\ \A k \in I : FirstNamed(s, x) <= k
  BY <1>1, <1>3, FirstOf
<1>5. FirstNamed(s, x) \in I => FirstNamed(s, x) # 0
  BY <1>3
<1>. QED BY <1>2, <1>4, <1>5 DEF Lookup

\* What is in a directory's block.
LEMMA FileEntries ==
  ASSUME NEW s \in Files, NEW i \in DOMAIN s
  PROVE  s[i] \in EntryType /\ s[i].iNum \in Inodes
<1>1. s[i] \in EntryType
  BY DEF Files
<1>2. \A e \in EntryType : e.iNum \in Inodes
  BY DEF EntryType
<1>. QED BY <1>1, <1>2

\* It is the number of an inode.
LEMMA LookupType ==
  ASSUME NEW s \in Files, NEW x
  PROVE  Lookup(s, x) \in Inodes \cup {-1}
<1>1. \A i \in DOMAIN s : s[i] \in EntryType
  BY LenProperties DEF Files
<1>2. \A e \in EntryType : e.iNum \in Inodes
  BY DEF EntryType
<1>. QED BY <1>1, <1>2, LookupIs

\* A path has one name or two.
LEMMA PathIs ==
  ASSUME NEW path \in Paths
  PROVE  /\ path # <<>> /\ path[1] \in Names
         /\ \/ /\ Len(path) = 1 /\ path = <<path[1]>>
               /\ Directory(path) = <<>> /\ Last(path) = path[1]
            \/ /\ Len(path) = 2 /\ path = <<path[1], path[2]>> /\ path[2] \in Names
               /\ Directory(path) = <<path[1]>> /\ Last(path) = path[2]
<1>1. ASSUME NEW n \in Names, path = <<n>>
      PROVE  Len(path) = 1 /\ path[1] = n /\ Directory(path) = <<>> /\ Last(path) = path[1]
  BY <1>1 DEF Directory, Front, Last
<1>2. ASSUME NEW d \in Names, NEW n \in Names, path = <<d, n>>
      PROVE  /\ Len(path) = 2 /\ path[1] = d /\ path[2] = n
             /\ Directory(path) = <<d>> /\ Last(path) = path[2]
  <2>1. path \in Seq(Names) /\ Len(path) = 2 /\ path[1] = d /\ path[2] = n
    BY <1>2
  <2>2. Directory(path) = SubSeq(path, 1, 1)
    BY <2>1 DEF Directory, Front
  <2>3. SubSeq(path, 1, 1) \in Seq(Names) /\ Len(SubSeq(path, 1, 1)) = 1 /\ SubSeq(path, 1, 1)[1] = d
    BY <2>1
  <2>4. <<d>> \in Seq(Names) /\ Len(<<d>>) = 1 /\ <<d>>[1] = d
    OBVIOUS
  <2>5. SubSeq(path, 1, 1) = <<d>>
    <3>. DEFINE s == SubSeq(path, 1, 1)
                t == <<d>>
    <3>1. s \in Seq(Names) /\ t \in Seq(Names) /\ Len(s) = Len(t) /\ Len(s) = 1 /\ s[1] = t[1]
      BY <2>3, <2>4
    <3>. HIDE DEF s, t
    <3>2. \A i \in 1 .. Len(s) : s[i] = t[i]
      BY <3>1
    <3>3. s = t
      BY <3>1, <3>2, SeqEqual
    <3>. QED BY <3>3 DEF s, t
  <2>. QED BY <2>1, <2>2, <2>5 DEF Last
<1>3. (\E n \in Names : path = <<n>>) \/ (\E d, n \in Names : path = <<d, n>>)
  BY DEF Paths
<1>. QED BY <1>1, <1>2, <1>3

\* What a path leads to.
LEMMA FromPath ==
  ASSUME Types
  PROVE  /\ InodeFromPath(<<>>) = 0
         /\ \A a \in Names :
              InodeFromPath(<<a>>) = IF Lookup(Entries(0), a) <= 0 THEN -1 ELSE Lookup(Entries(0), a)
         /\ \A d, a \in Names :
              LET n == Lookup(Entries(0), d)
                  m == Lookup(Entries(n), a)
              IN  InodeFromPath(<<d, a>>) = IF n <= 0 THEN -1 ELSE IF m > 0 /\ m # n THEN m ELSE -1
<1>1. \A n \in Inodes : \A x \in Names : FindInode[n][x] = Lookup(Entries(n), x)
  BY DEF FindInode, Lookup
<1>2. \A a \in Names : <<a>> # <<>> /\ <<a>>[1] = a /\ Len(<<a>>) = 1
  OBVIOUS
<1>3. \A d, a \in Names : /\ <<d, a>> # <<>> /\ <<d, a>>[1] = d /\ <<d, a>>[2] = a
                          /\ Len(<<d, a>>) = 2
  OBVIOUS
<1>4. 0 \in Inodes /\ \A a \in Names : FindInode[0][a] \in Inodes \cup {-1}
  BY <1>1, LookTypes, LookupType, Numbers
<1>5. \A n \in Inodes \cup {-1} : n \in Int /\ (~ (n <= 0) => n \in Inodes)
  BY Numbers
<1>6. InodeFromPath(<<>>) = 0
  BY DEF InodeFromPath
<1>7. ASSUME NEW a \in Names
      PROVE  InodeFromPath(<<a>>) = IF Lookup(Entries(0), a) <= 0 THEN -1 ELSE Lookup(Entries(0), a)
  BY <1>1, <1>2, <1>4 DEF InodeFromPath
<1>8. ASSUME NEW d \in Names, NEW a \in Names
      PROVE  LET n == Lookup(Entries(0), d)
                 m == Lookup(Entries(n), a)
             IN  InodeFromPath(<<d, a>>) = IF n <= 0 THEN -1 ELSE IF m > 0 /\ m # n THEN m ELSE -1
  <2>1. PICK n \in Inodes \cup {-1} : n = FindInode[0][d] /\ n = Lookup(Entries(0), d)
    BY <1>1, <1>4
  <2>2. InodeFromPath(<<d, a>>) =
          IF n <= 0 THEN -1 ELSE IF FindInode[n][a] > 0 /\ FindInode[n][a] # n
                                 THEN FindInode[n][a] ELSE -1
    <3>1. ASSUME NEW q, q # <<>>, Len(q) # 1
          PROVE  LET k == FindInode[0][q[1]]
                     m == FindInode[k][q[2]]
                 IN  InodeFromPath(q) = IF k <= 0 THEN -1 ELSE IF m > 0 /\ m # k THEN m ELSE -1
      BY <3>1, Zenon DEF InodeFromPath
    <3>2. <<d, a>> # <<>> /\ Len(<<d, a>>) # 1
      BY <1>3
    <3>3. LET k == FindInode[0][<<d, a>>[1]]
              m == FindInode[k][<<d, a>>[2]]
          IN  InodeFromPath(<<d, a>>) = IF k <= 0 THEN -1 ELSE IF m > 0 /\ m # k THEN m ELSE -1
      BY <3>1, <3>2, Zenon
    <3>. QED BY <1>3, <2>1, <3>3, Zenon
  <2>3. ~ (n <= 0) => FindInode[n][a] = Lookup(Entries(n), a)
    BY <1>1, <1>5, <2>1
  <2>. QED BY <2>1, <2>2, <2>3
<1>. QED BY <1>6, <1>7, <1>8

\* sfs_getattr finds every directory on the way.
LEMMA ExistsIs ==
  /\ Exists(<<>>)
  /\ \A a \in Names :
       Exists(<<a>>) <=> InodeFromPath(<<a>>) > 0 /\ IsUsed(InodeFromPath(<<a>>))
  /\ \A d, a \in Names :
       Exists(<<d, a>>) <=> /\ Exists(<<d>>)
                            /\ InodeFromPath(<<d, a>>) > 0 /\ IsUsed(InodeFromPath(<<d, a>>))
<1>. DEFINE Found(q) == InodeFromPath(q) > 0 /\ IsUsed(InodeFromPath(q))
<1>1. Exists(<<>>)
  BY DEF Exists
<1>2. ASSUME NEW a \in Names PROVE Exists(<<a>>) <=> Found(<<a>>)
  <2>. DEFINE p == <<a>>
  <2>1. p \in Seq(Names) /\ Len(p) = 1
    OBVIOUS
  <2>2. SubSeq(p, 1, 1) = p
    BY <2>1, SubSeqFull
  <2>3. Exists(p) <=> \A k \in 1 .. 1 : Found(SubSeq(p, 1, k))
    BY <2>1 DEF Exists
  <2>. HIDE DEF Found, p
  <2>4. 1 .. 1 = {1}
    OBVIOUS
  <2>5. Exists(p) <=> Found(SubSeq(p, 1, 1))
    BY <2>3, <2>4
  <2>6. Exists(p) <=> Found(p)
    BY <2>2, <2>5
  <2>. QED BY <2>6 DEF p
<1>3. ASSUME NEW d \in Names, NEW a \in Names
      PROVE  Exists(<<d, a>>) <=> Found(<<d>>) /\ Found(<<d, a>>)
  <2>. DEFINE p == <<d, a>>
  <2>1. p \in Paths /\ p \in Seq(Names)
    BY DEF Paths
  <2>2. Len(p) = 2 /\ SubSeq(p, 1, 1) = <<d>>
    BY <2>1, PathIs DEF Directory, Front
  <2>3. SubSeq(p, 1, 2) = p
    BY <2>1, <2>2, SubSeqFull
  <2>4. Exists(p) <=> \A k \in 1 .. 2 : Found(SubSeq(p, 1, k))
    BY <2>2 DEF Exists
  <2>. HIDE DEF Found, p
  <2>5. \A k \in 1 .. 2 : k = 1 \/ k = 2
    OBVIOUS
  <2>6. Exists(p) <=> Found(SubSeq(p, 1, 1)) /\ Found(SubSeq(p, 1, 2))
    BY <2>4, <2>5
  <2>7. Exists(p) <=> Found(<<d>>) /\ Found(p)
    BY <2>2, <2>3, <2>6
  <2>. QED BY <2>7 DEF p
<1>. QED BY <1>1, <1>2, <1>3

\* The directory of a path that exists.
LEMMA DirectoryFound ==
  ASSUME Types, NEW path \in Paths, Exists(Directory(path))
  PROVE  InodeFromPath(Directory(path)) \in Inodes
<1>1. CASE Directory(path) = <<>>
  BY <1>1, FromPath, Numbers
<1>2. CASE Directory(path) = <<path[1]>>
  <2>1. path[1] \in Names /\ Entries(0) \in Files
    BY PathIs, LookTypes, Numbers
  <2>. QED BY <1>2, <2>1, FromPath, ExistsIs, LookupType
<1>. QED BY <1>1, <1>2, PathIs

\* What exists is entered in a directory that does.
LEMMA PathFound ==
  ASSUME Types, NEW path \in Paths, Exists(path)
  PROVE  LET n == InodeFromPath(path)
             d == InodeFromPath(Directory(path))
         IN  /\ Exists(Directory(path)) /\ d \in Inodes
             /\ n \in Inodes \ {0} /\ n # d /\ IsUsed(n)
             /\ \E i \in DOMAIN Entries(d) : /\ Entries(d)[i].name = Last(path)
                                             /\ Entries(d)[i].iNum = n
<1>1. CASE Len(path) = 1 /\ path = <<path[1]>> /\ Directory(path) = <<>> /\ Last(path) = path[1]
  <2>. DEFINE a == path[1]
              n == Lookup(Entries(0), a)
  <2>1. a \in Names /\ Entries(0) \in Files
    BY PathIs, LookTypes, Numbers
  <2>2. InodeFromPath(path) = n /\ n > 0 /\ IsUsed(n)
    BY <1>1, <2>1, FromPath, ExistsIs, LookupType
  <2>3. n \in Inodes
    BY <2>1, <2>2, LookupType
  <2>4. InodeFromPath(Directory(path)) = 0 /\ Exists(Directory(path))
    BY <1>1, FromPath, ExistsIs
  <2>5. \E i \in DOMAIN Entries(0) : Entries(0)[i].name = a /\ Entries(0)[i].iNum = n
    BY <2>1, <2>2, LookupIs
  <2>. HIDE DEF n
  <2>. QED BY <1>1, <2>2, <2>3, <2>4, <2>5, Numbers
<1>2. CASE /\ Len(path) = 2 /\ path = <<path[1], path[2]>> /\ path[2] \in Names
           /\ Directory(path) = <<path[1]>> /\ Last(path) = path[2]
  <2>. DEFINE d == Lookup(Entries(0), path[1])
              n == Lookup(Entries(d), path[2])
  <2>1. path[1] \in Names /\ Entries(0) \in Files
    BY PathIs, LookTypes, Numbers
  <2>2. Exists(<<path[1]>>) /\ InodeFromPath(path) > 0 /\ IsUsed(InodeFromPath(path))
    BY <1>2, <2>1, ExistsIs
  <2>3. d > 0 /\ d \in Inodes /\ InodeFromPath(<<path[1]>>) = d
    BY <2>1, <2>2, FromPath, ExistsIs, LookupType
  <2>4. InodeFromPath(path) = n /\ n > 0 /\ n # d
    BY <1>2, <2>1, <2>2, <2>3, FromPath
  <2>5. Entries(d) \in Files
    BY <2>3, LookTypes
  <2>6. n \in Inodes /\ \E i \in DOMAIN Entries(d) : /\ Entries(d)[i].name = path[2]
                                                     /\ Entries(d)[i].iNum = n
    BY <2>4, <2>5, LookupType, LookupIs
  <2>. HIDE DEF n, d
  <2>. QED BY <1>2, <2>2, <2>3, <2>4, <2>6, Numbers
<1>. QED BY <1>1, <1>2, PathIs

\* A path leads where it did while the table and the directories stay.
LEMMA PathKept ==
  ASSUME disk'.itable = disk.itable, disk'.data = disk.data
  PROVE  /\ \A n : Inode(n)' = Inode(n) /\ Entries(n)' = Entries(n)
         /\ \A q : InodeFromPath(q)' = InodeFromPath(q)
<1>1. \A n : Inode(n)' = Inode(n) /\ Entries(n)' = Entries(n)
  BY DEF Inode, Entries
<1>2. FindInode' = FindInode
  BY <1>1 DEF FindInode
<1>. QED BY <1>1, <1>2 DEF InodeFromPath

\* A sequence with one element taken out.
LEMMA RemoveAtIs ==
  ASSUME NEW s \in Files, NEW i \in DOMAIN s
  PROVE  /\ RemoveAt(s, i) \in Files
         /\ Len(RemoveAt(s, i)) = Len(s) - 1
         /\ \A k \in 1 .. (Len(s) - 1) : RemoveAt(s, i)[k] = IF k < i THEN s[k] ELSE s[k + 1]
<1>. DEFINE a == SubSeq(s, 1, i - 1)
            b == SubSeq(s, i + 1, Len(s))
<1>1. Len(s) \in Nat /\ DOMAIN s = 1 .. Len(s) /\ i \in 1 .. Len(s)
      /\ \A k \in 1 .. Len(s) : s[k] \in EntryType
  BY LenProperties DEF Files
<1>2. /\ a \in Seq(EntryType) /\ Len(a) = i - 1 /\ \A k \in 1 .. (i - 1) : a[k] = s[k]
  <2>1. \A k \in 1 .. (i - 1) : s[k] \in EntryType
    BY <1>1
  <2>2. i - 1 \in Int /\ 1 \in Int
    BY <1>1
  <2>3. /\ a \in Seq(EntryType) /\ Len(a) = IF 1 <= i - 1 THEN (i - 1) - 1 + 1 ELSE 0
        /\ \A k \in 1 .. ((i - 1) - 1 + 1) : a[k] = s[1 + k - 1]
    BY <2>1, <2>2, SubSeqProperties
  <2>. HIDE DEF a
  <2>. QED BY <1>1, <2>3
<1>3. /\ b \in Seq(EntryType) /\ Len(b) = Len(s) - i
      /\ \A k \in 1 .. (Len(s) - i) : b[k] = s[i + k]
  <2>1. \A k \in (i + 1) .. Len(s) : s[k] \in EntryType
    BY <1>1
  <2>2. i + 1 \in Int /\ Len(s) \in Int
    BY <1>1
  <2>3. /\ b \in Seq(EntryType) /\ Len(b) = IF i + 1 <= Len(s) THEN Len(s) - (i + 1) + 1 ELSE 0
        /\ \A k \in 1 .. (Len(s) - (i + 1) + 1) : b[k] = s[(i + 1) + k - 1]
    BY <2>1, <2>2, SubSeqProperties, SMTT(30)
  <2>. HIDE DEF b
  <2>4. Len(b) = Len(s) - i
    BY <1>1, <2>3
  <2>5. ASSUME NEW k \in 1 .. (Len(s) - i) PROVE b[k] = s[i + k]
    <3>1. k \in 1 .. (Len(s) - (i + 1) + 1) /\ (i + 1) + k - 1 = i + k
      BY <1>1
    <3>. QED BY <2>3, <3>1
  <2>. QED BY <2>3, <2>4, <2>5
<1>4. RemoveAt(s, i) = a \o b
  BY DEF RemoveAt
<1>. HIDE DEF a, b
<1>5. /\ a \o b \in Seq(EntryType) /\ Len(a \o b) = Len(a) + Len(b)
      /\ \A k \in 1 .. Len(a) + Len(b) : (a \o b)[k] = IF k <= Len(a) THEN a[k] ELSE b[k - Len(a)]
  BY <1>2, <1>3, ConcatProperties
<1>6. ASSUME NEW k \in 1 .. (Len(s) - 1)
      PROVE  RemoveAt(s, i)[k] = IF k < i THEN s[k] ELSE s[k + 1]
  <2>1. k \in 1 .. Len(a) + Len(b) /\ (k <= Len(a) <=> k < i)
    BY <1>1, <1>2, <1>3
  <2>2. CASE k < i
    BY <1>1, <1>2, <1>4, <1>5, <2>1, <2>2
  <2>3. CASE ~ (k < i)
    <3>1. k - Len(a) \in 1 .. (Len(s) - i) /\ i + (k - Len(a)) = k + 1
      BY <1>1, <1>2, <2>3
    <3>. QED BY <1>3, <1>4, <1>5, <2>1, <2>3, <3>1, SMTT(30)
  <2>. QED BY <2>2, <2>3
<1>. QED BY <1>1, <1>2, <1>3, <1>4, <1>5, <1>6 DEF Files

\* A sequence with an element behind it.
LEMMA AppendIs ==
  ASSUME NEW s \in Files, NEW e \in EntryType
  PROVE  /\ Append(s, e) \in Files /\ Len(Append(s, e)) = Len(s) + 1 /\ Len(s) \in Nat
         /\ \A k \in 1 .. (Len(s) + 1) : Append(s, e)[k] = IF k <= Len(s) THEN s[k] ELSE e
         /\ SubSeq(s, 1, Len(s)) \o <<e>> = Append(s, e)
<1>1. SubSeq(s, 1, Len(s)) = s
  BY SubSeqFull DEF Files
<1>2. Append(s, e) = s \o <<e>>
  BY DEF Files
<1>3. /\ Append(s, e) \in Files /\ Len(Append(s, e)) = Len(s) + 1 /\ Len(s) \in Nat
      /\ \A k \in 1 .. (Len(s) + 1) : Append(s, e)[k] = IF k <= Len(s) THEN s[k] ELSE e
  BY DEF Files
<1>. QED BY <1>1, <1>2, <1>3

\* The two dots.
LEMMA DotsAre ==
  ASSUME NEW n \in Inodes, NEW d \in Inodes
  PROVE  /\ DotEntries(n, d) \in Files /\ Len(DotEntries(n, d)) = 2
         /\ DOMAIN DotEntries(n, d) = {1, 2}
         /\ DotEntries(n, d)[1] = Entry(n, ".") /\ DotEntries(n, d)[2] = Entry(d, "..")
<1>1. Entry(n, ".") \in EntryType /\ Entry(d, "..") \in EntryType
  BY DEF Entry, EntryType, Dots
<1>. QED BY <1>1 DEF DotEntries, Files

LEMMA DotNames ==
  ASSUME NEW n \in Inodes, NEW d \in Inodes, NEW i \in DOMAIN DotEntries(n, d)
  PROVE  DotEntries(n, d)[i].name \in Dots
<1>1. i = 1 \/ i = 2
  BY DotsAre
<1>2. Entry(n, ".").name = "." /\ Entry(d, "..").name = ".."
  BY DEF Entry
<1>3. DotEntries(n, d)[1] = Entry(n, ".") /\ DotEntries(n, d)[2] = Entry(d, "..")
  BY DotsAre
<1>. QED BY <1>1, <1>2, <1>3 DEF Dots

\* The frames of deleteAllInodeEntries.
LEMMA FramesAre ==
  ASSUME NEW s \in Frames, s # <<>>
  PROVE  /\ Last(s) \in [block : Blocks, pos : Nat \ {0}] /\ Front(s) \in Frames
         /\ \A f \in [block : Blocks, pos : Nat \ {0}] : /\ Append(s, f) \in Frames
                                                         /\ Append(s, f) # <<>>
                                                         /\ Append(Front(s), f) \in Frames
                                                         /\ Append(Front(s), f) # <<>>
                                                         /\ Last(Append(s, f)) = f
                                                         /\ Last(Append(Front(s), f)) = f
<1>. DEFINE F == [block : Blocks, pos : Nat \ {0}]
<1>1. Len(s) \in Nat \ {0} /\ \A k \in 1 .. Len(s) : s[k] \in F
  BY EmptySeq, LenProperties DEF Frames
<1>2. Last(s) \in F
  BY <1>1 DEF Last
<1>3. Front(s) \in Seq(F)
  <2>1. \A k \in 1 .. (Len(s) - 1) : s[k] \in F
    BY <1>1
  <2>2. 1 \in Int /\ Len(s) - 1 \in Int
    BY <1>1
  <2>. QED BY <2>1, <2>2, SubSeqProperties DEF Front
<1>. HIDE DEF F
<1>4. ASSUME NEW t \in Seq(F), NEW f \in F
      PROVE  Append(t, f) \in Seq(F) /\ Append(t, f) # <<>> /\ Last(Append(t, f)) = f
  BY DEF Last
<1>5. s \in Seq(F)
  BY DEF Frames, F
<1>6. /\ Last(s) \in F /\ Front(s) \in Seq(F)
      /\ \A f \in F : /\ Append(s, f) \in Seq(F) /\ Append(s, f) # <<>>
                      /\ Append(Front(s), f) \in Seq(F) /\ Append(Front(s), f) # <<>>
                      /\ Last(Append(s, f)) = f /\ Last(Append(Front(s), f)) = f
  BY <1>2, <1>3, <1>4, <1>5
<1>. QED BY <1>6 DEF Frames, F

-----------------------------------------------------------------------------
(***************************************************************************)
(* There is a free block whenever one is looked for.                       *)
(***************************************************************************)
NewBlock == /\ FreeBlock.bitmap = 0
            /\ FreeBlock.block \in Blocks \ ({0} \cup disk.bbitmap[0])

LEMMA BlockFound ==
  ASSUME EnoughBlocks, mount = "root block" \/ \E w \in Workers : pc[w] = "find block"
  PROVE  NewBlock
<1>1. FindFirstFree(disk.bbitmap[0]) # -1
  BY DEF EnoughBlocks
<1>2. FindFirstFree(disk.bbitmap[0]) \in Blocks \ ({0} \cup disk.bbitmap[0])
  BY <1>1, FirstFree
<1>3. PICK b : b = FindFirstFree(disk.bbitmap[0])
  OBVIOUS
<1>4. FreeBlock = [bitmap |-> 0, block |-> b]
  BY <1>1, <1>3, FreeBlockIs
<1>. QED BY <1>2, <1>3, <1>4 DEF NewBlock

-----------------------------------------------------------------------------
(***************************************************************************)
(* Every step keeps the types.                                             *)
(***************************************************************************)
LEMMA MountTypes ==
  ASSUME Types, EnoughBlocks, MountStep
  PROVE  Types'
<1>1. UNCHANGED <<pc, loc, entry, dataBlockBuffer, crashes>> /\ mount # "mounted"
  BY DEF MountStep, Mount, FormatSuper, FormatInodeBitmap, FormatBlockBitmaps, FormatFirstBlockBitmap,
     FormatRootBlock, FormatRootEntries, FormatInodeTable, Format
<1>2. mount' \in {"unmounted", "mounted"} \cup Formatting
  BY DEF MountStep, Mount, FormatSuper, FormatInodeBitmap, FormatBlockBitmaps, FormatFirstBlockBitmap,
     FormatRootBlock, FormatRootEntries, FormatInodeTable, Format, Formatting
<1>3. disk' \in DiskType /\ format' \in [block : Blocks, next : 0 .. (NUM_INODE_BLOCKS - 1)]
  <2>1. disk \in DiskType /\ format \in [block : Blocks, next : 0 .. (NUM_INODE_BLOCKS - 1)]
    BY DEF Types
  <2>2. CASE Mount \/ FormatSuper \/ FormatInodeBitmap \/ FormatBlockBitmaps
    BY <2>1, <2>2 DEF Mount, FormatSuper, FormatInodeBitmap, FormatBlockBitmaps, DiskType
  <2>3. CASE FormatFirstBlockBitmap
    <3>1. PICK bits \in Uninitialised : disk' = [disk EXCEPT !.bbitmap[0] = bits]
      BY <2>3 DEF FormatFirstBlockBitmap
    <3>2. bits \in SUBSET Blocks
      BY MemoryAssumption
    <3>. QED BY <2>1, <2>3, <3>1, <3>2 DEF FormatFirstBlockBitmap, DiskType
  <2>4. CASE FormatRootBlock
    <3>1. NewBlock
      BY <2>4, BlockFound DEF FormatRootBlock, Format
    <3>2. disk' = [disk EXCEPT !.bbitmap[FreeBlock.bitmap] = @ \cup {FreeBlock.block}]
          /\ format' = [format EXCEPT !.block = FreeBlock.block]
      BY <2>4 DEF FormatRootBlock
    <3>. QED BY <2>1, <3>1, <3>2, Numbers DEF NewBlock, DiskType
  <2>5. CASE FormatRootEntries
    <3>1. DotEntries(0, 0) \in Files
      BY Numbers, DotsAre
    <3>. QED BY <2>1, <2>5, <3>1 DEF FormatRootEntries, DiskType
  <2>6. CASE FormatInodeTable
    <3>0. PICK left \in [0 .. (NINODES_BLOCK - 1) -> Leftovers] :
            /\ disk' = [disk EXCEPT !.itable[format.next] =
                          [j \in 0 .. (NINODES_BLOCK - 1) |->
                            IF format.next = 0 /\ j = 0 THEN NewInode("dir", format.block)
                            ELSE [size |-> -1, mode |-> left[j].mode, block |-> left[j].block]]]
            /\ format' = [format EXCEPT !.next = (@ + 1) % NUM_INODE_BLOCKS]
      BY <2>6 DEF FormatInodeTable
    <3>. DEFINE fresh == [j \in 0 .. (NINODES_BLOCK - 1) |->
                            IF format.next = 0 /\ j = 0 THEN NewInode("dir", format.block)
                            ELSE [size |-> -1, mode |-> left[j].mode, block |-> left[j].block]]
    <3>1. fresh \in TableType
      <4>1. \A j \in 0 .. (NINODES_BLOCK - 1) :
              [size |-> -1, mode |-> left[j].mode, block |-> left[j].block] \in InodeType
        BY MemoryAssumption DEF InodeType
      <4>. QED BY <2>1, <4>1, LookTypes DEF TableType
    <3>2. disk' = [disk EXCEPT !.itable[format.next] = fresh]
          /\ format' = [format EXCEPT !.next = (@ + 1) % NUM_INODE_BLOCKS]
      BY <3>0
    <3>. HIDE DEF fresh
    <3>3. (format.next + 1) % NUM_INODE_BLOCKS \in 0 .. (NUM_INODE_BLOCKS - 1)
      BY <2>1, Numbers
    <3>. QED BY <2>1, <3>1, <3>2, <3>3 DEF DiskType
  <2>. QED BY <2>2, <2>3, <2>4, <2>5, <2>6 DEF MountStep
<1>. QED BY <1>1, <1>2, <1>3 DEF Types

\* A worker goes on, or has answered.
Labels == {"idle"} \cup Finding \cup Filling \cup Removing \cup Deleting

LEMMA CallWritten ==
  ASSUME Types, NEW w \in Workers, NEW l \in Labels, NEW c \in CallType,
         mount = "mounted", l # "idle" => c.path \in Paths,
         Goto(w, l), Set(w, c), UNCHANGED system, disk' \in DiskType,
         entry' \in [owner : Workers \cup {"freed"}, pos : Nat], dataBlockBuffer' \in Files
  PROVE  Types'
<1>1. pc \in [Workers -> Labels] /\ loc \in [Workers -> CallType]
  BY DEF Types, Labels
<1>2. pc' = [pc EXCEPT ![w] = l] /\ loc' = [loc EXCEPT ![w] = c]
  BY DEF Goto, Set
<1>3. pc' \in [Workers -> Labels] /\ loc' \in [Workers -> CallType]
  BY <1>1, <1>2
<1>4. ASSUME NEW v \in Workers, pc'[v] # "idle"
      PROVE  loc'[v].path \in Paths
  <2>1. CASE v = w
    BY <1>1, <1>2, <1>4, <2>1
  <2>2. CASE v # w
    BY <1>1, <1>2, <1>4, <2>2 DEF Types
  <2>. QED BY <2>1, <2>2
<1>. QED BY <1>3, <1>4 DEF Types, Labels, system

LEMMA NoCallType == NoCall \in CallType
<1>1. <<>> \in Files /\ <<>> \in Frames
  BY EmptySeq DEF Files, Frames
<1>. QED BY <1>1, Numbers DEF NoCall, CallType

\* What a call may be is left when the request is answered.
LEMMA ReplyTypes ==
  ASSUME Types, NEW w \in Workers, NEW r \in {"ok", "ENOENT", "EFAULT", "-1"},
         mount = "mounted", Reply(w, r), UNCHANGED system, disk' \in DiskType,
         entry' \in [owner : Workers \cup {"freed"}, pos : Nat], dataBlockBuffer' \in Files
  PROVE  Types'
<1>. DEFINE c == [NoCall EXCEPT !.call = loc[w].call, !.path = loc[w].path, !.ret = r]
<1>1. loc[w] \in CallType
  BY DEF Types
<1>2. c \in CallType
  BY <1>1, NoCallType DEF CallType
<1>3. Goto(w, "idle") /\ Set(w, c)
  BY DEF Reply
<1>. HIDE DEF c
<1>4. "idle" \in Labels
  BY DEF Labels
<1>. QED BY <1>2, <1>3, <1>4, CallWritten

LEMMA StartTypes ==
  ASSUME Types, NEW w \in Workers, Request(w)
  PROVE  Types'
<1>1. disk \in DiskType /\ dataBlockBuffer \in Files
      /\ entry \in [owner : Workers \cup {"freed"}, pos : Nat]
  BY DEF Types
<1>2. ASSUME NEW path \in Paths, NEW call \in {"create", "mkdir"}, StartCreate(w, call, path)
      PROVE  Types'
  <2>. DEFINE c == [NoCall EXCEPT !.call = call, !.path = path]
  <2>1. c \in CallType /\ c.path = path
    BY NoCallType DEF CallType
  <2>2. Set(w, c)
    BY <1>2 DEF StartCreate
  <2>. HIDE DEF c
  <2>3. "find inode" \in Labels
    BY DEF Labels, Finding
  <2>4. /\ mount = "mounted" /\ Goto(w, "find inode") /\ UNCHANGED <<disk, globals, system>>
    BY <1>2 DEF StartCreate, Begin, At
  <2>. QED BY <1>1, <2>1, <2>2, <2>3, <2>4, CallWritten DEF globals
<1>3. ASSUME NEW path \in Paths, NEW call \in {"unlink", "rmdir"}, StartRemove(w, call, path)
      PROVE  Types'
  <2>. DEFINE n == InodeFromPath(path)
              d == InodeFromPath(Directory(path))
              b == Inode(n).block
              c == [NoCall EXCEPT !.call = call, !.path = path, !.num = n, !.block = b, !.dir = d]
  <2>1. n \in Inodes /\ d \in Inodes /\ b \in Blocks
    <3>1. n \in Inodes /\ d \in Inodes
      BY <1>3, PathFound DEF StartRemove
    <3>2. Inode(n) \in InodeType
      BY <3>1, LookTypes
    <3>. QED BY <3>1, <3>2 DEF InodeType
  <2>2. Set(w, c)
    BY <1>3 DEF StartRemove
  <2>. HIDE DEF n, d, b
  <2>3. c \in CallType /\ c.path = path
    BY <2>1, NoCallType DEF CallType
  <2>. HIDE DEF c
  <2>4. "read inode" \in Labels
    BY DEF Labels, Removing
  <2>5. /\ mount = "mounted" /\ Goto(w, "read inode") /\ UNCHANGED <<disk, globals, system>>
    BY <1>3 DEF StartRemove, Begin, At
  <2>. QED BY <1>1, <2>2, <2>3, <2>4, <2>5, CallWritten DEF globals
<1>. QED BY <1>2, <1>3 DEF Request

\* The cursor is where this request left it, so that its entry is put last.
LEMMA Filled ==
  ASSUME Types, OneRequest, RequestInv, NEW w \in Workers, FillEntry(w)
  PROVE  Set(w, [loc[w] EXCEPT !.buffer = Append(@, Entry(loc[w].num, Last(loc[w].path)))])
<1>. DEFINE new == Entry(loc[w].num, Last(loc[w].path))
            old == loc[w].buffer
<1>1. pc[w] = "fill entry" /\ FillingInv(w)
  BY DEF FillEntry, At, RequestInv
<1>2. entry = [owner |-> w, pos |-> Len(Entries(loc[w].dir)) + 1] /\ old = Entries(loc[w].dir)
  BY <1>1 DEF FillingInv, Filling
<1>3. entry.owner = w /\ entry.pos = Len(old) + 1
  BY <1>2
<1>4. Set(w, [loc[w] EXCEPT !.buffer = SubSeq(old, 1, entry.pos - 1) \o <<new>>])
  BY <1>1, <1>3 DEF FillEntry
<1>5. old \in Files /\ new \in EntryType
  BY <1>1, PathIs DEF Types, CallType, Entry, EntryType
<1>6. SubSeq(old, 1, Len(old)) \o <<new>> = Append(old, new) /\ Len(old) \in Nat
  BY <1>5, AppendIs
<1>. HIDE DEF new, old
<1>7. entry.pos - 1 = Len(old)
  BY <1>3, <1>6
<1>8. SubSeq(old, 1, entry.pos - 1) \o <<new>> = Append(old, new)
  BY <1>6, <1>7
<1>. QED BY <1>4, <1>8 DEF old, new

LEMMA CreateTypes ==
  ASSUME Types, EnoughBlocks, OneRequest, RequestInv,
         NEW w \in Workers, CreateStep(w)
  PROVE  Types'
<1>1. /\ disk \in DiskType /\ dataBlockBuffer \in Files /\ loc[w] \in CallType
      /\ entry \in [owner : Workers \cup {"freed"}, pos : Nat]
  BY DEF Types
<1>2. mount = "mounted" /\ UNCHANGED system /\ dataBlockBuffer' \in Files
  BY <1>1 DEF CreateStep, ReadInodeBitmap, WriteInodeBitmap, ReadTable, ReadBlockBitmap,
     WriteBlockBitmap, WriteDots, ReadDirectory, FillEntry, WriteEntry, WriteTable, At, globals
<1>3. pc[w] # "idle" => loc[w].path \in Paths
  BY DEF Types
<1>4. \A l \in Finding \cup Filling : l \in Labels
  BY DEF Labels
<1>5. ASSUME NEW l \in Finding \cup Filling, NEW c \in CallType, c.path = loc[w].path, pc[w] # "idle",
             Goto(w, l), Set(w, c), disk' \in DiskType,
             entry' \in [owner : Workers \cup {"freed"}, pos : Nat]
      PROVE  Types'
  BY <1>2, <1>3, <1>4, <1>5, CallWritten
<1>6. CASE ReadInodeBitmap(w)
  <2>. DEFINE n == FindFirstFree(disk.ibitmap)
              c == [loc[w] EXCEPT !.num = n, !.bits = disk.ibitmap \cup {n}]
  <2>1. CASE n = -1
    <3>1. Reply(w, "ENOENT")
      BY <1>6, <2>1 DEF ReadInodeBitmap
    <3>. QED BY <1>1, <1>2, <1>6, <3>1, ReplyTypes DEF ReadInodeBitmap, globals
  <2>2. CASE n # -1
    <3>1. Goto(w, "write inode bitmap") /\ Set(w, c) /\ pc[w] # "idle"
          /\ UNCHANGED <<disk, globals>>
      BY <1>6, <2>2 DEF ReadInodeBitmap, At
    <3>2. n \in Blocks /\ n \in Inodes
      BY <2>2, FirstFree, Numbers
    <3>. HIDE DEF n
    <3>3. c \in CallType /\ c.path = loc[w].path
      BY <1>1, <3>2 DEF CallType, DiskType
    <3>. HIDE DEF c
    <3>. QED BY <1>1, <1>5, <3>1, <3>3 DEF Finding, globals
  <2>. QED BY <2>1, <2>2
<1>7. CASE WriteInodeBitmap(w)
  <2>. DEFINE c == [loc[w] EXCEPT !.bits = {}]
  <2>1. Goto(w, "read table") /\ Set(w, c) /\ pc[w] # "idle" /\ UNCHANGED entry
        /\ disk' = [disk EXCEPT !.ibitmap = loc[w].bits]
    BY <1>7 DEF WriteInodeBitmap, At, globals
  <2>2. c \in CallType /\ c.path = loc[w].path /\ loc[w].bits \subseteq Blocks
    BY <1>1 DEF CallType
  <2>. HIDE DEF c
  <2>3. disk' \in DiskType
    BY <1>1, <2>1, <2>2 DEF DiskType
  <2>. QED BY <1>1, <1>5, <2>1, <2>2, <2>3 DEF Finding
<1>8. CASE ReadTable(w)
  <2>. DEFINE t == disk.itable[TableBlock(loc[w].num)]
              c == [loc[w] EXCEPT !.table = t]
  <2>1. CASE Inode(loc[w].num).size = -1
    <3>1. Goto(w, "find block") /\ Set(w, c) /\ pc[w] # "idle" /\ UNCHANGED <<disk, globals>>
      BY <1>8, <2>1 DEF ReadTable, At
    <3>2. t \in TableType
      BY <1>1, Places DEF CallType, DiskType
    <3>. HIDE DEF t
    <3>3. c \in CallType /\ c.path = loc[w].path
      BY <1>1, <3>2 DEF CallType
    <3>. HIDE DEF c
    <3>. QED BY <1>1, <1>5, <3>1, <3>3 DEF Finding, globals
  <2>2. CASE Inode(loc[w].num).size # -1
    <3>1. Reply(w, "EFAULT") /\ UNCHANGED <<disk, globals>>
      BY <1>8, <2>2 DEF ReadTable
    <3>. QED BY <1>1, <1>2, <3>1, ReplyTypes DEF globals
  <2>. QED BY <2>1, <2>2
<1>9. CASE ReadBlockBitmap(w)
  <2>. DEFINE f == FreeBlock
              c == [loc[w] EXCEPT !.block = f.block, !.bitmap = f.bitmap,
                                  !.bits = disk.bbitmap[f.bitmap] \cup {f.block}]
  <2>1. Goto(w, "write block bitmap") /\ Set(w, c) /\ pc[w] # "idle" /\ UNCHANGED <<disk, globals>>
    BY <1>9 DEF ReadBlockBitmap, At
  <2>2. f.bitmap \in Bitmaps /\ f.block \in Blocks
    <3>1. pc[w] = "find block"
      BY <1>9 DEF ReadBlockBitmap, At
    <3>2. NewBlock
      BY <3>1, BlockFound
    <3>. QED BY <3>2, Numbers DEF NewBlock
  <2>. HIDE DEF f
  <2>3. c \in CallType /\ c.path = loc[w].path
    BY <1>1, <2>2 DEF CallType, DiskType
  <2>. HIDE DEF c
  <2>. QED BY <1>1, <1>5, <2>1, <2>3 DEF Filling, globals
<1>10. CASE WriteBlockBitmap(w)
  <2>. DEFINE d == InodeFromPath(Directory(loc[w].path))
              i == NewInode(IF loc[w].call = "mkdir" THEN "dir" ELSE "file", loc[w].block)
              c == [loc[w] EXCEPT !.bits = {}, !.bitmap = 0, !.dir = d,
                                  !.table[TableIndex(loc[w].num)] = i]
              l == IF loc[w].call = "mkdir" THEN "write dots" ELSE "read directory"
  <2>1. Goto(w, l) /\ Set(w, c) /\ pc[w] = "write block bitmap" /\ UNCHANGED globals
        /\ disk' = [disk EXCEPT !.bbitmap[loc[w].bitmap] = loc[w].bits]
    BY <1>10 DEF WriteBlockBitmap, At
  <2>2. FindingInv(w)
    BY DEF RequestInv
  <2>3. d \in Inodes /\ loc[w].table = disk.itable[TableBlock(loc[w].num)]
    BY <2>1, <2>2 DEF FindingInv
  <2>4. loc[w].table \in TableType /\ i \in InodeType
    BY <1>1, <2>3, Places, LookTypes DEF CallType, DiskType
  <2>5. l \in Filling
    BY DEF Filling
  <2>. HIDE DEF d, i, l
  <2>6. [loc[w].table EXCEPT ![TableIndex(loc[w].num)] = i] \in TableType
    BY <1>1, <2>4, Places DEF TableType, CallType
  <2>7. c = [loc[w] EXCEPT !.bits = {}, !.bitmap = 0, !.dir = d,
                           !.table = [loc[w].table EXCEPT ![TableIndex(loc[w].num)] = i]]
    OBVIOUS
  <2>. HIDE DEF c
  <2>8. c \in CallType /\ c.path = loc[w].path
    BY <1>1, <2>3, <2>6, <2>7, Numbers DEF CallType
  <2>9. disk' \in DiskType
    BY <1>1, <2>1 DEF DiskType, CallType
  <2>. QED BY <1>1, <1>5, <2>1, <2>5, <2>8, <2>9 DEF globals
<1>11. CASE WriteDots(w)
  <2>1. Goto(w, "read directory") /\ pc[w] = "write dots" /\ UNCHANGED loc /\ entry' = NoCursor
        /\ disk' = [disk EXCEPT !.data[loc[w].block] = DotEntries(loc[w].num, loc[w].dir)]
    BY <1>11 DEF WriteDots, At
  <2>2. DotEntries(loc[w].num, loc[w].dir) \in Files
    BY <1>1, DotsAre DEF CallType
  <2>3. disk' \in DiskType
    BY <1>1, <2>1, <2>2 DEF DiskType
  <2>4. Set(w, loc[w])
    BY <2>1 DEF Set, Types
  <2>. QED BY <1>1, <1>5, <2>1, <2>3, <2>4 DEF Filling, NoCursor
<1>12. CASE ReadDirectory(w)
  <2>. DEFINE s == Entries(loc[w].dir)
              b == Inode(loc[w].dir).block
              c == [loc[w] EXCEPT !.buffer = s, !.dirBlock = b]
  <2>1. Goto(w, "fill entry") /\ pc[w] = "read directory" /\ Set(w, c) /\ UNCHANGED disk
        /\ entry' = [owner |-> w, pos |-> Len(s) + 1]
    BY <1>12 DEF ReadDirectory, At
  <2>2. s \in Files /\ b \in Blocks
    BY <1>1, LookTypes DEF CallType, InodeType
  <2>3. Len(s) \in Nat
    BY <2>2, LenProperties DEF Files
  <2>. HIDE DEF s, b
  <2>4. c \in CallType /\ c.path = loc[w].path
    BY <1>1, <2>2 DEF CallType
  <2>. HIDE DEF c
  <2>5. entry' \in [owner : Workers \cup {"freed"}, pos : Nat]
    <3>1. Len(s) + 1 \in Nat
      BY <2>3
    <3>2. \A p \in Nat : [owner |-> w, pos |-> p] \in [owner : Workers \cup {"freed"}, pos : Nat]
      OBVIOUS
    <3>. QED BY <2>1, <3>1, <3>2
  <2>. QED BY <1>1, <1>5, <2>1, <2>4, <2>5 DEF Filling
<1>13. CASE FillEntry(w)
  <2>. DEFINE new == Entry(loc[w].num, Last(loc[w].path))
              c == [loc[w] EXCEPT !.buffer = Append(@, new)]
  <2>1. Goto(w, "write entry") /\ pc[w] = "fill entry" /\ UNCHANGED <<disk, entry>>
    BY <1>13 DEF FillEntry, At, globals
  <2>2. new \in EntryType /\ loc[w].buffer \in Files
    BY <1>1, <1>3, <2>1, PathIs DEF CallType, Entry, EntryType
  <2>3. Set(w, c)
    BY <1>13, Filled
  <2>. HIDE DEF new
  <2>4. Append(loc[w].buffer, new) \in Files
    BY <2>2, AppendIs
  <2>5. c \in CallType /\ c.path = loc[w].path
    BY <1>1, <2>4 DEF CallType
  <2>. HIDE DEF c
  <2>. QED BY <1>1, <1>5, <2>1, <2>3, <2>5 DEF Filling
<1>14. CASE WriteEntry(w)
  <2>. DEFINE c == [loc[w] EXCEPT !.buffer = <<>>]
  <2>1. Goto(w, "write table") /\ Set(w, c) /\ pc[w] = "write entry" /\ UNCHANGED entry
        /\ disk' = [disk EXCEPT !.data[loc[w].dirBlock] = loc[w].buffer]
    BY <1>14 DEF WriteEntry, At, globals
  <2>2. c \in CallType /\ c.path = loc[w].path
    BY <1>1, EmptySeq DEF CallType, Files
  <2>. HIDE DEF c
  <2>3. disk' \in DiskType
    BY <1>1, <2>1 DEF DiskType, CallType
  <2>. QED BY <1>1, <1>5, <2>1, <2>2, <2>3 DEF Filling
<1>15. CASE WriteTable(w)
  <2>1. Reply(w, "ok") /\ pc[w] = "write table" /\ UNCHANGED entry
        /\ disk' = [disk EXCEPT !.itable[TableBlock(loc[w].num)] = loc[w].table]
    BY <1>15 DEF WriteTable, At, globals
  <2>2. loc[w].table \in TableType
    <3>1. FillingInv(w)
      BY DEF RequestInv
    <3>2. \E i \in InodeType : loc[w].table = TableWith(loc[w].num, i)
      BY <1>1, <2>1, <3>1, LookTypes DEF FillingInv, Filling, CallType
    <3>3. loc[w].num \in Inodes
      BY <1>1 DEF CallType
    <3>. QED BY <3>2, <3>3, InodeWritten
  <2>3. disk' \in DiskType
    BY <1>1, <2>1, <2>2, Places DEF DiskType, CallType
  <2>. QED BY <1>1, <1>2, <2>1, <2>3, ReplyTypes
<1>. QED BY <1>6, <1>7, <1>8, <1>9, <1>10, <1>11, <1>12, <1>13, <1>14, <1>15 DEF CreateStep

LEMMA RemoveTypes ==
  ASSUME Types, RequestInv, NEW w \in Workers, RemoveStep(w)
  PROVE  Types'
<1>. DEFINE l == loc[w]
<1>1. /\ disk \in DiskType /\ dataBlockBuffer \in Files /\ l \in CallType
      /\ entry \in [owner : Workers \cup {"freed"}, pos : Nat]
  BY DEF Types
<1>2. mount = "mounted" /\ UNCHANGED <<system, entry>> /\ pc[w] # "idle"
  BY DEF RemoveStep, ReadInode, WriteInode, ReadEntries, WriteEntries, ReadDeletedBlock,
     DeleteEntries, DeleteInode, Leave, At, globals
<1>3. RemovingInv(w) /\ DeletingInv(w)
  BY DEF RequestInv
<1>4. \A k \in Removing \cup Deleting : k \in Labels
  BY DEF Labels
<1>5. ASSUME NEW k \in Removing \cup Deleting, NEW c \in CallType, c.path = l.path,
             Goto(w, k), Set(w, c), disk' \in DiskType, dataBlockBuffer' \in Files
      PROVE  Types'
  BY <1>1, <1>2, <1>4, <1>5, CallWritten DEF Types
<1>6. ASSUME NEW r \in {"ok", "-1"}, Reply(w, r), disk' \in DiskType, dataBlockBuffer' \in Files
      PROVE  Types'
  BY <1>1, <1>2, <1>6, ReplyTypes
<1>7. ASSUME UNCHANGED loc PROVE Set(w, l)
  BY <1>7 DEF Set, Types
<1>8. ASSUME NEW t \in TableType
      PROVE  [disk EXCEPT !.itable[TableBlock(l.num)] = t] \in DiskType
  BY <1>1, Places DEF CallType, DiskType
<1>9. l.num \in Inodes /\ TableWith(l.num, FreeInode) \in TableType
  BY <1>1, LookTypes, InodeWritten DEF CallType
<1>10. CASE ReadInode(w)
  <2>. DEFINE c == [l EXCEPT !.table = TableWith(l.num, FreeInode)]
  <2>1. UNCHANGED <<disk, globals>>
    BY <1>10 DEF ReadInode
  <2>2. \/ Goto(w, "write inode") /\ Set(w, c)
        \/ Reply(w, "-1")
        \/ Goto(w, "read entries") /\ UNCHANGED loc
    BY <1>10 DEF ReadInode, TableWith
  <2>3. c \in CallType /\ c.path = l.path
    BY <1>1, <1>9 DEF CallType
  <2>. HIDE DEF c, l
  <2>. QED BY <1>1, <1>5, <1>6, <1>7, <2>1, <2>2, <2>3 DEF Removing, globals
<1>11. CASE WriteInode(w)
  <2>. DEFINE c == [l EXCEPT !.table = <<>>]
  <2>1. Goto(w, "read entries") /\ Set(w, c) /\ pc[w] = "write inode" /\ UNCHANGED globals
        /\ disk' = [disk EXCEPT !.itable[TableBlock(l.num)] = l.table]
    BY <1>11 DEF WriteInode, At
  <2>2. c \in CallType /\ c.path = l.path
    BY <1>1 DEF CallType
  <2>. HIDE DEF c
  <2>3. disk' \in DiskType
    BY <1>3, <1>8, <1>9, <2>1 DEF RemovingInv
  <2>. QED BY <1>1, <1>5, <2>1, <2>2, <2>3 DEF Removing, globals
<1>12. CASE ReadEntries(w)
  <2>. DEFINE es == Entries(l.dir)
              i  == FirstNumbered(es, l.num)
              b  == Inode(l.dir).block
              c  == [l EXCEPT !.buffer = RemoveAt(es, i), !.dirBlock = b]
  <2>1. UNCHANGED <<disk, globals>>
    BY <1>12 DEF ReadEntries
  <2>2. es \in Files /\ b \in Blocks
    BY <1>1, LookTypes DEF CallType, InodeType
  <2>3. CASE i = 0
    <3>1. \E r \in {"ok", "-1"} : Reply(w, r)
      BY <1>12, <2>3 DEF ReadEntries
    <3>. QED BY <1>1, <1>6, <2>1, <3>1 DEF globals
  <2>4. CASE i # 0
    <3>1. Goto(w, "write entries") /\ Set(w, c)
      BY <1>12, <2>4 DEF ReadEntries
    <3>2. i \in DOMAIN es
      BY <2>2, <2>4, FirstNumberedIs
    <3>3. RemoveAt(es, i) \in Files
      BY <2>2, <3>2, RemoveAtIs
    <3>. HIDE DEF es, i, b
    <3>4. c \in CallType /\ c.path = l.path
      BY <1>1, <2>2, <3>3 DEF CallType
    <3>. HIDE DEF c
    <3>. QED BY <1>1, <1>5, <2>1, <3>1, <3>4 DEF Removing, globals
  <2>. QED BY <2>3, <2>4
<1>13. CASE WriteEntries(w)
  <2>. DEFINE f == [block |-> l.block, pos |-> 1]
              c == [l EXCEPT !.buffer = <<>>, !.frames = <<f>>]
  <2>1. UNCHANGED globals /\ disk' = [disk EXCEPT !.data[l.dirBlock] = l.buffer]
    BY <1>13 DEF WriteEntries
  <2>2. \/ Goto(w, "read block") /\ Set(w, c)
        \/ Reply(w, "ok")
    BY <1>13 DEF WriteEntries
  <2>3. disk' \in DiskType
    BY <1>1, <2>1 DEF DiskType, CallType
  <2>4. <<f>> \in Frames /\ <<>> \in Files
    BY <1>1, EmptySeq DEF Frames, Files, CallType
  <2>. HIDE DEF f
  <2>5. c \in CallType /\ c.path = l.path
    BY <1>1, <2>4 DEF CallType
  <2>. HIDE DEF c
  <2>. QED BY <1>1, <1>5, <1>6, <2>1, <2>2, <2>3, <2>5 DEF Deleting, globals
<1>14. CASE ReadDeletedBlock(w)
  <2>1. UNCHANGED <<disk, loc>>
        /\ dataBlockBuffer' = IF Frame(w).block = 0 THEN dataBlockBuffer ELSE disk.data[Frame(w).block]
    BY <1>14 DEF ReadDeletedBlock
  <2>2. Frame(w).block \in Blocks
    BY <1>1, <1>3, <1>14, FramesAre DEF ReadDeletedBlock, At, DeletingInv, Deleting, Frame, CallType
  <2>3. dataBlockBuffer' \in Files
    BY <1>1, <2>1, <2>2 DEF DiskType
  <2>4. \E k \in Deleting : Goto(w, k)
    BY <1>14 DEF ReadDeletedBlock, Deleting
  <2>. QED BY <1>1, <1>5, <1>7, <2>1, <2>3, <2>4
<1>15. CASE DeleteEntries(w)
  <2>. DEFINE pos == Frame(w).pos
              n   == dataBlockBuffer[pos].iNum
              b   == Inode(n).block
              c   == [l EXCEPT !.num = n, !.block = b, !.table = TableWith(n, FreeInode)]
              f   == [Frame(w) EXCEPT !.pos = pos + 1]
              e   == [l EXCEPT !.frames = Append(Front(@), f)]
  <2>1. UNCHANGED <<disk, globals>> /\ l.frames # <<>> /\ pc[w] = "delete entries"
    BY <1>3, <1>15 DEF DeleteEntries, At, DeletingInv, Deleting
  <2>2. /\ Frame(w) \in [block : Blocks, pos : Nat \ {0}]
        /\ \A g \in [block : Blocks, pos : Nat \ {0}] : Append(Front(l.frames), g) \in Frames
    BY <1>1, <2>1, FramesAre DEF Frame, CallType
  <2>3. CASE pos > Len(dataBlockBuffer)
    <3>1. Goto(w, "leave") /\ UNCHANGED loc
      BY <1>15, <2>3 DEF DeleteEntries
    <3>. QED BY <1>1, <1>5, <1>7, <2>1, <3>1 DEF Deleting, globals
  <2>4. CASE ~ (pos > Len(dataBlockBuffer)) /\ IsDeletable(dataBlockBuffer[pos])
    <3>1. Goto(w, "delete inode") /\ Set(w, c)
      BY <1>15, <2>4 DEF DeleteEntries, TableWith
    <3>2. n \in Inodes
      <4>1. /\ Len(dataBlockBuffer) \in Nat
            /\ \A k \in 1 .. Len(dataBlockBuffer) : dataBlockBuffer[k] \in EntryType
        BY <1>1, LenProperties DEF Files
      <4>2. pos \in 1 .. Len(dataBlockBuffer)
        BY <2>2, <2>4, <4>1
      <4>. QED BY <4>1, <4>2 DEF EntryType
    <3>3. b \in Blocks /\ TableWith(n, FreeInode) \in TableType
      <4>1. Inode(n) \in InodeType /\ FreeInode \in InodeType
        BY <3>2, LookTypes
      <4>. QED BY <3>2, <4>1, InodeWritten DEF InodeType
    <3>. HIDE DEF n, b
    <3>4. c \in CallType /\ c.path = l.path
      BY <1>1, <3>2, <3>3 DEF CallType
    <3>. HIDE DEF c
    <3>. QED BY <1>1, <1>5, <2>1, <3>1, <3>4 DEF Deleting, globals
  <2>5. CASE ~ (pos > Len(dataBlockBuffer)) /\ ~IsDeletable(dataBlockBuffer[pos])
    <3>1. Set(w, e) /\ UNCHANGED pc
      BY <1>15, <2>5 DEF DeleteEntries, SetFrame
    <3>2. Goto(w, "delete entries")
      BY <2>1, <3>1 DEF Goto, Types
    <3>3. f \in [block : Blocks, pos : Nat \ {0}]
      BY <2>2
    <3>. HIDE DEF f
    <3>4. e \in CallType /\ e.path = l.path
      BY <1>1, <2>2, <3>3 DEF CallType
    <3>. HIDE DEF e
    <3>. QED BY <1>1, <1>5, <2>1, <3>1, <3>2, <3>4 DEF Deleting, globals
  <2>. QED BY <2>3, <2>4, <2>5
<1>16. CASE DeleteInode(w)
  <2>. DEFINE f == [block |-> l.block, pos |-> 1]
              c == [l EXCEPT !.table = <<>>, !.frames = Append(@, f)]
  <2>1. /\ Goto(w, "read block") /\ Set(w, c) /\ pc[w] = "delete inode"
        /\ disk' = IF IsUsed(l.num) THEN [disk EXCEPT !.itable[TableBlock(l.num)] = l.table] ELSE disk
        /\ dataBlockBuffer' = RemoveAt(dataBlockBuffer, Frame(w).pos)
    BY <1>16 DEF DeleteInode, At
  <2>2. /\ l.frames # <<>> /\ l.table = TableWith(l.num, FreeInode)
        /\ Frame(w).pos <= Len(dataBlockBuffer)
    BY <1>3, <2>1 DEF DeletingInv, Deleting
  <2>3. disk' \in DiskType
    BY <1>1, <1>8, <1>9, <2>1, <2>2
  <2>4. dataBlockBuffer' \in Files
    <3>1. Frame(w).pos \in Nat \ {0}
      BY <1>1, <2>2, FramesAre DEF Frame, CallType
    <3>2. Len(dataBlockBuffer) \in Nat /\ DOMAIN dataBlockBuffer = 1 .. Len(dataBlockBuffer)
      BY <1>1, LenProperties DEF Files
    <3>3. Frame(w).pos \in DOMAIN dataBlockBuffer
      BY <2>2, <3>1, <3>2
    <3>. QED BY <1>1, <2>1, <3>3, RemoveAtIs
  <2>5. f \in [block : Blocks, pos : Nat \ {0}]
    BY <1>1 DEF CallType
  <2>. HIDE DEF f
  <2>6. Append(l.frames, f) \in Frames
    BY <1>1, <2>2, <2>5, FramesAre DEF CallType
  <2>7. c \in CallType /\ c.path = l.path
    BY <1>1, <2>6 DEF CallType
  <2>. HIDE DEF c
  <2>. QED BY <1>5, <2>1, <2>3, <2>4, <2>7 DEF Deleting
<1>17. CASE Leave(w)
  <2>. DEFINE frames == Front(l.frames)
              skip   == IF Last(frames).pos <= Len(dataBlockBuffer) THEN 2 ELSE 1
              f      == [Last(frames) EXCEPT !.pos = Last(frames).pos + skip]
              c      == [l EXCEPT !.frames = Append(Front(frames), f)]
  <2>1. UNCHANGED <<disk, globals>> /\ l.frames # <<>> /\ l.frames \in Frames
    BY <1>1, <1>3, <1>17 DEF Leave, At, DeletingInv, Deleting, CallType
  <2>2. CASE frames = <<>>
    <3>1. Reply(w, "ok")
      BY <1>17, <2>2 DEF Leave
    <3>. QED BY <1>1, <1>6, <2>1, <3>1 DEF globals
  <2>3. CASE frames # <<>>
    <3>1. Goto(w, "delete entries") /\ Set(w, c)
      BY <1>17, <2>3 DEF Leave
    <3>2. frames \in Frames
      BY <2>1, FramesAre
    <3>3. Last(frames) \in [block : Blocks, pos : Nat \ {0}]
      BY <2>3, <3>2, FramesAre
    <3>4. f \in [block : Blocks, pos : Nat \ {0}]
      BY <3>3
    <3>5. Append(Front(frames), f) \in Frames
      BY <2>3, <3>2, <3>4, FramesAre
    <3>. HIDE DEF frames, f
    <3>6. c \in CallType /\ c.path = l.path
      BY <1>1, <3>5 DEF CallType
    <3>. HIDE DEF c
    <3>. QED BY <1>1, <1>5, <2>1, <3>1, <3>6 DEF Deleting, globals
  <2>. QED BY <2>2, <2>3
<1>. QED BY <1>10, <1>11, <1>12, <1>13, <1>14, <1>15, <1>16, <1>17 DEF RemoveStep

LEMMA CrashTypes ==
  ASSUME Types, Crash
  PROVE  Types'
<1>1. crashes' \in 0 .. MaxCrashes
  BY CrashAssumption DEF Crash, Types
<1>2. <<>> \in Files
  BY EmptySeq DEF Files
<1>3. format' \in [block : Blocks, next : 0 .. (NUM_INODE_BLOCKS - 1)]
  BY Numbers DEF Crash
<1>. QED BY <1>1, <1>2, <1>3, NoCallType DEF Types, Crash, NoCursor

\* So the types are kept by every step of what is reached.
LEMMA StepTypes ==
  ASSUME FSInv, EnoughBlocks, OneRequest, [Next]_vars
  PROVE  Types'
<1>1. CASE UNCHANGED vars
  BY <1>1 DEF FSInv, Types, vars
<1>2. CASE Next
  BY <1>2, MountTypes, StartTypes, CreateTypes, RemoveTypes, CrashTypes DEF FSInv, DiskInv, Next
<1>. QED BY <1>1, <1>2

-----------------------------------------------------------------------------
(***************************************************************************)
(* What formatting leaves on the disk.                                     *)
(***************************************************************************)

\* The fields of the disk when one of them is written.
LEMMA Written ==
  ASSUME Types
  PROVE  /\ \A x : LET d == [disk EXCEPT !.ibitmap = x]
                   IN  /\ d.super = disk.super /\ d.ibitmap = x /\ d.bbitmap = disk.bbitmap
                       /\ d.itable = disk.itable /\ d.data = disk.data
         /\ \A i \in Bitmaps : \A x :
              LET d == [disk EXCEPT !.bbitmap[i] = x]
              IN  /\ d.super = disk.super /\ d.ibitmap = disk.ibitmap
                  /\ d.bbitmap = [disk.bbitmap EXCEPT ![i] = x]
                  /\ d.bbitmap[0] = IF i = 0 THEN x ELSE disk.bbitmap[0]
                  /\ d.itable = disk.itable /\ d.data = disk.data
         /\ \A i, x : LET d == [disk EXCEPT !.itable[i] = x]
                      IN  /\ d.super = disk.super /\ d.ibitmap = disk.ibitmap
                          /\ d.bbitmap = disk.bbitmap
                          /\ d.itable = [disk.itable EXCEPT ![i] = x] /\ d.data = disk.data
         /\ \A b \in Blocks : \A x :
              LET d == [disk EXCEPT !.data[b] = x]
              IN  /\ d.super = disk.super /\ d.ibitmap = disk.ibitmap
                  /\ d.bbitmap = disk.bbitmap /\ d.itable = disk.itable
                  /\ d.data = [disk.data EXCEPT ![b] = x]
                  /\ \A c \in Blocks : d.data[c] = IF c = b THEN x ELSE disk.data[c]
  BY Numbers DEF Types, DiskType

\* A disk with no inode but perhaps the root's.
Fresh ==
  /\ \A n \in Inodes : \/ Inode(n) = ZeroInode
                       \/ n # 0 /\ IsFree(Inode(n))
                       \/ n = 0 /\ \E b \in disk.bbitmap[0] \ {0} : Inode(n) = NewInode("dir", b)
  /\ \A b \in Blocks : \/ disk.data[b] = <<>>
                       \/ b \in disk.bbitmap[0] /\ disk.data[b] = DotEntries(0, 0)

LEMMA FreshDisk ==
  ASSUME Types', Fresh'
  PROVE  InodesInv' /\ OwnersInv' /\ DataInv' /\ EntriesInv'
<1>1. InodesInv'
  BY DEF Fresh, InodesInv, NewInode, IsFree
<1>2. \A n \in Inodes : HasBlock(n)' => n = 0
  BY DEF Fresh, HasBlock, IsUsed, ZeroInode, IsFree
<1>3. OwnersInv'
  BY <1>2 DEF OwnersInv
<1>4. DataInv'
  BY DEF Fresh, DataInv, HasBlock, IsUsed, ZeroInode, IsFree, NewInode
<1>5. EntriesInv'
  <2>1. ASSUME NEW b \in Blocks, NEW i \in DOMAIN disk'.data[b]
        PROVE  disk'.data[b][i].name \in Dots
    <3>1. disk'.data[b] = DotEntries(0, 0)
      BY <2>1 DEF Fresh
    <3>2. 0 \in Inodes
      BY Numbers
    <3>3. i \in DOMAIN DotEntries(0, 0) => DotEntries(0, 0)[i].name \in Dots
      BY <3>2, DotNames
    <3>. QED BY <2>1, <3>1, <3>3
  <2>. QED BY <2>1 DEF EntriesInv, Valid
<1>. QED BY <1>1, <1>3, <1>4, <1>5

LEMMA Remainders ==
  ASSUME NEW n \in Nat, n > 0
  PROVE  n % n = 0 /\ \A a \in 0 .. (n - 1) : a % n = a
OBVIOUS

LEMMA MountDisk ==
  ASSUME Types, Types', DiskInv, EnoughBlocks, MountStep
  PROVE  DiskInv'
<1>1. /\ pc' = pc /\ mount # "mounted"
      /\ disk \in DiskType /\ disk' \in DiskType
      /\ format \in [block : Blocks, next : 0 .. (NUM_INODE_BLOCKS - 1)]
  <2>1. pc' = pc /\ mount # "mounted"
    BY DEF MountStep, Mount, FormatSuper, FormatInodeBitmap, FormatBlockBitmaps,
       FormatFirstBlockBitmap, FormatRootBlock, FormatRootEntries, FormatInodeTable, Format
  <2>. QED BY <2>1 DEF Types
<1>2. InodesInv /\ OwnersInv /\ DataInv /\ EntriesInv /\ FormatInv
  BY DEF DiskInv
<1>5. ASSUME disk'.itable = disk.itable PROVE \A n : Inode(n)' = Inode(n)
  BY <1>5 DEF Inode
<1>6. ASSUME ~disk.super \/ mount \in Formatting \ {"inode table"}
      PROVE  /\ disk.ibitmap = {}
             /\ \A n \in Inodes : Inode(n) = ZeroInode
             /\ \A b \in Blocks : disk.data[b] = <<>>
  BY <1>2, <1>6 DEF FormatInv, Formatting
<1>7. ASSUME Fresh', FormatInv' PROVE DiskInv'
  BY <1>7, FreshDisk DEF DiskInv
<1>8. CASE Mount
  <2>1. UNCHANGED <<disk, format>> /\ mount = "unmounted" /\ mount' = "mounted" /\ disk.super
    BY <1>8 DEF Mount, Format
  <2>2. InodesInv' /\ OwnersInv' /\ DataInv' /\ EntriesInv'
    <3>1. InodesInv'
      BY <1>2, <2>1 DEF InodesInv, Valid, HasBlock, IsUsed, Inode
    <3>2. OwnersInv'
      <4>1. \A n : Inode(n)' = Inode(n)
        BY <1>5, <2>1
      <4>2. \A n : HasBlock(n)' <=> HasBlock(n)
        BY <2>1, <4>1 DEF HasBlock, IsUsed
      <4>. QED BY <1>2, <4>1, <4>2 DEF OwnersInv
    <3>3. DataInv'
      BY <1>2, <2>1 DEF DataInv, HasBlock, IsUsed, Inode
    <3>4. EntriesInv'
      BY <1>2, <2>1 DEF EntriesInv, Valid, IsUsed, Inode
    <3>. QED BY <3>1, <3>2, <3>3, <3>4
  <2>4. FormatInv'
    BY <1>2, <2>1 DEF FormatInv, Formatting
  <2>. QED BY <2>2, <2>4 DEF DiskInv
<1>9. CASE FormatSuper
  <2>1. /\ mount' = "inode bitmap" /\ format' = format /\ ~disk.super /\ mount = "unmounted"
        /\ disk'.super = TRUE /\ disk'.ibitmap = disk.ibitmap /\ disk'.bbitmap = disk.bbitmap
        /\ disk'.itable = disk.itable /\ disk'.data = disk.data
    BY <1>1, <1>9 DEF FormatSuper, Format, DiskType
  <2>2. Fresh'
    BY <1>5, <1>6, <2>1 DEF Fresh
  <2>4. FormatInv'
    BY <1>2, <1>5, <1>6, <2>1 DEF FormatInv, Formatting
  <2>. QED BY <1>7, <2>2, <2>4
<1>10. CASE FormatInodeBitmap
  <2>1. /\ mount' = "block bitmaps" /\ format' = format /\ mount = "inode bitmap"
        /\ disk'.super = disk.super /\ disk'.ibitmap = {} /\ disk'.bbitmap = disk.bbitmap
        /\ disk'.itable = disk.itable /\ disk'.data = disk.data
    BY <1>1, <1>10 DEF FormatInodeBitmap, Format, DiskType
  <2>2. mount \in Formatting \ {"inode table"}
    BY <2>1 DEF Formatting
  <2>3. Fresh'
    BY <1>5, <1>6, <2>1, <2>2 DEF Fresh
  <2>5. FormatInv'
    BY <1>2, <1>5, <1>6, <2>1, <2>2 DEF FormatInv, Formatting
  <2>. QED BY <1>7, <2>3, <2>5
<1>11. CASE FormatBlockBitmaps
  <2>1. /\ mount' = "first block bitmap" /\ format' = format /\ mount = "block bitmaps"
        /\ disk'.super = disk.super /\ disk'.ibitmap = disk.ibitmap
        /\ disk'.bbitmap = [i \in Bitmaps |-> {}]
        /\ disk'.itable = disk.itable /\ disk'.data = disk.data
    BY <1>1, <1>11 DEF FormatBlockBitmaps, Format, DiskType
  <2>2. mount \in Formatting \ {"inode table"}
    BY <2>1 DEF Formatting
  <2>3. Fresh'
    BY <1>5, <1>6, <2>1, <2>2 DEF Fresh
  <2>6. FormatInv'
    BY <1>2, <1>5, <1>6, <2>1, <2>2 DEF FormatInv, Formatting
  <2>. QED BY <1>7, <2>3, <2>6
<1>12. CASE FormatFirstBlockBitmap
  <2>1. PICK bits \in Uninitialised : disk' = [disk EXCEPT !.bbitmap[0] = bits]
    BY <1>12 DEF FormatFirstBlockBitmap
  <2>2. /\ mount' = "root block" /\ format' = format /\ mount = "first block bitmap"
        /\ disk'.super = disk.super /\ disk'.ibitmap = disk.ibitmap /\ disk'.bbitmap[0] = bits
        /\ disk'.itable = disk.itable /\ disk'.data = disk.data
    <3>1. mount' = "root block" /\ format' = format /\ mount = "first block bitmap"
      BY <1>12 DEF FormatFirstBlockBitmap, Format
    <3>2. /\ disk'.super = disk.super /\ disk'.ibitmap = disk.ibitmap /\ disk'.bbitmap[0] = bits
          /\ disk'.itable = disk.itable /\ disk'.data = disk.data
      BY <2>1, Written, Numbers
    <3>. QED BY <3>1, <3>2
  <2>3. mount \in Formatting \ {"inode table"}
    BY <2>2 DEF Formatting
  <2>4. Fresh'
    BY <1>5, <1>6, <2>2, <2>3 DEF Fresh
  <2>10. FormatInv'
    BY <1>2, <1>5, <1>6, <2>2, <2>3 DEF FormatInv, Formatting
  <2>. QED BY <1>7, <2>4, <2>10
<1>13. CASE FormatRootBlock
  <2>. DEFINE n == FreeBlock.block
  <2>1. mount' = "root entries" /\ mount = "root block" /\ format' = [format EXCEPT !.block = n]
        /\ disk' = [disk EXCEPT !.bbitmap[FreeBlock.bitmap] = @ \cup {n}]
    BY <1>13 DEF FormatRootBlock, Format
  <2>2. NewBlock
    BY <2>1, BlockFound
  <2>3. FreeBlock.bitmap = 0 /\ n \in Blocks \ ({0} \cup disk.bbitmap[0])
    BY <2>2 DEF NewBlock
  <2>4. disk' = [disk EXCEPT !.bbitmap[0] = disk.bbitmap[0] \cup {n}]
    BY <1>1, <2>1, <2>3, Numbers DEF DiskType
  <2>. HIDE DEF n
  <2>5. /\ disk'.super = disk.super /\ disk'.ibitmap = disk.ibitmap
        /\ disk'.bbitmap[0] = disk.bbitmap[0] \cup {n}
        /\ disk'.itable = disk.itable /\ disk'.data = disk.data
    BY <2>4, Written, Numbers
  <2>6. mount \in Formatting \ {"inode table"}
    BY <2>1 DEF Formatting
  <2>7. Fresh'
    BY <1>5, <1>6, <2>5, <2>6 DEF Fresh
  <2>9. FormatInv'
    <3>1. format'.block = n /\ format'.next = format.next
      BY <1>1, <2>1
    <3>. QED BY <1>2, <1>5, <1>6, <2>1, <2>3, <2>5, <2>6, <3>1, ZenonT(30) DEF FormatInv, Formatting
  <2>. QED BY <1>7, <2>7, <2>9
<1>14. CASE FormatRootEntries
  <2>1. mount' = "inode table" /\ mount = "root entries" /\ format' = format
        /\ disk' = [disk EXCEPT !.data[format.block] = DotEntries(0, 0)]
    BY <1>14 DEF FormatRootEntries, Format
  <2>2. /\ disk'.super = disk.super /\ disk'.ibitmap = disk.ibitmap /\ disk'.bbitmap = disk.bbitmap
        /\ disk'.itable = disk.itable
        /\ \A c \in Blocks : disk'.data[c] = IF c = format.block THEN DotEntries(0, 0) ELSE disk.data[c]
    <3>1. format.block \in Blocks
      BY <1>1
    <3>. QED BY <1>1, <2>1, <3>1 DEF DiskType
  <2>3. mount \in Formatting \ {"inode table"} /\ format.block \in disk.bbitmap[0] \ {0}
        /\ format.next = 0
    BY <1>2, <2>1 DEF FormatInv, Formatting
  <2>4. Fresh'
    BY <1>5, <1>6, <2>2, <2>3 DEF Fresh
  <2>6. \A n \in Inodes : ~ (TableBlock(n) < 0)
    BY Places
  <2>7. FormatInv'
    BY <1>2, <1>5, <1>6, <2>1, <2>2, <2>3, <2>6, ZenonT(30) DEF FormatInv, Formatting
  <2>. QED BY <1>7, <2>4, <2>7
<1>15. CASE FormatInodeTable
  <2>. DEFINE k == format.next
              rest(x) == [size |-> -1, mode |-> x.mode, block |-> x.block]
              new(n, x) == IF n = 0 THEN x = NewInode("dir", format.block) ELSE IsFree(x)
  <2>0. PICK left \in [0 .. (NINODES_BLOCK - 1) -> Leftovers] :
           disk' = [disk EXCEPT !.itable[k] =
                      [j \in 0 .. (NINODES_BLOCK - 1) |->
                         IF k = 0 /\ j = 0 THEN NewInode("dir", format.block) ELSE rest(left[j])]]
    BY <1>15 DEF FormatInodeTable
  <2>. DEFINE fresh == [j \in 0 .. (NINODES_BLOCK - 1) |->
                          IF k = 0 /\ j = 0 THEN NewInode("dir", format.block) ELSE rest(left[j])]
  <2>1. /\ mount = "inode table" /\ disk' = [disk EXCEPT !.itable[k] = fresh]
        /\ format' = [format EXCEPT !.next = (k + 1) % NUM_INODE_BLOCKS]
        /\ mount' = IF k + 1 = NUM_INODE_BLOCKS THEN "mounted" ELSE "inode table"
    BY <1>15, <2>0 DEF FormatInodeTable, Format
  <2>a. \A j \in 0 .. (NINODES_BLOCK - 1) : IsFree(rest(left[j]))
    BY DEF IsFree, TableCleared, FreeInode
  <2>2. /\ disk'.super = disk.super /\ disk'.ibitmap = disk.ibitmap /\ disk'.bbitmap = disk.bbitmap
        /\ disk'.data = disk.data /\ disk'.itable = [disk.itable EXCEPT ![k] = fresh]
        /\ format'.block = format.block /\ format'.next = (k + 1) % NUM_INODE_BLOCKS
    <3>1. format'.block = format.block /\ format'.next = (k + 1) % NUM_INODE_BLOCKS
      BY <1>1, <2>1
    <3>. HIDE DEF fresh, k
    <3>. QED BY <1>1, <2>1, <3>1 DEF DiskType
  <2>3. k \in 0 .. (NUM_INODE_BLOCKS - 1) /\ NUM_INODE_BLOCKS \in Nat
    BY <1>1, Numbers
  <2>4. ASSUME NEW n \in Inodes
        PROVE  IF TableBlock(n) = k THEN new(n, Inode(n)') ELSE Inode(n)' = Inode(n)
    <3>1. /\ TableBlock(n) \in 0 .. (NUM_INODE_BLOCKS - 1)
          /\ TableIndex(n) \in 0 .. (NINODES_BLOCK - 1)
          /\ n = 0 <=> TableBlock(n) = 0 /\ TableIndex(n) = 0
      BY Places, Numbers
    <3>2. disk.itable \in [0 .. (NUM_INODE_BLOCKS - 1) -> TableType]
      BY <1>1 DEF DiskType
    <3>3. Inode(n)' = disk'.itable[TableBlock(n)][TableIndex(n)]
      BY DEF Inode
    <3>4. CASE TableBlock(n) # k
      BY <2>2, <2>3, <3>1, <3>2, <3>3, <3>4 DEF Inode
    <3>5. CASE TableBlock(n) = k
      <4>1. Inode(n)' = fresh[TableIndex(n)]
        BY <2>2, <2>3, <3>2, <3>3, <3>5
      <4>. QED BY <2>a, <3>1, <3>5, <4>1
    <3>. QED BY <3>4, <3>5
  <2>5. /\ format.block \in disk.bbitmap[0] \ {0} /\ disk.ibitmap = {} /\ disk.super
        /\ \A n \in Inodes : IF TableBlock(n) < k THEN new(n, Inode(n)) ELSE Inode(n) = ZeroInode
        /\ \A b \in Blocks : disk.data[b] = IF b = format.block THEN DotEntries(0, 0) ELSE <<>>
    BY <1>2, <2>1 DEF FormatInv, Formatting
  <2>6. \A n \in Inodes : IF TableBlock(n) < k + 1 THEN new(n, Inode(n)') ELSE Inode(n)' = ZeroInode
    <3>1. \A n \in Inodes : TableBlock(n) \in Nat /\ k \in Nat
      BY <2>3, Places
    <3>. HIDE DEF new, k
    <3>2. \A n \in Inodes : TableBlock(n) < k + 1 <=> TableBlock(n) < k \/ TableBlock(n) = k
      BY <3>1
    <3>. QED BY <2>4, <2>5, <3>1, <3>2
  <2>7. Fresh'
    <3>1. \A n \in Inodes : \/ Inode(n)' = ZeroInode
                            \/ n # 0 /\ IsFree(Inode(n))'
                            \/ n = 0 /\ Inode(n)' = NewInode("dir", format.block)
      BY <2>6
    <3>2. format.block \in disk'.bbitmap[0] \ {0}
      BY <2>2, <2>5
    <3>3. \A b \in Blocks : \/ disk'.data[b] = <<>>
                            \/ b \in disk'.bbitmap[0] /\ disk'.data[b] = DotEntries(0, 0)
      BY <2>2, <2>5
    <3>. QED BY <3>1, <3>2, <3>3 DEF Fresh
  <2>9. FormatInv'
    <3>1. CASE k + 1 = NUM_INODE_BLOCKS
      <4>1. mount' = "mounted" /\ format'.next = 0
        BY <2>1, <2>2, <2>3, <3>1, Remainders, Numbers
      <4>. QED BY <2>2, <2>5, <4>1 DEF FormatInv, Formatting
    <3>2. CASE k + 1 # NUM_INODE_BLOCKS
      <4>1. mount' = "inode table" /\ format'.next = k + 1
        <5>1. k + 1 \in 0 .. (NUM_INODE_BLOCKS - 1)
          BY <2>3, <3>2
        <5>. QED BY <2>1, <2>2, <3>2, <5>1, Remainders, Numbers
      <4>. HIDE DEF k
      <4>2. \A n \in Inodes :
              IF TableBlock(n) < format'.next
              THEN IF n = 0 THEN Inode(n)' = NewInode("dir", format'.block) ELSE IsFree(Inode(n))'
              ELSE Inode(n)' = ZeroInode
        BY <2>2, <2>6, <4>1
      <4>3. \A b \in Blocks : disk'.data[b] = IF b = format'.block THEN DotEntries(0, 0) ELSE <<>>
        BY <2>2, <2>5
      <4>4. disk'.ibitmap = {} /\ disk'.super /\ format'.block \in disk'.bbitmap[0] \ {0}
        BY <2>2, <2>5
      <4>. QED BY <4>1, <4>2, <4>3, <4>4 DEF FormatInv, Formatting
    <3>. QED BY <3>1, <3>2
  <2>. QED BY <1>7, <2>7, <2>9
<1>. QED BY <1>8, <1>9, <1>10, <1>11, <1>12, <1>13, <1>14, <1>15 DEF MountStep

-----------------------------------------------------------------------------
(***************************************************************************)
(* What the writes of requests leave on the disk.                          *)
(***************************************************************************)
Contents == InodesInv /\ OwnersInv /\ DataInv /\ EntriesInv

\* An inode that is used has a block.
LEMMA UsedInodes ==
  ASSUME Types, InodesInv, NEW n \in Inodes, HasBlock(n)
  PROVE  /\ Inode(n).mode \in {"file", "dir"} /\ Inode(n).size = 0
         /\ Inode(n).block \in disk.bbitmap[0] \ {0} /\ Inode(n).block \in Blocks
<1>1. Inode(n) \in InodeType
  BY LookTypes
<1>2. /\ Inode(n).mode \in {"file", "dir"} /\ Inode(n).size = 0
      /\ Inode(n).block \in disk.bbitmap[0] \ {0}
  BY DEF InodesInv, HasBlock, IsUsed, IsFree, ZeroInode
<1>. QED BY <1>1, <1>2 DEF InodeType

\* More is marked.
LEMMA ContentsMarked ==
  ASSUME Contents, disk'.itable = disk.itable, disk'.data = disk.data,
         disk.ibitmap \subseteq disk'.ibitmap, disk.bbitmap[0] \subseteq disk'.bbitmap[0]
  PROVE  Contents'
<1>1. \A n : Inode(n)' = Inode(n)
  BY DEF Inode
<1>2. \A n : HasBlock(n)' = HasBlock(n)
  BY <1>1 DEF HasBlock, IsUsed
<1>3. InodesInv' /\ OwnersInv'
  BY <1>1, <1>2 DEF Contents, InodesInv, OwnersInv
<1>4. DataInv'
  BY <1>1, <1>2 DEF Contents, DataInv
<1>5. EntriesInv'
  BY <1>1 DEF Contents, EntriesInv, Valid
<1>. QED BY <1>3, <1>4, <1>5 DEF Contents

\* A directory is written.
LEMMA ContentsEntered ==
  ASSUME Types, Contents, NEW b \in Blocks, NEW s \in Files, b \in disk.bbitmap[0],
         disk' = [disk EXCEPT !.data[b] = s],
         \A n \in Inodes : HasBlock(n) /\ Inode(n).mode = "file" => Inode(n).block # b,
         \A i \in DOMAIN s : Valid(s[i])
  PROVE  Contents'
<1>1. /\ disk'.itable = disk.itable /\ disk'.ibitmap = disk.ibitmap /\ disk'.bbitmap = disk.bbitmap
      /\ \A c \in Blocks : disk'.data[c] = IF c = b THEN s ELSE disk.data[c]
  BY DEF Types, DiskType
<1>2. \A n : Inode(n)' = Inode(n)
  BY <1>1 DEF Inode
<1>3. \A n : HasBlock(n)' = HasBlock(n)
  BY <1>2 DEF HasBlock, IsUsed
<1>4. InodesInv' /\ OwnersInv'
  BY <1>1, <1>2, <1>3 DEF Contents, InodesInv, OwnersInv
<1>5. DataInv'
  <2>1. \A n \in Inodes : Inode(n).mode = "file" => Inode(n).block \in Blocks
    BY LookTypes DEF InodeType
  <2>. QED BY <1>1, <1>2, <1>3, <2>1 DEF Contents, DataInv
<1>6. \A e : Valid(e) => Valid(e)'
  BY <1>1, <1>2 DEF Valid
<1>7. EntriesInv'
  <2>1. \A c \in Blocks : \A i \in DOMAIN disk'.data[c] : Valid(disk'.data[c][i])
    BY <1>1 DEF Contents, EntriesInv
  <2>2. EntriesInv' <=> \A c \in Blocks : \A i \in DOMAIN disk'.data[c] :
                          \E e : e = disk'.data[c][i] /\ Valid(e)'
    BY DEF EntriesInv, Valid
  <2>. QED BY <1>6, <2>1, <2>2
<1>. QED BY <1>4, <1>5, <1>7 DEF Contents

\* An inode is written: freed, or made with a block that no other has.
Makes(k, x) ==
  /\ k \in disk.ibitmap /\ x.size = 0 /\ x.mode \in {"file", "dir"}
  /\ x.block \in disk.bbitmap[0] \ {0}
  /\ \A n \in Inodes : HasBlock(n) => Inode(n).block # x.block
  /\ x.mode = "file" => disk.data[x.block] = <<>>

LEMMA ContentsOfTable ==
  ASSUME Types, Contents, NEW k \in Inodes, NEW x \in InodeType,
         disk' = [disk EXCEPT !.itable[TableBlock(k)] = TableWith(k, x)],
         (k # 0 /\ x = FreeInode) \/ Makes(k, x)
  PROVE  Contents' /\ \A n \in Inodes : Inode(n)' = IF n = k THEN x ELSE Inode(n)
<1>1. /\ disk'.itable = [disk.itable EXCEPT ![TableBlock(k)] = TableWith(k, x)]
      /\ disk'.ibitmap = disk.ibitmap /\ disk'.bbitmap = disk.bbitmap /\ disk'.data = disk.data
  BY DEF Types, DiskType
<1>2. \A n \in Inodes : Inode(n)' = IF n = k THEN x ELSE Inode(n)
  BY <1>1, InodeWritten
<1>3. InodesInv'
  <2>1. x = FreeInode => IsFree(x)
    BY DEF IsFree, FreeInode
  <2>. QED BY <1>1, <1>2, <2>1 DEF Contents, InodesInv, Makes
<1>4. OwnersInv'
  <2>1. ASSUME x = FreeInode PROVE ~HasBlock(k)'
    BY <1>2, <2>1 DEF HasBlock, IsUsed, FreeInode
  <2>2. \A n \in Inodes \ {k} : HasBlock(n)' = HasBlock(n) /\ Inode(n)' = Inode(n)
    BY <1>2 DEF HasBlock, IsUsed
  <2>3. Inode(k)' = x
    BY <1>2
  <2>4. x = FreeInode \/ \A n \in Inodes : HasBlock(n) => Inode(n).block # x.block
    BY DEF Makes
  <2>. QED BY <2>1, <2>2, <2>3, <2>4 DEF Contents, OwnersInv
<1>5. DataInv'
  BY <1>1, <1>2 DEF Contents, DataInv, Makes, HasBlock, IsUsed, FreeInode
<1>6. EntriesInv'
  <2>1. x # ZeroInode
    BY DEF Makes, FreeInode, ZeroInode
  <2>2. ASSUME NEW b \in Blocks, NEW i \in DOMAIN disk.data[b]
        PROVE  \E e : e = disk.data[b][i] /\ Valid(e)'
    <3>1. PICK e : e = disk.data[b][i] /\ Valid(e)
      BY DEF Contents, EntriesInv
    <3>2. e.iNum \in Inodes
      <4>1. disk.data[b] \in Files
        BY DEF Types, DiskType
      <4>. QED BY <3>1, <4>1, FileEntries
    <3>. QED BY <1>1, <1>2, <2>1, <3>1, <3>2 DEF Valid
  <2>. QED BY <1>1, <2>2 DEF EntriesInv, Valid
<1>. QED BY <1>2, <1>3, <1>4, <1>5, <1>6 DEF Contents

\* A request writes neither the superblock nor what formatting keeps.
LEMMA WorkerFormat ==
  ASSUME Types, FormatInv, NEW w \in Workers, Request(w) \/ CreateStep(w) \/ RemoveStep(w)
  PROVE  FormatInv' /\ mount = "mounted" /\ mount' = "mounted" /\ UNCHANGED <<format, crashes>>
<1>1. mount = "mounted" /\ UNCHANGED system
  BY DEF Request, StartCreate, StartRemove, Begin, CreateStep, ReadInodeBitmap, WriteInodeBitmap,
     ReadTable, ReadBlockBitmap, WriteBlockBitmap, WriteDots, ReadDirectory, FillEntry, WriteEntry,
     WriteTable, RemoveStep, ReadInode, WriteInode, ReadEntries, WriteEntries, ReadDeletedBlock,
     DeleteEntries, DeleteInode, Leave, At
<1>2. disk'.super = disk.super
  BY DEF Types, DiskType, Request, StartCreate, StartRemove, Begin, CreateStep, ReadInodeBitmap,
     WriteInodeBitmap, ReadTable, ReadBlockBitmap, WriteBlockBitmap, WriteDots, ReadDirectory,
     FillEntry, WriteEntry, WriteTable, RemoveStep, ReadInode, WriteInode, ReadEntries,
     WriteEntries, ReadDeletedBlock, DeleteEntries, DeleteInode, Leave, At
<1>. QED BY <1>1, <1>2 DEF FormatInv, Formatting, system

\* Steps that read, and the step that marks an inode as handed out.
LEMMA CreateDisk ==
  ASSUME FSInv, EnoughBlocks, OneRequest, NEW w \in Workers, CreateStep(w)
  PROVE  Contents'
<1>. DEFINE l == loc[w]
<1>1. Types /\ Contents /\ FormatInv /\ FindingInv(w) /\ FillingInv(w)
  BY DEF FSInv, DiskInv, Contents, RequestInv
<1>2. disk \in DiskType /\ l \in CallType /\ l.num \in Inodes /\ l.dir \in Inodes /\ l.block \in Blocks
  BY <1>1 DEF Types, CallType
<1>3. InodesInv
  BY <1>1 DEF Contents
<1>4. ASSUME UNCHANGED disk PROVE Contents'
  BY <1>1, <1>4, ContentsMarked
<1>6. CASE ReadInodeBitmap(w)
  <2>1. UNCHANGED disk /\ \E k \in {"idle", "write inode bitmap"} : Goto(w, k)
    BY <1>6 DEF ReadInodeBitmap, Reply
  <2>. QED BY <1>4, <2>1
<1>7. CASE WriteInodeBitmap(w)
  <2>1. pc[w] = "write inode bitmap" /\ Goto(w, "read table") /\ disk' = [disk EXCEPT !.ibitmap = l.bits]
    BY <1>7 DEF WriteInodeBitmap, At
  <2>2. l.num \notin disk.ibitmap /\ l.bits = disk.ibitmap \cup {l.num}
    BY <1>1, <2>1 DEF FindingInv, Finding
  <2>3. /\ disk'.ibitmap = disk.ibitmap \cup {l.num} /\ disk'.bbitmap = disk.bbitmap
        /\ disk'.itable = disk.itable /\ disk'.data = disk.data
    BY <1>2, <2>1, <2>2 DEF DiskType
  <2>. QED BY <1>1, <2>3, ContentsMarked
<1>8. CASE ReadTable(w)
  <2>1. UNCHANGED disk /\ pc[w] = "read table" /\ \E k : Goto(w, k)
    BY <1>8 DEF ReadTable, Reply, At
  <2>. QED BY <1>4, <2>1
<1>9. CASE ReadBlockBitmap(w)
  <2>1. UNCHANGED disk /\ pc[w] = "find block" /\ \E k : Goto(w, k)
    BY <1>9 DEF ReadBlockBitmap, At
  <2>. QED BY <1>4, <2>1
<1>10. CASE WriteBlockBitmap(w)
  <2>1. /\ pc[w] = "write block bitmap" /\ disk' = [disk EXCEPT !.bbitmap[l.bitmap] = l.bits]
        /\ Goto(w, IF l.call = "mkdir" THEN "write dots" ELSE "read directory")
    BY <1>10 DEF WriteBlockBitmap, At
  <2>2. l.bitmap = 0 /\ l.block \notin disk.bbitmap[0] /\ l.bits = disk.bbitmap[0] \cup {l.block}
    BY <1>1, <2>1 DEF FillingInv, Filling
  <2>3. /\ disk'.ibitmap = disk.ibitmap /\ disk'.bbitmap[0] = disk.bbitmap[0] \cup {l.block}
        /\ disk'.itable = disk.itable /\ disk'.data = disk.data
    BY <1>2, <2>1, <2>2, Numbers DEF DiskType
  <2>. QED BY <1>1, <2>3, ContentsMarked
<1>11. CASE WriteDots(w)
  <2>1. /\ pc[w] = "write dots" /\ Goto(w, "read directory")
        /\ disk' = [disk EXCEPT !.data[l.block] = DotEntries(l.num, l.dir)]
    BY <1>11 DEF WriteDots, At
  <2>2. l.block \in disk.bbitmap[0] /\ \A n \in Inodes : HasBlock(n) => Inode(n).block # l.block
    BY <1>1, <2>1 DEF FillingInv, Filling
  <2>4. DotEntries(l.num, l.dir) \in Files
        /\ \A i \in DOMAIN DotEntries(l.num, l.dir) : Valid(DotEntries(l.num, l.dir)[i])
    BY <1>2, DotsAre, DotNames DEF Valid
  <2>. HIDE DEF l
  <2>. QED BY <1>1, <1>2, <2>1, <2>2, <2>4, ContentsEntered
<1>12. CASE ReadDirectory(w)
  <2>1. UNCHANGED disk /\ Goto(w, "fill entry")
    BY <1>12 DEF ReadDirectory
  <2>. QED BY <1>4, <2>1
<1>13. CASE FillEntry(w)
  <2>1. UNCHANGED disk /\ Goto(w, "write entry")
    BY <1>13 DEF FillEntry
  <2>. QED BY <1>4, <2>1
<1>14. CASE WriteEntry(w)
  <2>. DEFINE es == Entries(l.dir)
              e  == Entry(l.num, Last(l.path))
  <2>1. /\ pc[w] = "write entry" /\ Goto(w, "write table")
        /\ disk' = [disk EXCEPT !.data[l.dirBlock] = l.buffer]
    BY <1>14 DEF WriteEntry, At
  <2>2. /\ l.buffer = Append(es, e) /\ l.dirBlock = Inode(l.dir).block /\ IsDir(l.dir)
        /\ IsFree(Inode(l.num)) /\ l.num \in disk.ibitmap \ {0}
    BY <1>1, <2>1 DEF FillingInv, FindingInv, Filling
  <2>3. /\ l.dirBlock \in disk.bbitmap[0] /\ HasBlock(l.dir) /\ l.dirBlock \in Blocks
        /\ es = disk.data[l.dirBlock] /\ es \in Files
    BY <1>1, <1>2, <1>3, <2>2, UsedInodes, LookTypes DEF Entries, IsDir, HasBlock
  <2>4. \A n \in Inodes : HasBlock(n) /\ Inode(n).mode = "file" => Inode(n).block # l.dirBlock
    <3>1. ASSUME NEW n \in Inodes, HasBlock(n), Inode(n).mode = "file"
          PROVE  Inode(n).block # l.dirBlock
      <4>1. n # l.dir
        BY <2>2, <3>1 DEF IsDir
      <4>. QED BY <1>1, <1>2, <2>2, <2>3, <3>1, <4>1 DEF Contents, OwnersInv
    <3>. QED BY <3>1
  <2>5. e \in EntryType /\ Valid(e)
    <3>1. Last(l.path) \in Names
      BY <1>1, <2>1, PathIs DEF Types
    <3>2. e \in EntryType
      BY <1>2, <3>1 DEF Entry, EntryType
    <3>3. e.iNum = l.num
      BY DEF Entry
    <3>4. Inode(l.num) # ZeroInode
      BY <2>2 DEF IsFree, ZeroInode
    <3>. QED BY <2>2, <3>2, <3>3, <3>4 DEF Valid
  <2>6. \A i \in DOMAIN es : Valid(es[i])
    BY <1>1, <2>3 DEF Contents, EntriesInv
  <2>. HIDE DEF es, e, l
  <2>7. Append(es, e) \in Files /\ \A i \in DOMAIN Append(es, e) : Valid(Append(es, e)[i])
    <3>1. /\ Append(es, e) \in Files /\ Len(es) \in Nat /\ Len(Append(es, e)) = Len(es) + 1
          /\ \A k \in 1 .. (Len(es) + 1) : Append(es, e)[k] = IF k <= Len(es) THEN es[k] ELSE e
      BY <2>3, <2>5, AppendIs
    <3>2. DOMAIN es = 1 .. Len(es) /\ DOMAIN Append(es, e) = 1 .. (Len(es) + 1)
      BY <2>3, <3>1, LenProperties DEF Files
    <3>. QED BY <2>5, <2>6, <3>1, <3>2
  <2>. QED BY <1>1, <2>1, <2>2, <2>3, <2>4, <2>7, ContentsEntered
<1>15. CASE WriteTable(w)
  <2>. DEFINE x == NewInode(IF l.call = "mkdir" THEN "dir" ELSE "file", l.block)
  <2>1. pc[w] = "write table" /\ Goto(w, "idle")
        /\ disk' = [disk EXCEPT !.itable[TableBlock(l.num)] = l.table]
    BY <1>15 DEF WriteTable, At, Reply
  <2>2. /\ l.table = TableWith(l.num, x) /\ l.num \in disk.ibitmap \ {0}
        /\ l.block # 0 /\ l.block \in disk.bbitmap[0]
        /\ \A n \in Inodes : HasBlock(n) => Inode(n).block # l.block
        /\ l.call # "mkdir" => disk.data[l.block] = <<>>
    BY <1>1, <2>1 DEF FillingInv, FindingInv, Filling
  <2>3. x \in InodeType
    BY <1>1, <1>2, LookTypes
  <2>4. Makes(l.num, x)
    BY <2>2 DEF Makes, NewInode
  <2>. HIDE DEF x, l
  <2>. QED BY <1>1, <1>2, <2>1, <2>2, <2>3, <2>4, ContentsOfTable
<1>. QED BY <1>6, <1>7, <1>8, <1>9, <1>10, <1>11, <1>12, <1>13, <1>14, <1>15 DEF CreateStep

LEMMA RemoveDisk ==
  ASSUME FSInv, EnoughBlocks, OneRequest, NEW w \in Workers, RemoveStep(w)
  PROVE  Contents'
<1>. DEFINE l == loc[w]
<1>1. Types /\ Contents /\ FormatInv /\ RemovingInv(w) /\ DeletingInv(w)
  BY DEF FSInv, DiskInv, Contents, RequestInv
<1>2. disk \in DiskType /\ l \in CallType /\ l.num \in Inodes /\ l.dir \in Inodes
  BY <1>1 DEF Types, CallType
<1>3. InodesInv
  BY <1>1 DEF Contents
<1>4. ASSUME UNCHANGED disk PROVE Contents'
  BY <1>1, <1>4, ContentsMarked
<1>6. ASSUME disk' = [disk EXCEPT !.itable[TableBlock(l.num)] = TableWith(l.num, FreeInode)]
      PROVE  l.num # 0 => Contents'
  <2>1. FreeInode \in InodeType
    BY <1>1, LookTypes
  <2>. QED BY <1>1, <1>2, <1>6, <2>1, ContentsOfTable
<1>7. CASE ReadInode(w) \/ ReadEntries(w) \/ Leave(w)
  <2>1. UNCHANGED disk /\ \E k \in {"idle"} \cup Removing \cup Deleting : Goto(w, k)
    BY <1>7 DEF ReadInode, ReadEntries, Leave, Reply, Removing, Deleting
  <2>. QED BY <1>4, <2>1
<1>8. CASE WriteInode(w)
  <2>1. pc[w] = "write inode" /\ Goto(w, "read entries")
        /\ disk' = [disk EXCEPT !.itable[TableBlock(l.num)] = l.table]
    BY <1>8 DEF WriteInode, At
  <2>2. /\ disk' = [disk EXCEPT !.itable[TableBlock(l.num)] = TableWith(l.num, FreeInode)]
        /\ l.num # 0
    BY <1>1, <2>1 DEF RemovingInv, Removing
  <2>. QED BY <1>6, <2>2
<1>9. CASE WriteEntries(w)
  <2>. DEFINE es == Entries(l.dir)
  <2>1. pc[w] = "write entries" /\ disk' = [disk EXCEPT !.data[l.dirBlock] = l.buffer]
        /\ \E k \in {"idle", "read block"} : Goto(w, k)
    BY <1>9 DEF WriteEntries, At, Reply
  <2>2. /\ Inode(l.dir).mode # "none" /\ l.dirBlock = Inode(l.dir).block
        /\ \E i \in DOMAIN es : l.buffer = RemoveAt(es, i)
    BY <1>1, <2>1 DEF RemovingInv
  <2>3. /\ l.dirBlock \in disk.bbitmap[0] /\ l.dirBlock \in Blocks
        /\ es = disk.data[l.dirBlock] /\ es \in Files /\ es # <<>>
    <3>1. es = disk.data[l.dirBlock] /\ es \in Files /\ es # <<>>
      BY <1>1, <1>2, <2>2, LookTypes DEF Entries
    <3>2. Inode(l.dir) \in InodeType
      BY <1>1, <1>2, LookTypes
    <3>3. l.dirBlock \in Blocks
      BY <2>2, <3>2 DEF InodeType
    <3>. QED BY <1>1, <3>1, <3>3 DEF Contents, DataInv
  <2>4. \A n \in Inodes : HasBlock(n) /\ Inode(n).mode = "file" => Inode(n).block # l.dirBlock
    BY <1>1, <2>3 DEF Contents, DataInv
  <2>5. \A i \in DOMAIN es : Valid(es[i])
    BY <1>1, <2>3 DEF Contents, EntriesInv
  <2>6. PICK i \in DOMAIN es : l.buffer = RemoveAt(es, i)
    BY <2>2
  <2>. HIDE DEF es, l
  <2>7. RemoveAt(es, i) \in Files /\ \A k \in DOMAIN RemoveAt(es, i) : Valid(RemoveAt(es, i)[k])
    <3>1. /\ RemoveAt(es, i) \in Files /\ Len(RemoveAt(es, i)) = Len(es) - 1
          /\ \A k \in 1 .. (Len(es) - 1) : RemoveAt(es, i)[k] = IF k < i THEN es[k] ELSE es[k + 1]
      BY <2>3, RemoveAtIs
    <3>2. /\ DOMAIN es = 1 .. Len(es) /\ DOMAIN RemoveAt(es, i) = 1 .. (Len(es) - 1)
          /\ Len(es) \in Nat
      BY <2>3, <3>1, LenProperties DEF Files
    <3>3. \A k \in 1 .. (Len(es) - 1) : k \in DOMAIN es /\ k + 1 \in DOMAIN es
      BY <3>2
    <3>. QED BY <2>5, <3>1, <3>2, <3>3
  <2>. QED BY <1>1, <2>1, <2>3, <2>4, <2>6, <2>7, ContentsEntered
<1>10. CASE ReadDeletedBlock(w)
  <2>1. UNCHANGED disk /\ \E k \in Deleting : Goto(w, k)
    BY <1>10 DEF ReadDeletedBlock, Deleting
  <2>. QED BY <1>4, <2>1
<1>11. CASE DeleteEntries(w)
  <2>1. UNCHANGED disk /\ \E k \in Deleting : Goto(w, k)
    <3>1. pc[w] = "delete entries" /\ UNCHANGED pc => Goto(w, "delete entries")
      BY <1>1 DEF Goto, Types
    <3>. QED BY <1>11, <3>1 DEF DeleteEntries, At, Deleting
  <2>. QED BY <1>4, <2>1
<1>12. CASE DeleteInode(w)
  <2>1. /\ pc[w] = "delete inode" /\ Goto(w, "read block")
        /\ disk' = IF IsUsed(l.num) THEN [disk EXCEPT !.itable[TableBlock(l.num)] = l.table] ELSE disk
    BY <1>12 DEF DeleteInode, At
  <2>2. l.table = TableWith(l.num, FreeInode) /\ l.num # 0
    BY <1>1, <2>1 DEF DeletingInv
  <2>3. CASE IsUsed(l.num)
    BY <1>6, <2>1, <2>2, <2>3
  <2>4. CASE ~IsUsed(l.num)
    BY <1>4, <2>1, <2>4
  <2>. QED BY <2>3, <2>4
<1>. QED BY <1>7, <1>8, <1>9, <1>10, <1>11, <1>12 DEF RemoveStep

\* What holds of the disk is kept.
LEMMA StepDisk ==
  ASSUME FSInv, EnoughBlocks, OneRequest, [Next]_vars
  PROVE  DiskInv'
<1>1. Types /\ Types' /\ DiskInv /\ Contents /\ FormatInv
  BY StepTypes DEF FSInv, DiskInv, Contents
<1>2. ASSUME Contents', FormatInv' PROVE DiskInv'
  BY <1>2 DEF Contents, DiskInv
<1>3. CASE UNCHANGED vars
  BY <1>1, <1>3 DEF vars, DiskInv, InodesInv, OwnersInv, DataInv, EntriesInv, FormatInv, HasBlock,
     IsUsed, Inode, Valid
<1>4. CASE MountStep
  BY <1>1, <1>4, MountDisk
<1>5. ASSUME NEW w \in Workers, Request(w) PROVE DiskInv'
  <2>1. FormatInv'
    BY <1>1, <1>5, WorkerFormat
  <2>2. UNCHANGED disk /\ \E l \in {"find inode", "read inode"} : Goto(w, l)
    BY <1>5 DEF Request, StartCreate, StartRemove, Begin
  <2>3. Contents'
    BY <1>1, <2>2, ContentsMarked
  <2>. QED BY <1>2, <2>1, <2>3
<1>6. ASSUME NEW w \in Workers, CreateStep(w) PROVE DiskInv'
  BY <1>1, <1>2, <1>6, WorkerFormat, CreateDisk
<1>7. ASSUME NEW w \in Workers, RemoveStep(w) PROVE DiskInv'
  BY <1>1, <1>2, <1>7, WorkerFormat, RemoveDisk
<1>8. CASE Crash
  <2>1. /\ UNCHANGED disk /\ mount' = "unmounted" /\ format'.next = 0 /\ mount # "unmounted"
        /\ pc' = [w \in Workers |-> "idle"]
    BY <1>8 DEF Crash
  <2>2. Contents'
    BY <1>1, <2>1, ContentsMarked
  <2>4. FormatInv'
    BY <1>1, <2>1 DEF FormatInv, Formatting
  <2>. QED BY <1>2, <2>2, <2>4
<1>. QED BY <1>3, <1>4, <1>5, <1>6, <1>7, <1>8 DEF Next

-----------------------------------------------------------------------------
(***************************************************************************)
(* What a request goes by.                                                 *)
(***************************************************************************)
CallInv(w) == FindingInv(w) /\ FillingInv(w) /\ RemovingInv(w) /\ DeletingInv(w)

\* What does not concern the step a request is at.
LEMMA Elsewhere ==
  ASSUME NEW w \in Workers
  PROVE  /\ pc'[w] \notin Finding \cup Filling => FindingInv(w)' /\ FillingInv(w)'
         /\ pc'[w] \notin Filling => FillingInv(w)'
         /\ pc'[w] \notin Removing \cup Deleting => RemovingInv(w)' /\ DeletingInv(w)'
         /\ pc'[w] \notin Removing => RemovingInv(w)'
         /\ pc'[w] \notin Deleting => DeletingInv(w)'
  BY DEF FindingInv, FillingInv, RemovingInv, DeletingInv, Finding, Filling, Removing, Deleting

LEMMA IdleCall ==
  ASSUME NEW w \in Workers, pc'[w] = "idle"
  PROVE  CallInv(w)'
<1>1. pc'[w] \notin Finding \cup Filling \cup Removing \cup Deleting
  BY DEF Finding, Filling, Removing, Deleting
<1>. QED BY <1>1, Elsewhere DEF CallInv

\* Where a step leads.
LEMMA Went ==
  ASSUME Types, NEW w \in Workers, NEW k
  PROVE  /\ Goto(w, k) => pc'[w] = k
         /\ \A c : Set(w, c) => loc'[w] = c
         /\ \A r : Reply(w, r) => pc'[w] = "idle"
  BY DEF Goto, Set, Reply, Types

\* A directory that exists has a block.
LEMMA DirectoryIs ==
  ASSUME Types, InodesInv, NEW path \in Paths, Exists(Directory(path)), Kind(Directory(path)) = "dir"
  PROVE  InodeFromPath(Directory(path)) \in Inodes /\ IsDir(InodeFromPath(Directory(path)))
<1>. DEFINE d == InodeFromPath(Directory(path))
<1>1. d \in Inodes /\ Inode(d).mode = "dir"
  BY DirectoryFound DEF Kind
<1>2. CASE Directory(path) = <<>>
  <2>1. d = 0
    BY <1>2, FromPath
  <2>. QED BY <1>1, <2>1 DEF InodesInv, IsDir, HasBlock, IsUsed, ZeroInode
<1>3. CASE Directory(path) = <<path[1]>>
  <2>1. path[1] \in Names
    BY PathIs
  <2>2. IsUsed(d)
    BY <1>3, <2>1, FromPath, ExistsIs
  <2>. QED BY <1>1, <2>2 DEF IsDir, HasBlock
<1>. QED BY <1>2, <1>3, PathIs

LEMMA StartCall ==
  ASSUME Types, InodesInv, NEW w \in Workers, Request(w)
  PROVE  CallInv(w)'
<1>1. ASSUME NEW path \in Paths, NEW call \in {"create", "mkdir"}, StartCreate(w, call, path)
      PROVE  CallInv(w)'
  <2>1. UNCHANGED disk /\ pc'[w] = "find inode" /\ loc'[w] = [NoCall EXCEPT !.call = call, !.path = path]
    BY <1>1, Went DEF StartCreate, Begin
  <2>2. loc'[w].call = call /\ loc'[w].path = path
    BY <2>1 DEF NoCall
  <2>3. InodeFromPath(Directory(path)) \in Inodes /\ IsDir(InodeFromPath(Directory(path)))
    BY <1>1, DirectoryIs DEF StartCreate
  <2>4. /\ \A n : IsDir(n)' = IsDir(n)
        /\ \A q : InodeFromPath(q)' = InodeFromPath(q)
    <3>1. \A n : Inode(n)' = Inode(n)
      BY <2>1 DEF Inode
    <3>. QED BY <2>1, <3>1, PathKept DEF IsDir, HasBlock, IsUsed
  <2>5. FindingInv(w)'
    BY <2>1, <2>2, <2>3, <2>4 DEF FindingInv, Finding, Filling
  <2>6. pc'[w] \notin Filling \cup Removing \cup Deleting
    BY <2>1 DEF Filling, Removing, Deleting
  <2>. QED BY <2>5, <2>6, Elsewhere DEF CallInv
<1>2. ASSUME NEW path \in Paths, NEW call \in {"unlink", "rmdir"}, StartRemove(w, call, path)
      PROVE  CallInv(w)'
  <2>. DEFINE n == InodeFromPath(path)
  <2>1. pc'[w] = "read inode" /\ loc'[w].num = n /\ loc'[w].call = call
    BY <1>2, Went, ZenonT(30) DEF StartRemove, Begin, NoCall
  <2>2. n # 0
    BY <1>2, PathFound DEF StartRemove
  <2>. HIDE DEF n
  <2>3. RemovingInv(w)'
    BY <2>1, <2>2 DEF RemovingInv, Removing
  <2>4. pc'[w] \notin Finding \cup Filling \cup Deleting
    BY <2>1 DEF Finding, Filling, Deleting
  <2>. QED BY <2>3, <2>4, Elsewhere DEF CallInv
<1>. QED BY <1>1, <1>2 DEF Request

\* An inode that no entry has.
LEMMA EnteredKept ==
  /\ disk'.data = disk.data => \A n : Entered(n)' = Entered(n)
  /\ EntriesInv => \A n : n \notin disk.ibitmap => ~Entered(n)
  BY DEF Entered, EntriesInv, Valid

LEMMA FindCall ==
  ASSUME FSInv, EnoughBlocks, OneRequest, NEW w \in Workers,
         ReadInodeBitmap(w) \/ WriteInodeBitmap(w) \/ ReadTable(w) \/ ReadBlockBitmap(w)
  PROVE  CallInv(w)'
<1>. DEFINE l == loc[w]
            d == InodeFromPath(Directory(l.path))
<1>1. /\ Types /\ InodesInv /\ DataInv /\ EntriesInv /\ FormatInv /\ FindingInv(w)
      /\ disk \in DiskType /\ l \in CallType /\ l.num \in Inodes
  BY DEF FSInv, DiskInv, RequestInv, Types, CallType
<1>2. /\ pc[w] \in Finding /\ l.call \in {"create", "mkdir"}
      /\ d \in Inodes /\ IsDir(d)
  BY <1>1 DEF FindingInv, Finding, ReadInodeBitmap, WriteInodeBitmap, ReadTable, ReadBlockBitmap, At
<1>3. disk'.itable = disk.itable /\ disk'.data = disk.data
  BY <1>1 DEF DiskType, ReadInodeBitmap, WriteInodeBitmap, ReadTable, ReadBlockBitmap
<1>4. /\ \A n : Inode(n)' = Inode(n) /\ Entered(n)' = Entered(n) /\ IsDir(n)' = IsDir(n)
      /\ \A q : InodeFromPath(q)' = InodeFromPath(q)
  <2>1. \A n : Inode(n)' = Inode(n)
    BY <1>3, PathKept
  <2>. QED BY <1>3, <2>1, PathKept, EnteredKept DEF IsDir, HasBlock, IsUsed
<1>5. \A n : IsFree(Inode(n))' = IsFree(Inode(n))
  BY <1>4 DEF IsFree
<1>6. ASSUME NEW k \in Finding, pc'[w] = k, FindingInv(w)' PROVE CallInv(w)'
  <2>1. pc'[w] \notin Filling \cup Removing \cup Deleting
    BY <1>6 DEF Finding, Filling, Removing, Deleting
  <2>. QED BY <1>6, <2>1, Elsewhere DEF CallInv
<1>7. CASE ReadInodeBitmap(w)
  <2>. DEFINE n == FindFirstFree(disk.ibitmap)
  <2>1. CASE n = -1
    BY <1>1, <1>7, <2>1, Went, IdleCall DEF ReadInodeBitmap
  <2>2. CASE n # -1
    <3>1. pc[w] = "find inode" /\ pc'[w] = "write inode bitmap" /\ UNCHANGED disk
          /\ loc'[w] = [l EXCEPT !.num = n, !.bits = disk.ibitmap \cup {n}]
      BY <1>1, <1>7, <2>2, Went DEF ReadInodeBitmap, At
    <3>2. n \in Blocks \ ({0} \cup disk.ibitmap)
      BY <2>2, FirstFree
    <3>. HIDE DEF n
    <3>3. /\ loc'[w].num = n /\ loc'[w].bits = disk.ibitmap \cup {n}
          /\ loc'[w].path = l.path /\ loc'[w].call = l.call
      BY <1>1, <3>1 DEF CallType
    <3>5. FindingInv(w)'
      BY <1>2, <1>4, <3>1, <3>2, <3>3 DEF FindingInv, Finding, Filling
    <3>. QED BY <1>6, <3>1, <3>5 DEF Finding
  <2>. QED BY <2>1, <2>2
<1>8. CASE WriteInodeBitmap(w)
  <2>1. pc[w] = "write inode bitmap" /\ pc'[w] = "read table"
        /\ loc'[w] = [l EXCEPT !.bits = {}] /\ disk'.ibitmap = l.bits
    BY <1>1, <1>8, Went DEF WriteInodeBitmap, At, DiskType
  <2>2. loc'[w].num = l.num /\ loc'[w].path = l.path /\ loc'[w].call = l.call
    BY <1>1, <2>1 DEF CallType
  <2>3. l.num # 0 /\ l.num \notin disk.ibitmap /\ l.num \in disk'.ibitmap
    BY <1>1, <2>1 DEF FindingInv
  <2>4. ~Entered(loc[w].num)'
    BY <1>1, <1>4, <2>2, <2>3, EnteredKept
  <2>6. FindingInv(w)'
    BY <1>2, <1>4, <2>1, <2>2, <2>3, <2>4 DEF FindingInv, Finding, Filling
  <2>. QED BY <1>6, <2>1, <2>6 DEF Finding
<1>9. CASE ReadTable(w)
  <2>1. CASE Inode(l.num).size = -1
    <3>1. pc[w] = "read table" /\ pc'[w] = "find block" /\ UNCHANGED disk
          /\ loc'[w] = [l EXCEPT !.table = disk.itable[TableBlock(l.num)]]
      BY <1>1, <1>9, <2>1, Went DEF ReadTable, At
    <3>2. /\ loc'[w].num = l.num /\ loc'[w].path = l.path /\ loc'[w].call = l.call
          /\ loc'[w].table = disk.itable[TableBlock(l.num)]
      BY <1>1, <3>1 DEF CallType
    <3>3. l.num \in disk.ibitmap \ {0} /\ ~Entered(l.num)
      BY <1>1, <3>1 DEF FindingInv
    <3>4. IsFree(Inode(l.num))
      BY <1>1, <2>1 DEF InodesInv, ZeroInode
    <3>5. FindingInv(w)'
      BY <1>2, <1>4, <1>5, <3>1, <3>2, <3>3, <3>4 DEF FindingInv, Finding, Filling
    <3>. QED BY <1>6, <3>1, <3>5 DEF Finding
  <2>2. CASE Inode(l.num).size # -1
    BY <1>1, <1>9, <2>2, Went, IdleCall DEF ReadTable
  <2>. QED BY <2>1, <2>2
<1>10. CASE ReadBlockBitmap(w)
  <2>. DEFINE b == FreeBlock.block
  <2>1. pc[w] = "find block" /\ pc'[w] = "write block bitmap" /\ UNCHANGED disk
        /\ loc'[w] = [l EXCEPT !.block = b, !.bitmap = FreeBlock.bitmap,
                               !.bits = disk.bbitmap[FreeBlock.bitmap] \cup {b}]
    BY <1>1, <1>10, Went DEF ReadBlockBitmap, At
  <2>2. FreeBlock.bitmap = 0 /\ b \in Blocks \ ({0} \cup disk.bbitmap[0])
    <3>1. NewBlock
      BY <2>1, BlockFound
    <3>. QED BY <3>1 DEF NewBlock
  <2>. HIDE DEF b
  <2>3. /\ loc'[w].num = l.num /\ loc'[w].path = l.path /\ loc'[w].call = l.call
        /\ loc'[w].table = l.table /\ loc'[w].block = b /\ loc'[w].bitmap = 0
        /\ loc'[w].bits = disk.bbitmap[0] \cup {b}
    BY <1>1, <2>1, <2>2 DEF CallType
  <2>4. /\ l.num \in disk.ibitmap \ {0} /\ ~Entered(l.num) /\ IsFree(Inode(l.num))
        /\ l.table = disk.itable[TableBlock(l.num)]
    BY <1>1, <2>1 DEF FindingInv
  <2>5. FindingInv(w)'
    BY <1>2, <1>4, <1>5, <2>1, <2>3, <2>4 DEF FindingInv, Finding, Filling
  <2>6. \A n \in Inodes : HasBlock(n) => Inode(n).block # b
    BY <1>1, <2>2, UsedInodes
  <2>7. disk.data[b] = <<>>
    BY <1>1, <2>2 DEF DataInv
  <2>8. \A n : HasBlock(n)' = HasBlock(n)
    BY <1>4 DEF HasBlock, IsUsed
  <2>9. FillingInv(w)'
    BY <1>4, <2>1, <2>2, <2>3, <2>6, <2>7, <2>8 DEF FillingInv, Filling
  <2>10. pc'[w] \notin Removing \cup Deleting
    BY <2>1 DEF Removing, Deleting
  <2>. QED BY <2>5, <2>9, <2>10, Elsewhere DEF CallInv
<1>. QED BY <1>7, <1>8, <1>9, <1>10

LEMMA FillCall ==
  ASSUME FSInv, OneRequest, NEW w \in Workers,
         WriteBlockBitmap(w) \/ WriteDots(w) \/ ReadDirectory(w) \/ FillEntry(w) \/ WriteEntry(w)
  PROVE  CallInv(w)'
<1>. DEFINE l == loc[w]
            kind == IF l.call = "mkdir" THEN "dir" ELSE "file"
<1>1. /\ Types /\ InodesInv /\ OwnersInv /\ RequestInv /\ FindingInv(w) /\ FillingInv(w)
      /\ disk \in DiskType /\ l \in CallType /\ l.num \in Inodes /\ l.block \in Blocks
  BY DEF FSInv, DiskInv, RequestInv, Types, CallType
<1>2. /\ pc[w] \in Filling \ {"write table"} /\ l.call \in {"create", "mkdir"}
      /\ l.num \in disk.ibitmap \ {0} /\ ~Entered(l.num) /\ IsFree(Inode(l.num))
      /\ l.block # 0 /\ \A n \in Inodes : HasBlock(n) => Inode(n).block # l.block
  <2>1. pc[w] \in Filling \ {"write table"}
    BY DEF Filling, WriteBlockBitmap, WriteDots, ReadDirectory, FillEntry, WriteEntry, At
  <2>. QED BY <1>1, <2>1 DEF FindingInv, FillingInv
<1>3. disk'.itable = disk.itable /\ disk'.ibitmap = disk.ibitmap
  BY <1>1 DEF DiskType, WriteBlockBitmap, WriteDots, ReadDirectory, FillEntry, WriteEntry
<1>4. \A n : /\ Inode(n)' = Inode(n) /\ HasBlock(n)' = HasBlock(n) /\ IsDir(n)' = IsDir(n)
             /\ IsFree(Inode(n))' = IsFree(Inode(n))
  <2>1. \A n : Inode(n)' = Inode(n)
    BY <1>3 DEF Inode
  <2>. QED BY <2>1 DEF HasBlock, IsUsed, IsDir, IsFree
<1>5. ASSUME NEW k \in Filling, pc'[w] = k, FindingInv(w)', FillingInv(w)' PROVE CallInv(w)'
  <2>1. pc'[w] \notin Removing \cup Deleting
    BY <1>5 DEF Filling, Removing, Deleting
  <2>. QED BY <1>5, <2>1, Elsewhere DEF CallInv
<1>6. ASSUME NEW k \in Filling \ {"write block bitmap"}, pc'[w] = k, loc'[w].num = l.num,
             loc'[w].call = l.call, k # "write table" => ~Entered(loc[w].num)'
      PROVE  FindingInv(w)'
  BY <1>2, <1>3, <1>4, <1>6 DEF FindingInv, Finding, Filling
<1>7. CASE WriteBlockBitmap(w)
  <2>. DEFINE d == InodeFromPath(Directory(l.path))
              k == IF l.call = "mkdir" THEN "write dots" ELSE "read directory"
              x == NewInode(kind, l.block)
  <2>1. /\ pc[w] = "write block bitmap" /\ pc'[w] = k
        /\ disk' = [disk EXCEPT !.bbitmap[l.bitmap] = l.bits]
        /\ loc'[w] = [l EXCEPT !.bits = {}, !.bitmap = 0, !.dir = d, !.table[TableIndex(l.num)] = x]
    BY <1>1, <1>7, Went DEF WriteBlockBitmap, At
  <2>2. /\ d \in Inodes /\ IsDir(d)
        /\ l.table = disk.itable[TableBlock(l.num)]
        /\ l.bitmap = 0 /\ l.bits = disk.bbitmap[0] \cup {l.block} /\ disk.data[l.block] = <<>>
    BY <1>1, <2>1 DEF FindingInv, FillingInv, Filling
  <2>3. disk'.data = disk.data /\ l.block \in disk'.bbitmap[0]
    BY <1>1, <2>1, <2>2, Numbers DEF DiskType
  <2>. HIDE DEF d, x
  <2>4. /\ loc'[w].num = l.num /\ loc'[w].call = l.call /\ loc'[w].block = l.block
        /\ loc'[w].dir = d /\ loc'[w].table = [l.table EXCEPT ![TableIndex(l.num)] = x]
    BY <1>1, <2>1 DEF CallType
  <2>5. loc'[w].table = [disk'.itable[TableBlock(l.num)] EXCEPT ![TableIndex(l.num)] = x]
    BY <1>3, <2>2, <2>4
  <2>6. k \in {"write dots", "read directory"} /\ (l.call = "mkdir" <=> k = "write dots")
    OBVIOUS
  <2>. HIDE DEF k
  <2>7. ~Entered(loc[w].num)'
    BY <1>2, <2>3, <2>4, EnteredKept
  <2>8. FindingInv(w)'
    BY <1>6, <2>1, <2>4, <2>6, <2>7 DEF Filling
  <2>9. (l.table = TableWith(l.num, NewInode(kind, l.block)))'
    BY <2>4, <2>5 DEF TableWith, x
  <2>10. FillingInv(w)'
    BY <1>2, <1>4, <2>1, <2>2, <2>3, <2>4, <2>6, <2>9, ZenonT(30) DEF FillingInv
  <2>. QED BY <1>5, <2>1, <2>6, <2>8, <2>10 DEF Filling
<1>8. CASE WriteDots(w)
  <2>1. /\ pc[w] = "write dots" /\ pc'[w] = "read directory" /\ UNCHANGED loc
        /\ disk' = [disk EXCEPT !.data[l.block] = DotEntries(l.num, l.dir)]
    BY <1>1, <1>8, Went DEF WriteDots, At
  <2>2. /\ disk'.bbitmap = disk.bbitmap
        /\ \A b \in Blocks :
             disk'.data[b] = IF b = l.block THEN DotEntries(l.num, l.dir) ELSE disk.data[b]
    BY <1>1, <2>1 DEF DiskType
  <2>3. /\ l.block \in disk.bbitmap[0] /\ l.table = TableWith(l.num, NewInode(kind, l.block))
        /\ IsDir(l.dir) /\ l.call = "mkdir"
    BY <1>1, <2>1 DEF FillingInv, Filling
  <2>4. ~Entered(loc[w].num)'
    <3>1. \A i \in DOMAIN DotEntries(l.num, l.dir) : DotEntries(l.num, l.dir)[i].name \in Dots
      BY <1>1, DotNames DEF CallType
    <3>2. PICK n : n = l.num
      OBVIOUS
    <3>3. ~Entered(n) /\ loc'[w].num = n
      BY <1>2, <2>1, <3>2
    <3>4. ~Entered(n)'
      BY <2>2, <3>1, <3>3 DEF Entered
    <3>. QED BY <3>3, <3>4
  <2>5. FindingInv(w)'
    BY <1>6, <2>1, <2>4 DEF Filling
  <2>6. FillingInv(w)'
    BY <1>1, <1>2, <1>3, <1>4, <2>1, <2>2, <2>3 DEF FillingInv, TableWith
  <2>. QED BY <1>5, <2>1, <2>5, <2>6 DEF Filling
<1>9. CASE ReadDirectory(w)
  <2>. DEFINE es == Entries(l.dir)
              b == Inode(l.dir).block
  <2>1. /\ pc[w] = "read directory" /\ pc'[w] = "fill entry" /\ UNCHANGED disk
        /\ loc'[w] = [l EXCEPT !.buffer = es, !.dirBlock = b]
        /\ entry' = [owner |-> w, pos |-> Len(es) + 1]
    BY <1>1, <1>9, Went DEF ReadDirectory, At
  <2>2. \A n : Entries(n)' = Entries(n) /\ Entered(n)' = Entered(n)
    BY <2>1, EnteredKept, PathKept
  <2>. HIDE DEF es, b
  <2>3. /\ loc'[w].num = l.num /\ loc'[w].call = l.call /\ loc'[w].block = l.block
        /\ loc'[w].table = l.table /\ loc'[w].dir = l.dir /\ loc'[w].buffer = es /\ loc'[w].dirBlock = b
    BY <1>1, <2>1 DEF CallType
  <2>4. ~Entered(loc[w].num)'
    BY <1>2, <2>2, <2>3
  <2>5. FindingInv(w)'
    BY <1>6, <2>1, <2>3, <2>4 DEF Filling
  <2>6. FillingInv(w)'
    BY <1>1, <1>2, <1>3, <1>4, <2>1, <2>2, <2>3, ZenonT(30) DEF FillingInv, Filling, TableWith, es, b
  <2>. QED BY <1>5, <2>1, <2>5, <2>6 DEF Filling
<1>10. CASE FillEntry(w)
  <2>. DEFINE e == Entry(l.num, Last(l.path))
  <2>1. pc[w] = "fill entry" /\ pc'[w] = "write entry" /\ UNCHANGED disk
    BY <1>1, <1>10, Went DEF FillEntry, At
  <2>2. loc'[w] = [l EXCEPT !.buffer = Append(l.buffer, e)]
    <3>1. Set(w, [loc[w] EXCEPT !.buffer = Append(@, e)])
      BY <1>1, <1>10, Filled
    <3>2. loc'[w] = [loc[w] EXCEPT !.buffer = Append(@, e)]
      BY <1>1, <3>1, Went
    <3>. QED BY <3>2
  <2>3. \A n : Entries(n)' = Entries(n) /\ Entered(n)' = Entered(n)
    BY <2>1, EnteredKept, PathKept
  <2>4. l.buffer = Entries(l.dir) /\ l.dirBlock = Inode(l.dir).block
    BY <1>1, <2>1 DEF FillingInv, Filling
  <2>5. /\ loc'[w].num = l.num /\ loc'[w].call = l.call /\ loc'[w].block = l.block
        /\ loc'[w].path = l.path /\ loc'[w].table = l.table /\ loc'[w].dir = l.dir
        /\ loc'[w].buffer = Append(l.buffer, e) /\ loc'[w].dirBlock = l.dirBlock
    <3>. HIDE DEF e
    <3>. QED BY <1>1, <2>2 DEF CallType
  <2>6. ~Entered(loc[w].num)'
    BY <1>2, <2>3, <2>5
  <2>7. FindingInv(w)'
    BY <1>6, <2>1, <2>5, <2>6 DEF Filling
  <2>8. FillingInv(w)'
    BY <1>1, <1>2, <1>3, <1>4, <2>1, <2>3, <2>4, <2>5, ZenonT(30) DEF FillingInv, Filling, TableWith, Entry
  <2>. QED BY <1>5, <2>1, <2>7, <2>8 DEF Filling
<1>11. CASE WriteEntry(w)
  <2>1. /\ pc[w] = "write entry" /\ pc'[w] = "write table" /\ loc'[w] = [l EXCEPT !.buffer = <<>>]
        /\ disk' = [disk EXCEPT !.data[l.dirBlock] = l.buffer]
    BY <1>1, <1>11, Went DEF WriteEntry, At
  <2>2. /\ l.dirBlock = Inode(l.dir).block /\ IsDir(l.dir) /\ l.block \in disk.bbitmap[0]
        /\ l.table = TableWith(l.num, NewInode(kind, l.block))
        /\ disk.data[l.block] = IF l.call = "mkdir" THEN DotEntries(l.num, l.dir) ELSE <<>>
    BY <1>1, <2>1 DEF FillingInv, Filling
  <2>3. l.dirBlock # l.block
    <3>1. l.dir \in Inodes
      BY <1>1 DEF CallType
    <3>2. HasBlock(l.dir)
      BY <2>2 DEF IsDir
    <3>. QED BY <1>2, <2>2, <3>1, <3>2
  <2>4. disk'.bbitmap = disk.bbitmap /\ disk'.data[l.block] = disk.data[l.block]
    BY <1>1, <2>1, <2>3 DEF DiskType
  <2>5. /\ loc'[w].num = l.num /\ loc'[w].call = l.call /\ loc'[w].block = l.block
        /\ loc'[w].table = l.table /\ loc'[w].dir = l.dir
    BY <1>1, <2>1 DEF CallType
  <2>6. FindingInv(w)'
    BY <1>6, <2>1, <2>5 DEF Filling
  <2>7. (l.table = TableWith(l.num, NewInode(kind, l.block)))'
    BY <1>3, <2>2, <2>5 DEF TableWith
  <2>8. FillingInv(w)'
    BY <1>2, <1>4, <2>1, <2>2, <2>4, <2>5, <2>7 DEF FillingInv
  <2>. QED BY <1>5, <2>1, <2>6, <2>8 DEF Filling
<1>. QED BY <1>7, <1>8, <1>9, <1>10, <1>11

LEMMA RemoveCall ==
  ASSUME FSInv, NEW w \in Workers, RemoveStep(w)
  PROVE  CallInv(w)'
<1>. DEFINE l == loc[w]
<1>1. /\ Types /\ InodesInv /\ DataInv /\ RemovingInv(w) /\ DeletingInv(w)
      /\ disk \in DiskType /\ l \in CallType /\ l.num \in Inodes /\ l.dir \in Inodes
      /\ dataBlockBuffer \in Files
  BY DEF FSInv, DiskInv, RequestInv, Types, CallType
<1>2. ASSUME NEW k \in Removing, pc'[w] = k, RemovingInv(w)' PROVE CallInv(w)'
  <2>1. k \notin Finding \cup Filling \cup Deleting
    BY <1>2 DEF Finding, Filling, Removing, Deleting
  <2>. QED BY <1>2, <2>1, Elsewhere DEF CallInv
<1>3. ASSUME NEW k \in Deleting, pc'[w] = k, DeletingInv(w)' PROVE CallInv(w)'
  <2>1. k \notin Finding \cup Filling \cup Removing
    BY <1>3 DEF Finding, Filling, Removing, Deleting
  <2>. QED BY <1>3, <2>1, Elsewhere DEF CallInv
<1>4. CASE ReadInode(w)
  <2>1. pc[w] = "read inode" /\ UNCHANGED disk
    BY <1>4 DEF ReadInode, At
  <2>2. l.num # 0 /\ l.call \in {"unlink", "rmdir"}
    BY <1>1, <2>1 DEF RemovingInv, Removing
  <2>3. \/ pc'[w] = "write inode" /\ loc'[w] = [l EXCEPT !.table = TableWith(l.num, FreeInode)]
        \/ pc'[w] = "idle"
        \/ pc'[w] = "read entries" /\ loc'[w] = l
    BY <1>1, <1>4, Went DEF ReadInode, TableWith
  <2>4. CASE pc'[w] = "write inode" /\ loc'[w] = [l EXCEPT !.table = TableWith(l.num, FreeInode)]
    <3>1. /\ loc'[w].num = l.num /\ loc'[w].call = l.call
          /\ loc'[w].table = TableWith(l.num, FreeInode)
      BY <1>1, <2>4 DEF CallType
    <3>2. RemovingInv(w)'
      BY <2>1, <2>2, <2>4, <3>1 DEF RemovingInv, Removing, TableWith
    <3>. QED BY <1>2, <2>4, <3>2 DEF Removing
  <2>5. CASE pc'[w] = "read entries" /\ loc'[w] = l
    <3>1. RemovingInv(w)'
      BY <2>2, <2>5 DEF RemovingInv, Removing
    <3>. QED BY <1>2, <2>5, <3>1 DEF Removing
  <2>. QED BY <2>3, <2>4, <2>5, IdleCall
<1>5. CASE WriteInode(w)
  <2>1. pc[w] = "write inode" /\ pc'[w] = "read entries" /\ loc'[w] = [l EXCEPT !.table = <<>>]
    BY <1>1, <1>5, Went DEF WriteInode, At
  <2>2. loc'[w].num = l.num /\ loc'[w].call = l.call
    BY <1>1, <2>1 DEF CallType
  <2>3. l.num # 0 /\ l.call \in {"unlink", "rmdir"}
    BY <1>1, <2>1 DEF RemovingInv, Removing
  <2>4. RemovingInv(w)'
    BY <2>1, <2>2, <2>3 DEF RemovingInv, Removing
  <2>. QED BY <1>2, <2>1, <2>4 DEF Removing
<1>6. CASE ReadEntries(w)
  <2>. DEFINE es == Entries(l.dir)
              i  == FirstNumbered(es, l.num)
              b  == Inode(l.dir).block
  <2>1. pc[w] = "read entries" /\ UNCHANGED disk
    BY <1>6 DEF ReadEntries, At
  <2>2. l.num # 0 /\ l.call \in {"unlink", "rmdir"}
    BY <1>1, <2>1 DEF RemovingInv, Removing
  <2>3. CASE i = 0
    <3>1. \E r : Reply(w, r)
      BY <1>6, <2>3 DEF ReadEntries
    <3>. QED BY <1>1, <3>1, Went, IdleCall
  <2>4. CASE i # 0
    <3>1. pc'[w] = "write entries" /\ loc'[w] = [l EXCEPT !.buffer = RemoveAt(es, i), !.dirBlock = b]
      BY <1>1, <1>6, <2>4, Went DEF ReadEntries
    <3>2. es \in Files /\ Inode(l.dir) \in InodeType
      BY <1>1, LookTypes
    <3>3. i \in DOMAIN es /\ es[i].iNum = l.num
      BY <2>4, <3>2, FirstNumberedIs
    <3>4. Inode(l.dir).mode # "none"
      BY <3>3 DEF Entries
    <3>. HIDE DEF es, i, b
    <3>5. /\ loc'[w].num = l.num /\ loc'[w].call = l.call /\ loc'[w].dir = l.dir
          /\ loc'[w].buffer = RemoveAt(es, i) /\ loc'[w].dirBlock = b
      BY <1>1, <3>1 DEF CallType
    <3>6. \A n : Entries(n)' = Entries(n) /\ Inode(n)' = Inode(n)
      BY <2>1, PathKept
    <3>7. RemovingInv(w)'
      <4>1. (\E k \in DOMAIN Entries(l.dir) : /\ Entries(l.dir)[k].iNum = l.num
                                              /\ l.buffer = RemoveAt(Entries(l.dir), k))'
        BY <3>3, <3>5, <3>6 DEF es
      <4>. QED BY <2>2, <3>1, <3>4, <3>5, <3>6, <4>1 DEF RemovingInv, Removing, b
    <3>. QED BY <1>2, <3>1, <3>7 DEF Removing
  <2>. QED BY <2>3, <2>4
<1>7. CASE WriteEntries(w)
  <2>. DEFINE f == [block |-> l.block, pos |-> 1]
  <2>1. CASE l.call = "rmdir"
    <3>1. pc'[w] = "read block" /\ loc'[w] = [l EXCEPT !.buffer = <<>>, !.frames = <<f>>]
      BY <1>1, <1>7, <2>1, Went DEF WriteEntries
    <3>. HIDE DEF f
    <3>2. loc'[w].call = "rmdir" /\ loc'[w].frames # <<>>
      <4>1. loc'[w].call = l.call /\ loc'[w].frames = <<f>>
        BY <1>1, <3>1 DEF CallType
      <4>2. <<f>> # <<>>
        OBVIOUS
      <4>. QED BY <2>1, <4>1, <4>2
    <3>3. DeletingInv(w)'
      BY <3>1, <3>2 DEF DeletingInv, Deleting
    <3>. QED BY <1>3, <3>1, <3>3 DEF Deleting
  <2>2. CASE l.call # "rmdir"
    BY <1>1, <1>7, <2>2, Went, IdleCall DEF WriteEntries
  <2>. QED BY <2>1, <2>2
<1>8. CASE ReadDeletedBlock(w)
  <2>1. /\ pc[w] = "read block" /\ pc'[w] \in {"leave", "delete entries"} /\ loc'[w] = l
    BY <1>1, <1>8, Went DEF ReadDeletedBlock, At
  <2>2. l.call = "rmdir" /\ l.frames # <<>>
    BY <1>1, <2>1 DEF DeletingInv, Deleting
  <2>3. DeletingInv(w)'
    BY <2>1, <2>2 DEF DeletingInv, Deleting
  <2>. QED BY <1>3, <2>1, <2>3 DEF Deleting
<1>9. CASE DeleteEntries(w)
  <2>. DEFINE pos == Frame(w).pos
              n   == dataBlockBuffer[pos].iNum
              b   == Inode(n).block
              f   == [Frame(w) EXCEPT !.pos = pos + 1]
  <2>1. pc[w] = "delete entries" /\ UNCHANGED <<disk, dataBlockBuffer>>
    BY <1>9 DEF DeleteEntries, At, globals
  <2>2. l.call = "rmdir" /\ l.frames # <<>> /\ l.frames \in Frames
    BY <1>1, <2>1 DEF DeletingInv, Deleting, CallType
  <2>3. /\ Frame(w) \in [block : Blocks, pos : Nat \ {0}]
        /\ \A g \in [block : Blocks, pos : Nat \ {0}] : Append(Front(l.frames), g) # <<>>
    BY <2>2, FramesAre DEF Frame
  <2>4. CASE pos > Len(dataBlockBuffer)
    <3>1. pc'[w] = "leave" /\ loc'[w] = l
      BY <1>1, <1>9, <2>4, Went DEF DeleteEntries
    <3>2. DeletingInv(w)'
      BY <2>2, <3>1 DEF DeletingInv, Deleting
    <3>. QED BY <1>3, <3>1, <3>2 DEF Deleting
  <2>5. CASE ~ (pos > Len(dataBlockBuffer)) /\ IsDeletable(dataBlockBuffer[pos])
    <3>1. pc'[w] = "delete inode"
          /\ loc'[w] = [l EXCEPT !.num = n, !.block = b, !.table = TableWith(n, FreeInode)]
      BY <1>1, <1>9, <2>5, Went DEF DeleteEntries, TableWith
    <3>2. n # 0
      <4>1. n > 0
        BY <2>5 DEF IsDeletable
      <4>. HIDE DEF n
      <4>. QED BY <4>1
    <3>3. pos <= Len(dataBlockBuffer)
      <4>1. pos \in Nat /\ Len(dataBlockBuffer) \in Nat
        BY <1>1, <2>3, LenProperties DEF Files
      <4>. HIDE DEF pos
      <4>. QED BY <2>5, <4>1
    <3>4. /\ loc'[w].num = n /\ loc'[w].block = b /\ loc'[w].table = TableWith(n, FreeInode)
          /\ loc'[w].call = l.call /\ loc'[w].frames = l.frames
      <4>. HIDE DEF n, b
      <4>. QED BY <1>1, <3>1 DEF CallType
    <3>5. Frame(w)' = Frame(w)
      BY <3>4 DEF Frame
    <3>6. (l.table = TableWith(l.num, FreeInode))' /\ (l.block = Inode(l.num).block)'
      BY <2>1, <3>4 DEF TableWith, Inode
    <3>. HIDE DEF n, b
    <3>7. DeletingInv(w)'
      BY <2>1, <2>2, <3>1, <3>2, <3>3, <3>4, <3>5, <3>6 DEF DeletingInv
    <3>. QED BY <1>3, <3>1, <3>7 DEF Deleting
  <2>6. CASE ~ (pos > Len(dataBlockBuffer)) /\ ~IsDeletable(dataBlockBuffer[pos])
    <3>1. pc'[w] = "delete entries" /\ loc'[w] = [l EXCEPT !.frames = Append(Front(l.frames), f)]
      <4>1. Set(w, [l EXCEPT !.frames = Append(Front(@), f)]) /\ UNCHANGED pc
        BY <1>9, <2>6 DEF DeleteEntries, SetFrame
      <4>2. loc'[w] = [l EXCEPT !.frames = Append(Front(@), f)]
        BY <1>1, <4>1, Went
      <4>. QED BY <2>1, <4>1, <4>2
    <3>2. f \in [block : Blocks, pos : Nat \ {0}]
      BY <2>3
    <3>. HIDE DEF f
    <3>3. loc'[w].call = "rmdir" /\ loc'[w].frames # <<>>
      BY <1>1, <2>2, <2>3, <3>1, <3>2, ZenonT(30) DEF CallType
    <3>4. DeletingInv(w)'
      BY <3>1, <3>3 DEF DeletingInv, Deleting
    <3>. QED BY <1>3, <3>1, <3>4 DEF Deleting
  <2>. QED BY <2>4, <2>5, <2>6
<1>10. CASE DeleteInode(w)
  <2>. DEFINE f == [block |-> l.block, pos |-> 1]
  <2>1. /\ pc[w] = "delete inode" /\ pc'[w] = "read block"
        /\ loc'[w] = [l EXCEPT !.table = <<>>, !.frames = Append(@, f)]
    BY <1>1, <1>10, Went DEF DeleteInode, At
  <2>2. l.call = "rmdir" /\ l.frames # <<>> /\ l.frames \in Frames
    BY <1>1, <2>1 DEF DeletingInv, Deleting, CallType
  <2>3. f \in [block : Blocks, pos : Nat \ {0}]
    BY <1>1 DEF CallType
  <2>. HIDE DEF f
  <2>4. Append(l.frames, f) # <<>>
    BY <2>2, <2>3, FramesAre
  <2>5. loc'[w].call = "rmdir" /\ loc'[w].frames # <<>>
    BY <1>1, <2>1, <2>2, <2>4 DEF CallType
  <2>6. DeletingInv(w)'
    BY <2>1, <2>5 DEF DeletingInv, Deleting
  <2>. QED BY <1>3, <2>1, <2>6 DEF Deleting
<1>11. CASE Leave(w)
  <2>. DEFINE frames == Front(l.frames)
              skip   == IF Last(frames).pos <= Len(dataBlockBuffer) THEN 2 ELSE 1
              f      == [Last(frames) EXCEPT !.pos = Last(frames).pos + skip]
  <2>1. pc[w] = "leave"
    BY <1>11 DEF Leave, At
  <2>2. l.call = "rmdir" /\ l.frames # <<>> /\ l.frames \in Frames
    BY <1>1, <2>1 DEF DeletingInv, Deleting, CallType
  <2>3. CASE frames = <<>>
    BY <1>1, <1>11, <2>3, Went, IdleCall DEF Leave
  <2>4. CASE frames # <<>>
    <3>1. pc'[w] = "delete entries" /\ loc'[w] = [l EXCEPT !.frames = Append(Front(frames), f)]
      BY <1>1, <1>11, <2>4, Went DEF Leave
    <3>2. frames \in Frames
      BY <2>2, FramesAre
    <3>3. Last(frames) \in [block : Blocks, pos : Nat \ {0}]
      BY <2>4, <3>2, FramesAre
    <3>4. f \in [block : Blocks, pos : Nat \ {0}]
      BY <3>3
    <3>5. Append(Front(frames), f) # <<>>
      BY <2>4, <3>2, <3>4, FramesAre
    <3>. HIDE DEF frames, f
    <3>6. loc'[w].call = "rmdir" /\ loc'[w].frames # <<>>
      BY <1>1, <2>2, <3>1, <3>5 DEF CallType
    <3>7. DeletingInv(w)'
      BY <3>1, <3>6 DEF DeletingInv, Deleting
    <3>. QED BY <1>3, <3>1, <3>7 DEF Deleting
  <2>. QED BY <2>3, <2>4
<1>. QED BY <1>4, <1>5, <1>6, <1>7, <1>8, <1>9, <1>10, <1>11 DEF RemoveStep

\* What a request goes by is kept by its own steps, and there is no other request.
LEMMA StepRequests ==
  ASSUME FSInv, EnoughBlocks, OneRequest, [Next]_vars
  PROVE  RequestInv'
<1>1. Types /\ InodesInv /\ FormatInv
  BY DEF FSInv, DiskInv
<1>2. ASSUME \A w \in Workers : CallInv(w)' PROVE RequestInv'
  BY <1>2 DEF CallInv, RequestInv
<1>3. ASSUME NEW w \in Workers, CallInv(w)' PROVE RequestInv'
  BY <1>2, <1>3 DEF OneRequest
<1>4. CASE UNCHANGED vars
  <2>1. UNCHANGED <<disk, pc, loc, entry, dataBlockBuffer>>
    BY <1>4 DEF vars
  <2>2. /\ \A n : /\ Inode(n)' = Inode(n) /\ Entries(n)' = Entries(n) /\ Entered(n)' = Entered(n)
                 /\ HasBlock(n)' = HasBlock(n) /\ IsDir(n)' = IsDir(n)
                 /\ IsFree(Inode(n))' = IsFree(Inode(n))
        /\ \A q : InodeFromPath(q)' = InodeFromPath(q)
        /\ \A n, x : TableWith(n, x)' = TableWith(n, x)
        /\ \A w : Frame(w)' = Frame(w)
    <3>1. \A n : Inode(n)' = Inode(n)
      BY <2>1 DEF Inode
    <3>. QED BY <2>1, <3>1, PathKept, EnteredKept DEF HasBlock, IsUsed, IsDir, IsFree, TableWith, Frame
  <2>3. ASSUME NEW w \in Workers PROVE CallInv(w)'
    <3>1. FindingInv(w) /\ FillingInv(w) /\ RemovingInv(w) /\ DeletingInv(w)
      BY DEF FSInv, RequestInv
    <3>2. FindingInv(w)'
      BY <2>1, <2>2, <3>1 DEF FindingInv
    <3>3. FillingInv(w)'
      BY <2>1, <2>2, <3>1 DEF FillingInv
    <3>4. RemovingInv(w)' /\ DeletingInv(w)'
      BY <2>1, <2>2, <3>1 DEF RemovingInv, DeletingInv
    <3>. QED BY <3>2, <3>3, <3>4 DEF CallInv
  <2>. QED BY <1>2, <2>3
<1>5. CASE MountStep
  <2>1. UNCHANGED pc /\ mount # "mounted"
    BY <1>5 DEF MountStep, Mount, FormatSuper, FormatInodeBitmap, FormatBlockBitmaps,
       FormatFirstBlockBitmap, FormatRootBlock, FormatRootEntries, FormatInodeTable, Format
  <2>2. \A w \in Workers : pc'[w] = "idle"
    BY <1>1, <2>1 DEF Types
  <2>. QED BY <1>2, <2>2, IdleCall
<1>6. CASE Crash
  <2>1. \A w \in Workers : pc'[w] = "idle"
    BY <1>6 DEF Crash
  <2>. QED BY <1>2, <2>1, IdleCall
<1>7. ASSUME NEW w \in Workers, Request(w) PROVE RequestInv'
  BY <1>1, <1>3, <1>7, StartCall
<1>8. ASSUME NEW w \in Workers, CreateStep(w) PROVE RequestInv'
  <2>1. CASE WriteTable(w)
    <3>1. pc'[w] = "idle"
      BY <1>1, <2>1, Went DEF WriteTable
    <3>. QED BY <1>3, <3>1, IdleCall
  <2>2. CASE ReadInodeBitmap(w) \/ WriteInodeBitmap(w) \/ ReadTable(w) \/ ReadBlockBitmap(w)
    BY <1>3, <2>2, FindCall
  <2>3. CASE WriteBlockBitmap(w) \/ WriteDots(w) \/ ReadDirectory(w) \/ FillEntry(w) \/ WriteEntry(w)
    BY <1>3, <2>3, FillCall
  <2>. QED BY <1>8, <2>1, <2>2, <2>3 DEF CreateStep
<1>9. ASSUME NEW w \in Workers, RemoveStep(w) PROVE RequestInv'
  BY <1>3, <1>9, RemoveCall
<1>. QED BY <1>4, <1>5, <1>6, <1>7, <1>8, <1>9 DEF Next

-----------------------------------------------------------------------------
(***************************************************************************)
(* The invariant and what it says.                                         *)
(***************************************************************************)
LEMMA FSInit ==
  ASSUME Init
  PROVE  FSInv
<1>1. <<>> \in Files
  BY EmptySeq DEF Files
<1>2. disk \in DiskType
  <2>1. ZeroInode \in InodeType
    BY Numbers DEF ZeroInode, InodeType
  <2>. QED BY <1>1, <2>1 DEF Init, DiskType, TableType
<1>3. Types
  BY <1>1, <1>2, NoCallType, Numbers, CrashAssumption DEF Init, Types, NoCursor
<1>4. \A n \in Inodes : Inode(n) = ZeroInode
  BY Places DEF Init, Inode
<1>5. \A b \in Blocks : disk.data[b] = <<>>
  BY DEF Init
<1>6. InodesInv /\ DataInv /\ EntriesInv
  BY <1>4, <1>5 DEF InodesInv, DataInv, EntriesInv, ZeroInode
<1>7. OwnersInv
  BY <1>4 DEF OwnersInv, HasBlock, ZeroInode
<1>9. FormatInv
  BY <1>4, <1>5 DEF Init, FormatInv, Formatting
<1>10. RequestInv
  BY DEF Init, RequestInv, FindingInv, FillingInv, RemovingInv, DeletingInv, Finding, Filling, Removing,
     Deleting
<1>. QED BY <1>3, <1>6, <1>7, <1>9, <1>10 DEF FSInv, DiskInv

LEMMA FSInvariance ==
  ASSUME OneRequest
  PROVE  Spec /\ []EnoughBlocks => []FSInv
<1>1. Init => FSInv
  BY FSInit
<1>2. FSInv /\ EnoughBlocks /\ [Next]_vars => FSInv'
  BY StepTypes, StepDisk, StepRequests DEF FSInv
<1>. QED BY <1>1, <1>2, PTL DEF Spec

LEMMA TypesSaid ==
  ASSUME FSInv
  PROVE  TypeOK
<1>2. Types
  BY DEF FSInv
<1>3. disk \in DiskType /\ dataBlockBuffer \in Files /\ loc \in [Workers -> CallType]
  BY <1>2 DEF Types
<1>4. \A s \in Files : \A i \in DOMAIN s : s[i] \in EntryType
  BY FileEntries
<1>5. \A b \in Blocks : disk.data[b] \in Files
  BY <1>3 DEF DiskType
<1>6. \A w \in Workers : loc[w] \in CallType /\ loc[w].buffer \in Files
  BY <1>3 DEF CallType
<1>7. /\ disk.super \in BOOLEAN /\ disk.ibitmap \subseteq Blocks
      /\ disk.bbitmap \in [Bitmaps -> SUBSET Blocks]
      /\ disk.itable \in [0 .. (NUM_INODE_BLOCKS - 1) -> TableType] /\ DOMAIN disk.data = Blocks
  BY <1>3 DEF DiskType
<1>8. \A w \in Workers : /\ loc[w].num \in Inodes /\ loc[w].dir \in Inodes
                         /\ loc[w].block \in Blocks /\ loc[w].bits \subseteq Blocks
                         /\ loc[w].table \in TableType \cup {<<>>}
  BY <1>6 DEF CallType
<1>9. entry.owner \in Workers \cup {"freed"} /\ crashes \in 0 .. MaxCrashes
      /\ format \in [block : Blocks, next : 0 .. (NUM_INODE_BLOCKS - 1)]
  BY <1>2 DEF Types
<1>. QED BY <1>3, <1>4, <1>5, <1>6, <1>7, <1>8, <1>9 DEF TypeOK

LEMMA OwnersSaid ==
  ASSUME FSInv
  PROVE  BlocksHaveOneOwner
<1>2. OwnersInv /\ \A w \in Workers : FillingInv(w)
  BY DEF FSInv, DiskInv, RequestInv
<1>3. \A w \in Workers : FillsInode(w) => \A n \in Inodes : HasBlock(n) => Inode(n).block # loc[w].block
  BY <1>2 DEF FillingInv, FillsInode, Filling
<1>. QED BY <1>2, <1>3 DEF BlocksHaveOneOwner, OwnersInv

\* While a free block is found, and whatever the crashes, the disk and the copies of its blocks keep their types
\* (bitmap.c, inode.c and dirent.c cast the bytes of a block to them).
THEOREM TypesKept ==
  ASSUME OneRequest
  PROVE  Spec /\ []EnoughBlocks => []TypeOK
<1>1. FSInv => TypeOK
  BY TypesSaid
<1>. QED BY <1>1, FSInvariance, PTL

\* While a free block is found, and whatever the crashes and what malloc left in the
\* table, no data block has two owners: neither two inodes in use
\* (findFreeInode and findFreeBlock of bitmap.c and block.c, createInode of
\* inode.c), nor an inode and the create that is about to use the block.
THEOREM OneOwner ==
  ASSUME OneRequest
  PROVE  Spec /\ []EnoughBlocks => []BlocksHaveOneOwner
<1>1. FSInv => BlocksHaveOneOwner
  BY OwnersSaid
<1>. QED BY <1>1, FSInvariance, PTL

-----------------------------------------------------------------------------
(***************************************************************************)
(* From here on the memory the table of inodes is written from is clear,   *)
(* so that a free inode has neither mode nor block.                        *)
(***************************************************************************)
ClearedInodes == InodesInv /\ TableCleared
ClearedInv    == FSInv /\ TableCleared

LEMMA ClearedUsed ==
  ASSUME Types, ClearedInodes, NEW n \in Inodes, Inode(n).mode # "none"
  PROVE  /\ HasBlock(n) /\ Inode(n).mode \in {"file", "dir"} /\ Inode(n).size = 0
         /\ Inode(n).block \in disk.bbitmap[0] \ {0} /\ Inode(n).block \in Blocks
<1>1. HasBlock(n)
  BY DEF ClearedInodes, InodesInv, IsFree, HasBlock, IsUsed, ZeroInode, FreeInode
<1>. QED BY <1>1, UsedInodes DEF ClearedInodes

-----------------------------------------------------------------------------
(***************************************************************************)
(* The tree of directories.                                                *)
(***************************************************************************)
Dirs == {n \in Inodes : Inode(n).mode = "dir"}

\* The entries of a directory that are not its dots, and the inode of one.
Behind(n)   == {i \in DOMAIN Entries(n) : i > 2}
Child(n, i) == Entries(n)[i].iNum

\* A directory starts with itself and its parent.
Dotted(n, p) == /\ {1, 2} \subseteq DOMAIN Entries(n)
                /\ Entries(n)[1] = Entry(n, ".") /\ Entries(n)[2] = Entry(p, "..")

\* The root is no directory before sfs_init has made it.
DotsInv == /\ 0 \in Dirs => Dotted(0, 0)
           /\ \A n \in Dirs : \E p \in Inodes : Dotted(n, p)

ChildrenInv ==
  \A n \in Dirs : \A i \in Behind(n) :
    /\ Entries(n)[i].name \in Names
    /\ Child(n, i) # n
    /\ Child(n, i) \in Dirs => Dotted(Child(n, i), n)

\* No inode is entered twice.
OnceInv ==
  \A m, n \in Dirs : \A i \in Behind(m), j \in Behind(n) : Child(m, i) = Child(n, j) => m = n /\ i = j

Shape == DotsInv /\ ChildrenInv /\ OnceInv

\* The request has made the entry and not yet the inode, or freed the inode and
\* not yet taken out the entry.
Between(w) == pc[w] \in {"write table", "read entries", "write entries"}
Pending(n, x) == \E w \in Workers : Between(w) /\ loc[w].dir = n /\ loc[w].num = x

\* A crash has left the entry without the inode.
Lost(n, x) == Inode(x).mode = "none" /\ ~Pending(n, x)

\* A name is twice in a directory only when what is found there is lost.
TwiceInv ==
  \A n \in Dirs : \A i, j \in Behind(n) :
    Entries(n)[i].name = Entries(n)[j].name /\ i # j => Lost(n, Lookup(Entries(n), Entries(n)[i].name))

UsedInv == \A n \in Dirs : \A i \in Behind(n) :
             Inode(Child(n, i)).mode # "none" \/ Pending(n, Child(n, i))

-----------------------------------------------------------------------------
(***************************************************************************)
(* Where paths lead, and what requests rely on.                            *)
(***************************************************************************)

\* What sfs_getattr finds by a name in a directory, and whether a crash spoiled it.
Seen(n, x) == LET m == Lookup(Entries(n), x)
              IN  IF m # -1 /\ Inode(m).mode # "none" THEN m ELSE -1
Spoils(n, x) == Lookup(Entries(n), x) # -1 /\ Lost(n, Lookup(Entries(n), x))

\* The directory that a path's last name is in.
Place(path) == LET d == InodeFromPath(Directory(path))
               IN  IF Exists(Directory(path)) /\ d \in Dirs THEN d ELSE -1

\* No directory has an entry for inode x, or for any that these entries name.
Orphan(x)   == \A n \in Dirs : \A i \in Behind(n) : Child(n, i) # x
Holds(s, x) == \E i \in DOMAIN s : s[i].name \notin Dots /\ s[i].iNum = x
Orphans(s)  == \A x \in Inodes : Holds(s, x) => Orphan(x)

\* A create's path does not exist until its inode is written.
MakingTask(w) ==
  LET l == loc[w]
      p == pc[w]
      d == Place(l.path)
  IN  /\ p \in Finding \cup Filling => d # -1 /\ Seen(d, Last(l.path)) = -1
      /\ p = "find inode" => l.num = 0
      /\ p \in Filling \ {"write block bitmap"} => l.dir = d
      /\ p = "write table" => \E i \in Behind(d) : Entries(d)[i] = Entry(l.num, Last(l.path))

\* What is removed is found in its directory, which is the root or entered there;
\* what was in it is in no directory once its inode is free.
RemovingTask(w) ==
  LET l == loc[w]
      p == pc[w]
  IN  /\ p \in Removing => /\ l.dir \in Dirs /\ l.dir = Place(l.path) /\ Dotted(l.dir, 0)
                           /\ Lookup(Entries(l.dir), Last(l.path)) = l.num
      /\ p \in {"read inode", "write inode"} =>
           /\ Inode(l.num).mode = IF l.call = "rmdir" THEN "dir" ELSE "file"
           /\ l.block = Inode(l.num).block
      /\ p \in {"read entries", "write entries"} =>
           /\ Inode(l.num).mode = "none"
           /\ l.call = "rmdir" => /\ l.block # 0 /\ Orphans(disk.data[l.block])
                                  /\ \A n \in Dirs : Inode(n).block # l.block

\* rmdir frees only what no directory has an entry for.
DeletingTask(w) ==
  LET p == pc[w]
      b == Frame(w).block
  IN  /\ p = "read block" /\ b # 0 => Orphans(disk.data[b])
      /\ p = "read block" /\ b = 0 => Orphans(dataBlockBuffer)
      /\ p \in Deleting \ {"read block"} => Orphans(dataBlockBuffer)
      /\ p \in Deleting => Orphan(loc[w].num)

Tasks == \A w \in Workers : MakingTask(w) /\ RemovingTask(w) /\ DeletingTask(w)

TreeInv == Shape /\ TwiceInv /\ Tasks

\* Without a crash nothing is lost.
NamesInv ==
  /\ TreeInv
  /\ crashes = 0 => /\ UsedInv
                    /\ mount = "unmounted" => ~disk.super
                    /\ mount = "mounted" => 0 \in Dirs

-----------------------------------------------------------------------------
(***************************************************************************)
(* What a directory, an entry and a path are.                              *)
(***************************************************************************)

\* What a directory is written in.
LEMMA DirIs ==
  ASSUME Types, ClearedInodes, NEW n \in Dirs
  PROVE  /\ n \in Inodes /\ Inode(n).mode = "dir" /\ HasBlock(n)
         /\ Inode(n).block \in Blocks \ {0}
         /\ Entries(n) = disk.data[Inode(n).block] /\ Entries(n) \in Files
         /\ Len(Entries(n)) \in Nat /\ DOMAIN Entries(n) = 1 .. Len(Entries(n))
<1>1. n \in Inodes /\ Inode(n).mode = "dir"
  BY DEF Dirs
<1>2. HasBlock(n) /\ Inode(n).block \in Blocks \ {0}
  BY <1>1, ClearedUsed
<1>3. Entries(n) = disk.data[Inode(n).block] /\ Entries(n) \in Files
  BY <1>1, LookTypes DEF Entries
<1>. QED BY <1>1, <1>2, <1>3, LenProperties DEF Files

LEMMA DirBlocks ==
  ASSUME Types, ClearedInodes, OwnersInv, NEW m \in Dirs, NEW n \in Dirs, m # n
  PROVE  Inode(m).block # Inode(n).block
  BY DirIs DEF OwnersInv

\* An entry behind the dots.
LEMMA ChildIs ==
  ASSUME Types, ClearedInodes, EntriesInv, ChildrenInv, NEW n \in Dirs, NEW i \in Behind(n)
  PROVE  /\ Child(n, i) \in Inodes \ {0} /\ Child(n, i) \in disk.ibitmap
         /\ Inode(Child(n, i)) # ZeroInode
<1>1. i \in DOMAIN Entries(n) /\ Entries(n)[i].name \in Names
  BY DEF ChildrenInv, Behind
<1>2. Entries(n) \in Files /\ Entries(n) = disk.data[Inode(n).block] /\ Inode(n).block \in Blocks
  BY DirIs
<1>3. Valid(Entries(n)[i])
  BY <1>1, <1>2 DEF EntriesInv
<1>4. Entries(n)[i].name \notin Dots
  BY <1>1, NamesAssumption
<1>. QED BY <1>1, <1>2, <1>3, <1>4, FileEntries DEF Valid, Child

\* Where a name that is no dot is, and where an inode is that is not the directory's
\* nor its parent's.
LEMMA IsBehind ==
  ASSUME Types, ClearedInodes, NEW n \in Dirs, NEW p, Dotted(n, p), NEW i \in DOMAIN Entries(n)
  PROVE  /\ Entries(n)[i].name \notin Dots => i \in Behind(n)
         /\ Entries(n)[i].iNum \notin {n, p} => i \in Behind(n)
<1>1. i \in 1 .. Len(Entries(n)) /\ Len(Entries(n)) \in Nat
  BY DirIs
<1>2. i = 1 \/ i = 2 \/ i > 2
  BY <1>1
<1>3. /\ Entry(n, ".").name = "." /\ Entry(p, "..").name = ".."
      /\ Entry(n, ".").iNum = n /\ Entry(p, "..").iNum = p
  BY DEF Entry
<1>. QED BY <1>2, <1>3 DEF Behind, Dotted, Dots

\* What is no directory has no entries.
LEMMA NoEntries ==
  ASSUME Types, ClearedInodes, DataInv, NEW n \in Inodes \ Dirs
  PROVE  Entries(n) = <<>>
<1>1. CASE Inode(n).mode = "none"
  BY <1>1 DEF Entries
<1>2. CASE Inode(n).mode # "none"
  <2>1. Inode(n).mode = "file"
    BY <1>2, ClearedUsed DEF Dirs
  <2>2. HasBlock(n)
    BY <1>2, ClearedUsed
  <2>. QED BY <2>1, <2>2 DEF DataInv, Entries
<1>. QED BY <1>1, <1>2

\* The inode that a name in a directory leads to.
LEMMA NamedIs ==
  ASSUME Types, ClearedInodes, EntriesInv, DotsInv, ChildrenInv, NEW d \in Dirs, NEW x \in Names
  PROVE  \/ /\ Lookup(Entries(d), x) = -1 /\ Seen(d, x) = -1 /\ ~Spoils(d, x)
            /\ \A i \in DOMAIN Entries(d) : Entries(d)[i].name # x
         \/ /\ Lookup(Entries(d), x) \in Inodes \ {0} /\ Lookup(Entries(d), x) \notin {d, -1}
            /\ IsUsed(Lookup(Entries(d), x)) <=> Inode(Lookup(Entries(d), x)).mode # "none"
            /\ \E i \in Behind(d) :
                 /\ Entries(d)[i].name = x /\ Lookup(Entries(d), x) = Child(d, i)
                 /\ \A k \in DOMAIN Entries(d) : Entries(d)[k].name = x => i <= k
<1>1. Entries(d) \in Files
  BY DirIs
<1>2. CASE Lookup(Entries(d), x) = -1 /\ \A k \in DOMAIN Entries(d) : Entries(d)[k].name # x
  BY <1>2 DEF Seen, Spoils
<1>3. CASE \E i \in DOMAIN Entries(d) : /\ Entries(d)[i].name = x /\ Lookup(Entries(d), x) = Entries(d)[i].iNum
                                        /\ \A k \in DOMAIN Entries(d) : Entries(d)[k].name = x => i <= k
  <2>1. PICK i \in DOMAIN Entries(d) : /\ Entries(d)[i].name = x /\ Lookup(Entries(d), x) = Child(d, i)
                                       /\ \A k \in DOMAIN Entries(d) : Entries(d)[k].name = x => i <= k
    BY <1>3 DEF Child
  <2>2. PICK p : Dotted(d, p)
    BY DEF DotsInv
  <2>3. i \in Behind(d)
    BY <2>1, <2>2, IsBehind, NamesAssumption
  <2>4. PICK m : m = Child(d, i)
    OBVIOUS
  <2>5. m \in Inodes \ {0} /\ m # d /\ Inode(m) # ZeroInode
    BY <2>3, <2>4, ChildIs DEF ChildrenInv
  <2>6. m # -1
    BY <2>5, Numbers
  <2>7. IsUsed(m) <=> Inode(m).mode # "none"
    BY <2>5 DEF ClearedInodes, InodesInv, IsFree, IsUsed, FreeInode
  <2>. QED BY <2>1, <2>3, <2>4, <2>5, <2>6, <2>7
<1>. QED BY <1>1, <1>2, <1>3, LookupIs

\* What the place of a path says of it.
PlacesRight ==
  /\ \A a \in Names : Place(<<a>>) = IF 0 \in Dirs THEN 0 ELSE -1
  /\ \A a, b \in Names :
       Place(<<a, b>>) = IF 0 \in Dirs /\ Seen(0, a) \in Dirs THEN Seen(0, a) ELSE -1
  /\ \A q \in Paths : Place(q) # -1 =>
       /\ Place(q) \in Dirs /\ Exists(Directory(q)) /\ InodeFromPath(Directory(q)) = Place(q)
       /\ InodeFromPath(q) = Lookup(Entries(Place(q)), Last(q))
  /\ \A q \in Paths : Exists(q) <=> Place(q) # -1 /\ Seen(Place(q), Last(q)) # -1
  /\ \A q \in Paths : Exists(q) => InodeFromPath(q) = Seen(Place(q), Last(q))

LEMMA PathNames ==
  /\ \A a \in Names : <<a>> \in Paths /\ Directory(<<a>>) = <<>> /\ Last(<<a>>) = a
  /\ \A a, b \in Names : <<a, b>> \in Paths /\ Directory(<<a, b>>) = <<a>> /\ Last(<<a, b>>) = b
  /\ \A q \in Paths : (\E a \in Names : q = <<a>>) \/ (\E a, b \in Names : q = <<a, b>>)
<1>1. ASSUME NEW a \in Names PROVE <<a>> \in Paths /\ Directory(<<a>>) = <<>> /\ Last(<<a>>) = a
  <2>1. <<a>> \in Paths /\ Len(<<a>>) = 1 /\ <<a>>[1] = a
    BY DEF Paths
  <2>. QED BY <2>1, PathIs
<1>2. ASSUME NEW a \in Names, NEW b \in Names
      PROVE  <<a, b>> \in Paths /\ Directory(<<a, b>>) = <<a>> /\ Last(<<a, b>>) = b
  <2>1. <<a, b>> \in Paths /\ Len(<<a, b>>) = 2 /\ <<a, b>>[1] = a /\ <<a, b>>[2] = b
    BY DEF Paths
  <2>. QED BY <2>1, PathIs
<1>. QED BY <1>1, <1>2 DEF Paths

LEMMA PlaceRules == ClearedInv /\ Shape => PlacesRight
<1>. SUFFICES ASSUME ClearedInv, Shape PROVE PlacesRight
  OBVIOUS
<1>1. /\ Types /\ ClearedInodes /\ DataInv /\ EntriesInv /\ DotsInv /\ ChildrenInv /\ 0 \in Inodes
      /\ Inodes \subseteq Nat
  BY Numbers DEF ClearedInv, ClearedInodes, FSInv, DiskInv, Shape
<1>2. ASSUME NEW d \in Inodes, NEW x \in Names
      PROVE  \/ Lookup(Entries(d), x) = -1 /\ Seen(d, x) = -1
             \/ /\ d \in Dirs /\ Lookup(Entries(d), x) \in Inodes \ {0} /\ Lookup(Entries(d), x) # d
                /\ IsUsed(Lookup(Entries(d), x)) <=> Inode(Lookup(Entries(d), x)).mode # "none"
  <2>1. CASE d \in Dirs
    BY <1>1, <2>1, NamedIs
  <2>2. CASE d \notin Dirs
    <3>1. Entries(d) = <<>> /\ <<>> \in Files
      BY <1>1, <2>2, NoEntries DEF Files
    <3>2. Lookup(Entries(d), x) = -1
      BY <3>1, LookupIs
    <3>. QED BY <3>2 DEF Seen
  <2>. QED BY <2>1, <2>2
<1>3. ASSUME NEW a \in Names
      PROVE  /\ InodeFromPath(<<a>>) = Lookup(Entries(0), a)
             /\ Exists(<<a>>) <=> Seen(0, a) # -1
             /\ 0 \notin Dirs => Seen(0, a) = -1
             /\ Seen(0, a) \in Inodes \cup {-1}
             /\ Seen(0, a) # -1 => InodeFromPath(<<a>>) = Seen(0, a)
  <2>1. PICK n : n = Lookup(Entries(0), a)
    OBVIOUS
  <2>2. CASE n = -1 /\ Seen(0, a) = -1
    <3>1. InodeFromPath(<<a>>) = -1
      BY <1>1, <2>1, <2>2, FromPath
    <3>2. ~Exists(<<a>>)
      BY <3>1, ExistsIs
    <3>. QED BY <2>1, <2>2, <3>1, <3>2
  <2>3. CASE 0 \in Dirs /\ n \in Inodes \ {0} /\ (IsUsed(n) <=> Inode(n).mode # "none")
    <3>1. n \in Nat /\ n > 0
      BY <1>1, <2>3
    <3>2. InodeFromPath(<<a>>) = n
      BY <1>1, <2>1, <3>1, FromPath
    <3>3. Exists(<<a>>) <=> IsUsed(n)
      BY <3>1, <3>2, ExistsIs
    <3>. QED BY <2>1, <2>3, <3>1, <3>2, <3>3 DEF Seen
  <2>. QED BY <1>1, <1>2, <2>1, <2>2, <2>3
<1>4. ASSUME NEW a \in Names, NEW b \in Names, Exists(<<a>>), NEW n, n = InodeFromPath(<<a>>)
      PROVE  /\ n \in Inodes /\ n = Seen(0, a)
             /\ InodeFromPath(<<a, b>>) = Lookup(Entries(n), b)
             /\ Exists(<<a, b>>) <=> Seen(n, b) # -1
             /\ n \notin Dirs => Seen(n, b) = -1
             /\ Seen(n, b) # -1 => InodeFromPath(<<a, b>>) = Seen(n, b)
  <2>1. n = Lookup(Entries(0), a) /\ n \in Inodes /\ n = Seen(0, a) /\ n > 0
    BY <1>3, <1>4, ExistsIs
  <2>2. PICK m : m = Lookup(Entries(n), b)
    OBVIOUS
  <2>3. InodeFromPath(<<a, b>>) = IF m > 0 /\ m # n THEN m ELSE -1
    <3>1. InodeFromPath(<<a, b>>) = IF n <= 0 THEN -1 ELSE IF m > 0 /\ m # n THEN m ELSE -1
      BY <1>1, <2>1, <2>2, FromPath
    <3>. QED BY <1>1, <2>1, <3>1
  <2>4. CASE m = -1 /\ Seen(n, b) = -1
    <3>1. InodeFromPath(<<a, b>>) = -1
      BY <2>3, <2>4
    <3>2. ~Exists(<<a, b>>)
      <4>1. Exists(<<a, b>>) => InodeFromPath(<<a, b>>) > 0
        BY ExistsIs
      <4>. QED BY <3>1, <4>1
    <3>. QED BY <2>1, <2>2, <2>4, <3>1, <3>2
  <2>5. CASE n \in Dirs /\ m \in Inodes \ {0} /\ m # n /\ (IsUsed(m) <=> Inode(m).mode # "none")
    <3>1. m \in Nat /\ m > 0 /\ InodeFromPath(<<a, b>>) = m
      BY <1>1, <2>3, <2>5
    <3>2. Exists(<<a, b>>) <=> IsUsed(m)
      BY <1>4, <3>1, ExistsIs
    <3>. QED BY <2>1, <2>2, <2>5, <3>1, <3>2 DEF Seen
  <2>. QED BY <1>2, <2>1, <2>2, <2>4, <2>5
<1>5. -1 \notin Dirs
  BY <1>1 DEF Dirs
<1>6. ASSUME NEW a \in Names
      PROVE  /\ Place(<<a>>) = IF 0 \in Dirs THEN 0 ELSE -1
             /\ Exists(Directory(<<a>>)) /\ InodeFromPath(Directory(<<a>>)) = 0
  BY <1>1, <1>6, PathNames, ExistsIs, FromPath DEF Place
<1>7. ASSUME NEW a \in Names, NEW b \in Names
      PROVE  Place(<<a, b>>) = IF 0 \in Dirs /\ Seen(0, a) \in Dirs THEN Seen(0, a) ELSE -1
  <2>1. Place(<<a, b>>) = IF Exists(<<a>>) /\ InodeFromPath(<<a>>) \in Dirs THEN InodeFromPath(<<a>>) ELSE -1
    BY PathNames DEF Place
  <2>. QED BY <1>3, <1>5, <2>1
<1>8. ASSUME NEW q \in Paths, Place(q) # -1
      PROVE  /\ Place(q) \in Dirs /\ Exists(Directory(q)) /\ InodeFromPath(Directory(q)) = Place(q)
             /\ InodeFromPath(q) = Lookup(Entries(Place(q)), Last(q))
  <2>1. Place(q) \in Dirs /\ Exists(Directory(q)) /\ InodeFromPath(Directory(q)) = Place(q)
    BY <1>8 DEF Place
  <2>2. ASSUME NEW a \in Names, q = <<a>> PROVE InodeFromPath(q) = Lookup(Entries(Place(q)), Last(q))
    BY <1>3, <1>6, <1>8, <2>2, PathNames
  <2>3. ASSUME NEW a \in Names, NEW b \in Names, q = <<a, b>>
        PROVE  InodeFromPath(q) = Lookup(Entries(Place(q)), Last(q))
    BY <1>4, <2>1, <2>3, PathNames
  <2>. QED BY <2>1, <2>2, <2>3, PathNames
<1>9. ASSUME NEW q \in Paths
      PROVE  /\ Exists(q) <=> Place(q) # -1 /\ Seen(Place(q), Last(q)) # -1
             /\ Exists(q) => InodeFromPath(q) = Seen(Place(q), Last(q))
  <2>1. ASSUME NEW a \in Names, q = <<a>>
        PROVE  /\ Exists(q) <=> Place(q) # -1 /\ Seen(Place(q), Last(q)) # -1
               /\ Exists(q) => InodeFromPath(q) = Seen(Place(q), Last(q))
    BY <1>3, <1>6, <2>1, PathNames
  <2>2. ASSUME NEW a \in Names, NEW b \in Names, q = <<a, b>>
        PROVE  /\ Exists(q) <=> Place(q) # -1 /\ Seen(Place(q), Last(q)) # -1
               /\ Exists(q) => InodeFromPath(q) = Seen(Place(q), Last(q))
    <3>1. CASE ~Exists(<<a>>)
      <4>1. Place(q) = -1
        BY <1>3, <1>5, <1>7, <2>2, <3>1
      <4>. QED BY <2>2, <3>1, <4>1, ExistsIs
    <3>2. CASE Exists(<<a>>)
      <4>1. PICK n : n = InodeFromPath(<<a>>)
        OBVIOUS
      <4>2. Place(q) = IF n \in Dirs THEN n ELSE -1
        BY <2>2, <3>2, <4>1, PathNames DEF Place
      <4>. QED BY <1>4, <1>5, <2>2, <3>2, <4>1, <4>2, PathNames
    <3>. QED BY <3>1, <3>2
  <2>. QED BY <2>1, <2>2, PathNames
<1>. QED BY <1>6, <1>7, <1>8, <1>9 DEF PlacesRight

-----------------------------------------------------------------------------
(***************************************************************************)
(* What changes in the tree with a block of a directory or with an inode.  *)
(***************************************************************************)

\* The inodes and what is in them stay.
Kept == /\ disk'.itable = disk.itable
        /\ \A n \in Inodes : Entries(n)' = Entries(n)

LEMMA ShapeKept ==
  ASSUME Kept
  PROVE  /\ \A n : Inode(n)' = Inode(n)
         /\ Dirs' = Dirs
         /\ \A n \in Dirs : Behind(n)' = Behind(n) /\ \A i : Child(n, i)' = Child(n, i)
         /\ \A n \in Dirs : \A p : Dotted(n, p)' = Dotted(n, p)
         /\ \A n \in Inodes : \A x : Seen(n, x)' = Seen(n, x)
         /\ \A q : InodeFromPath(q)' = InodeFromPath(q) /\ Exists(q)' = Exists(q) /\ Place(q)' = Place(q)
         /\ \A x : Orphan(x)' = Orphan(x)
         /\ Shape => Shape'
<1>0. \A n : Inode(n)' = Inode(n)
  BY DEF Kept, Inode
<1>1. Dirs' = Dirs
  BY <1>0 DEF Dirs
<1>2. \A n \in Dirs : n \in Inodes /\ Entries(n)' = Entries(n)
  BY DEF Kept, Dirs
<1>3. \A n \in Dirs : Behind(n)' = Behind(n) /\ \A i : Child(n, i)' = Child(n, i)
  BY <1>2 DEF Behind, Child
<1>4. \A n \in Dirs : \A p : Dotted(n, p)' = Dotted(n, p)
  BY <1>2 DEF Dotted
<1>5. \A n \in Inodes : \A x : Seen(n, x)' = Seen(n, x)
  BY <1>0 DEF Kept, Seen
<1>6. \A x : Orphan(x)' = Orphan(x)
  BY <1>1, <1>3 DEF Orphan
<1>7. DotsInv => DotsInv'
  BY <1>1, <1>4 DEF DotsInv
<1>8. ChildrenInv => ChildrenInv'
  <2>1. ASSUME ChildrenInv, NEW n \in Dirs, NEW i \in Behind(n)
        PROVE  /\ Entries(n)'[i].name \in Names /\ Child(n, i)' # n
               /\ \E c : c = Child(n, i)' /\ (c \in Dirs' => Dotted(c, n)')
    BY <1>1, <1>2, <1>3, <1>4, <2>1 DEF ChildrenInv
  <2>. QED BY <1>1, <1>3, <2>1 DEF ChildrenInv, Dotted
<1>9. OnceInv => OnceInv'
  BY <1>1, <1>2, <1>3 DEF OnceInv
<1>10. \A q : InodeFromPath(q)' = InodeFromPath(q)
  <2>1. FindInode' = FindInode
    BY DEF Kept, FindInode
  <2>. QED BY <2>1 DEF InodeFromPath
<1>11. \A q : Exists(q)' = Exists(q)
  BY <1>0, <1>10 DEF Exists, IsUsed
<1>12. \A q : Place(q)' = Place(q)
  BY <1>1, <1>10, <1>11 DEF Place
<1>. QED BY <1>0, <1>1, <1>3, <1>4, <1>5, <1>6, <1>7, <1>8, <1>9, <1>10, <1>11, <1>12 DEF Shape

\* A block that no inode has is written, or none.
LEMMA KeptWithout ==
  ASSUME Types, ClearedInodes, disk'.itable = disk.itable,
         \A n \in Inodes : HasBlock(n) => disk'.data[Inode(n).block] = disk.data[Inode(n).block]
  PROVE  Kept
<1>1. \A n : Inode(n)' = Inode(n)
  BY DEF Inode
<1>2. ASSUME NEW n \in Inodes PROVE Entries(n)' = Entries(n)
  <2>1. CASE Inode(n).mode = "none"
    BY <1>1, <2>1 DEF Entries
  <2>2. CASE Inode(n).mode # "none"
    <3>1. HasBlock(n)
      BY <2>2, ClearedUsed
    <3>2. Entries(n) = disk.data[Inode(n).block] /\ Entries(n)' = disk'.data[Inode(n).block]
      BY <1>1, <2>2 DEF Entries
    <3>. QED BY <3>1, <3>2
  <2>. QED BY <2>1, <2>2
<1>. QED BY <1>2 DEF Kept

LEMMA UsedKept ==
  ASSUME Kept, Types, ClearedInodes, EntriesInv, ChildrenInv, UsedInv,
         \A n, x : Pending(n, x) => Pending(n, x)'
  PROVE  UsedInv'
<1>1. ASSUME NEW n \in Dirs, NEW i \in Behind(n)
      PROVE  \E c : c = Child(n, i)' /\ (Inode(c)'.mode # "none" \/ Pending(n, c)')
  BY ShapeKept DEF UsedInv
<1>. QED BY <1>1, ShapeKept DEF UsedInv, Pending, Inode

\* Names twice in a directory are so before, and what is lost stays lost.
LEMMA TwiceSame ==
  ASSUME Types, ClearedInodes, EntriesInv, DotsInv, ChildrenInv, TwiceInv,
         \A n \in Dirs' : n \in Dirs \/ Behind(n)' = {},
         \A n \in Dirs : n \in Dirs' => /\ Entries(n)' = Entries(n)
                                        /\ \A i \in Behind(n) : \E c : /\ c = Child(n, i)
                                                                       /\ Lost(n, c) => Lost(n, c)'
  PROVE  TwiceInv'
<1>1. ASSUME NEW n \in Dirs', NEW i \in Behind(n)', NEW j \in Behind(n)', i # j,
             Entries(n)'[i].name = Entries(n)'[j].name
      PROVE  \E m : m = Lookup(Entries(n)', Entries(n)'[i].name) /\ Lost(n, m)'
  <2>1. n \in Dirs /\ Entries(n)' = Entries(n)
    BY <1>1
  <2>2. Behind(n)' = Behind(n)
    BY <2>1 DEF Behind
  <2>3. PICK m : m = Lookup(Entries(n), Entries(n)[i].name)
    OBVIOUS
  <2>4. Lost(n, m)
    BY <1>1, <2>1, <2>2, <2>3 DEF TwiceInv
  <2>5. \E k \in Behind(n) : m = Child(n, k)
    <3>1. Entries(n)[i].name \in Names /\ i \in DOMAIN Entries(n)
      BY <1>1, <2>1, <2>2 DEF ChildrenInv, Behind
    <3>. QED BY <2>1, <2>3, <3>1, NamedIs
  <2>6. Lost(n, m)'
    BY <2>1, <2>4, <2>5
  <2>. QED BY <2>1, <2>3, <2>6
<1>. QED BY <1>1 DEF TwiceInv, Lost, Pending, Inode

LEMMA TwiceKept ==
  ASSUME Kept, Types, ClearedInodes, EntriesInv, DotsInv, ChildrenInv, TwiceInv,
         \A n, x : Pending(n, x)' => Pending(n, x)
  PROVE  TwiceInv'
<1>1. \A n, x : Lost(n, x) => Lost(n, x)'
  BY ShapeKept DEF Lost
<1>2. \A n \in Dirs : Entries(n)' = Entries(n)
  BY DEF Kept, Dirs
<1>3. Dirs' = Dirs
  BY ShapeKept
<1>. QED BY <1>1, <1>2, <1>3, TwiceSame

\* The inode of the first entry with a name.
LEMMA LookupFirst ==
  ASSUME NEW s \in Files, NEW x
  PROVE  /\ (\A k \in DOMAIN s : s[k].name # x) <=> Lookup(s, x) = -1
         /\ \A i \in DOMAIN s : s[i].name = x /\ (\A k \in DOMAIN s : s[k].name = x => i <= k)
                                => Lookup(s, x) = s[i].iNum
<1>1. DOMAIN s = 1 .. Len(s) /\ Len(s) \in Nat
  BY LenProperties DEF Files
<1>2. \A i \in DOMAIN s : s[i].iNum # -1
  BY FileEntries, Numbers
<1>3. \A i, k \in DOMAIN s : i <= k /\ k <= i => i = k
  BY <1>1
<1>. QED BY <1>2, <1>3, LookupIs

LEMMA LookupAppend ==
  ASSUME NEW s \in Files, NEW e \in EntryType, NEW x
  PROVE  Lookup(Append(s, e), x) = IF Lookup(s, x) = -1 /\ e.name = x THEN e.iNum ELSE Lookup(s, x)
<1>. DEFINE t == Append(s, e)
<1>1. DOMAIN s = 1 .. Len(s) /\ Len(s) \in Nat
  BY LenProperties DEF Files
<1>2. PICK z : z = Len(s) + 1
  OBVIOUS
<1>3. t \in Files /\ Len(t) = z /\ \A i \in 1 .. z : t[i] = IF i <= Len(s) THEN s[i] ELSE e
  BY <1>2, AppendIs
<1>4. DOMAIN t = 1 .. z
  BY <1>3, LenProperties DEF Files
<1>. HIDE DEF t
<1>5. /\ t[z] = e /\ z \in DOMAIN t /\ \A i \in DOMAIN s : i \in DOMAIN t /\ t[i] = s[i] /\ i <= z
      /\ \A i \in DOMAIN t : i = z \/ i \in DOMAIN s
  BY <1>1, <1>2, <1>3, <1>4
<1>6. CASE Lookup(s, x) = -1
  <2>1. \A k \in DOMAIN s : s[k].name # x
    BY <1>6, LookupFirst
  <2>2. CASE e.name = x
    <3>1. t[z].name = x /\ \A k \in DOMAIN t : t[k].name = x => z <= k
      <4>1. z \in Int
        BY <1>1, <1>2
      <4>. QED BY <1>5, <2>1, <2>2, <4>1
    <3>2. Lookup(t, x) = t[z].iNum
      BY <1>3, <1>5, <3>1, LookupFirst
    <3>. QED BY <1>5, <1>6, <2>2, <3>2 DEF t
  <2>3. CASE e.name # x
    <3>1. \A k \in DOMAIN t : t[k].name # x
      BY <1>5, <2>1, <2>3
    <3>2. Lookup(t, x) = -1
      BY <1>3, <3>1, LookupFirst
    <3>. QED BY <1>6, <2>3, <3>2 DEF t
  <2>. QED BY <2>2, <2>3
<1>7. CASE Lookup(s, x) # -1
  <2>1. PICK i \in DOMAIN s : /\ s[i].name = x /\ Lookup(s, x) = s[i].iNum
                              /\ \A k \in DOMAIN s : s[k].name = x => i <= k
    BY <1>7, LookupIs
  <2>2. t[i] = s[i] /\ i \in DOMAIN t /\ \A k \in DOMAIN t : t[k].name = x => i <= k
    BY <1>5, <2>1
  <2>3. Lookup(t, x) = t[i].iNum
    BY <1>3, <2>1, <2>2, LookupFirst
  <2>. QED BY <1>7, <2>1, <2>2, <2>3 DEF t
<1>. QED BY <1>6, <1>7

LEMMA LookupRemoved ==
  ASSUME NEW s \in Files, NEW i \in DOMAIN s, NEW x
  PROVE  /\ s[i].name # x => Lookup(RemoveAt(s, i), x) = Lookup(s, x)
         /\ s[i].name = x /\ (\A k \in DOMAIN s : s[k].name = x => k = i) => Lookup(RemoveAt(s, i), x) = -1
<1>. DEFINE t == RemoveAt(s, i)
            g(k) == IF k < i THEN k ELSE k + 1
<1>1. DOMAIN s = 1 .. Len(s) /\ Len(s) \in Nat
  BY LenProperties DEF Files
<1>2. t \in Files /\ Len(t) = Len(s) - 1 /\ \A k \in 1 .. (Len(s) - 1) : t[k] = IF k < i THEN s[k] ELSE s[k + 1]
  BY RemoveAtIs
<1>3. DOMAIN t = 1 .. (Len(s) - 1)
  BY <1>2, LenProperties DEF Files
<1>. HIDE DEF t
<1>4. \A k \in DOMAIN t : g(k) \in DOMAIN s \ {i} /\ t[k] = s[g(k)]
  BY <1>1, <1>2, <1>3
<1>5. ASSUME NEW m \in DOMAIN s \ {i}
      PROVE  \E j \in DOMAIN t : t[j] = s[m] /\ \A k \in DOMAIN t : m <= g(k) => j <= k
  <2>1. PICK j : j = IF m < i THEN m ELSE m - 1
    OBVIOUS
  <2>2. j \in DOMAIN t /\ g(j) = m /\ \A k \in DOMAIN t : m <= g(k) => j <= k
    BY <1>1, <1>3, <2>1
  <2>3. t[j] = s[m]
    BY <1>4, <2>2
  <2>. QED BY <2>2, <2>3
<1>. HIDE DEF g
<1>6. ASSUME s[i].name # x PROVE Lookup(t, x) = Lookup(s, x)
  <2>1. CASE Lookup(s, x) = -1
    <3>1. \A k \in DOMAIN t : t[k].name # x
      BY <1>4, <2>1, LookupFirst
    <3>. QED BY <1>2, <2>1, <3>1, LookupFirst
  <2>2. CASE Lookup(s, x) # -1
    <3>1. PICK m \in DOMAIN s : /\ s[m].name = x /\ Lookup(s, x) = s[m].iNum
                                /\ \A k \in DOMAIN s : s[k].name = x => m <= k
      BY <2>2, LookupIs
    <3>2. m # i
      BY <1>6, <3>1
    <3>3. PICK j \in DOMAIN t : t[j] = s[m] /\ \A k \in DOMAIN t : m <= g(k) => j <= k
      BY <1>5, <3>2
    <3>4. \A k \in DOMAIN t : t[k].name = x => j <= k
      BY <1>4, <3>1, <3>3
    <3>5. Lookup(t, x) = t[j].iNum
      BY <1>2, <3>1, <3>3, <3>4, LookupFirst
    <3>. QED BY <3>1, <3>3, <3>5
  <2>. QED BY <2>1, <2>2
<1>7. ASSUME s[i].name = x, \A k \in DOMAIN s : s[k].name = x => k = i PROVE Lookup(t, x) = -1
  <2>1. \A k \in DOMAIN t : t[k].name # x
    BY <1>4, <1>7
  <2>. QED BY <1>2, <2>1, LookupFirst
<1>. QED BY <1>6, <1>7 DEF t

\* No name leads anywhere in a new directory.
LEMMA LookupDots ==
  ASSUME NEW n \in Inodes, NEW p \in Inodes, NEW x \in Names
  PROVE  Lookup(DotEntries(n, p), x) = -1
<1>. DEFINE s == DotEntries(n, p)
<1>1. s \in Files /\ \A i \in DOMAIN s : s[i].name \in Dots
  BY DotsAre, DotNames
<1>2. x \notin Dots
  BY NamesAssumption
<1>. QED BY <1>1, <1>2, LookupFirst

\* An inode that is not the root's is freed.
LEMMA Freed ==
  ASSUME Types, ClearedInodes, OwnersInv, DataInv, Shape, NEW k \in Inodes \ {0},
         disk' = [disk EXCEPT !.itable[TableBlock(k)] = TableWith(k, FreeInode)]
  PROVE  /\ \A n \in Inodes : Inode(n)' = IF n = k THEN FreeInode ELSE Inode(n)
         /\ Dirs' = Dirs \ {k} /\ disk'.data = disk.data
         /\ \A n \in Dirs' : /\ Entries(n)' = Entries(n) /\ Behind(n)' = Behind(n)
                             /\ \A i : Child(n, i)' = Child(n, i)
         /\ \A n \in Dirs' : \A p : Dotted(n, p) => Dotted(n, p)'
         /\ \A x : Orphan(x) => Orphan(x)'
         /\ Inode(k).mode # "none" =>
              \A x : Holds(disk.data[Inode(k).block], x) => Orphan(x)'
         /\ Shape'
<1>. DEFINE b == Inode(k).block
<1>1. disk'.itable = [disk.itable EXCEPT ![TableBlock(k)] = TableWith(k, FreeInode)]
      /\ disk'.data = disk.data
  BY DEF Types, DiskType
<1>2. \A n \in Inodes : Inode(n)' = IF n = k THEN FreeInode ELSE Inode(n)
  <2>1. FreeInode \in InodeType
    BY LookTypes
  <2>. QED BY <1>1, <2>1, InodeWritten
<1>3. Dirs' = Dirs \ {k}
  BY <1>2 DEF Dirs, FreeInode
<1>4. \A n \in Dirs' : Entries(n)' = Entries(n)
  BY <1>1, <1>2, <1>3 DEF Entries, Dirs
<1>5. \A n \in Dirs' : Behind(n)' = Behind(n) /\ \A i : Child(n, i)' = Child(n, i)
  BY <1>4 DEF Behind, Child
<1>6. \A n \in Dirs' : \A p : Dotted(n, p) => Dotted(n, p)'
  BY <1>4 DEF Dotted
<1>7. \A x : Orphan(x) => Orphan(x)'
  BY <1>3, <1>5 DEF Orphan
<1>8. ASSUME Inode(k).mode # "none", NEW x, Holds(disk.data[b], x)
      PROVE  Orphan(x)'
  <2>1. Inode(k).mode = "dir"
    <3>1. Inode(k).mode \in {"file", "dir"}
      BY <1>8, ClearedUsed
    <3>2. Inode(k).mode = "file" => disk.data[b] = <<>>
      BY <1>8, ClearedUsed DEF DataInv
    <3>. QED BY <1>8, <3>1, <3>2 DEF Holds
  <2>2. k \in Dirs /\ Entries(k) = disk.data[b] /\ \E p : Dotted(k, p)
    BY <2>1 DEF Dirs, Entries, Shape, DotsInv
  <2>3. PICK i \in DOMAIN Entries(k) : Entries(k)[i].name \notin Dots /\ Child(k, i) = x
    BY <1>8, <2>2 DEF Holds, Child
  <2>4. i \in Behind(k)
    BY <2>2, <2>3, IsBehind
  <2>5. \A n \in Dirs \ {k} : \A j \in Behind(n) : Child(n, j) # x
    BY <2>2, <2>3, <2>4 DEF Shape, OnceInv
  <2>. QED BY <1>3, <1>5, <2>5 DEF Orphan
<1>9. DotsInv'
  BY <1>3, <1>6 DEF Shape, DotsInv
<1>10. ChildrenInv'
  <2>1. ASSUME NEW n \in Dirs', NEW i \in Behind(n)
        PROVE  /\ Entries(n)[i].name \in Names /\ Child(n, i) # n
               /\ \E c : c = Child(n, i) /\ (c \in Dirs' => Dotted(c, n)')
    BY <1>3, <1>6 DEF Shape, ChildrenInv
  <2>2. ASSUME NEW n \in Dirs', NEW i \in Behind(n)
        PROVE  \E c : /\ c = Child(n, i)' /\ Entries(n)'[i].name \in Names /\ c # n
                      /\ c \in Dirs' => Dotted(c, n)'
    BY <1>4, <1>5, <2>1
  <2>. QED BY <1>5, <2>2 DEF ChildrenInv, Dotted
<1>11. OnceInv'
  BY <1>3, <1>4, <1>5 DEF Shape, OnceInv
<1>. QED BY <1>1, <1>2, <1>3, <1>4, <1>5, <1>6, <1>7, <1>8, <1>9, <1>10, <1>11 DEF Shape

\* The inode of an entry is filled in.
LEMMA Made ==
  ASSUME Types, ClearedInodes, EntriesInv, Shape, NEW k \in Inodes \ {0}, NEW d \in Dirs, NEW x \in InodeType,
         Inode(k) = FreeInode, NEW j \in Behind(d), Child(d, j) = k, x.mode \in {"file", "dir"},
         x.mode = "dir" => disk.data[x.block] = DotEntries(k, d),
         disk' = [disk EXCEPT !.itable[TableBlock(k)] = TableWith(k, x)]
  PROVE  /\ \A n \in Inodes : Inode(n)' = IF n = k THEN x ELSE Inode(n)
         /\ \A n \in Dirs : /\ Entries(n)' = Entries(n) /\ Behind(n)' = Behind(n)
                            /\ \A i : Child(n, i)' = Child(n, i)
         /\ Dirs' = IF x.mode = "dir" THEN Dirs \cup {k} ELSE Dirs
         /\ k \notin Dirs /\ (k \in Dirs' => Behind(k)' = {} /\ Entries(k)' = DotEntries(k, d))
         /\ Shape'
<1>1. disk'.itable = [disk.itable EXCEPT ![TableBlock(k)] = TableWith(k, x)]
      /\ disk'.data = disk.data
  BY DEF Types, DiskType
<1>2. \A n \in Inodes : Inode(n)' = IF n = k THEN x ELSE Inode(n)
  BY <1>1, InodeWritten
<1>3. /\ k \notin Dirs /\ Dirs' \subseteq Dirs \cup {k} /\ Dirs \subseteq Dirs' /\ d \in Inodes
      /\ k \in Dirs' <=> x.mode = "dir"
      /\ Dirs' = IF x.mode = "dir" THEN Dirs \cup {k} ELSE Dirs
  BY <1>2 DEF Dirs, FreeInode
<1>4. \A n \in Dirs : Entries(n)' = Entries(n)
  BY <1>1, <1>2, <1>3 DEF Entries, Dirs
<1>5. \A n \in Dirs : Behind(n)' = Behind(n) /\ \A i : Child(n, i)' = Child(n, i)
  BY <1>4 DEF Behind, Child
<1>6. \A n \in Dirs : \A p : Dotted(n, p) => Dotted(n, p)'
  BY <1>4 DEF Dotted
<1>7. k \in Dirs' => Entries(k)' = DotEntries(k, d)
  <2>1. ASSUME k \in Dirs' PROVE Entries(k)' = disk'.data[x.block]
    <3>1. x.mode = "dir" /\ Inode(k)' = x
      BY <1>2, <1>3, <2>1
    <3>. QED BY <3>1 DEF Entries
  <2>. QED BY <1>1, <1>3, <2>1
<1>8. k \in Dirs' => Dotted(k, d)' /\ Behind(k)' = {}
  BY <1>3, <1>7, DotsAre DEF Dotted, Behind
<1>9. DotsInv'
  BY <1>3, <1>6, <1>8 DEF Shape, DotsInv
<1>10. ChildrenInv'
  <2>2. \A n \in Dirs : \A i \in Behind(n) : Child(n, i) = k => n = d
    BY DEF Shape, OnceInv
  <2>3. ASSUME NEW n \in Dirs', NEW i \in Behind(n)'
        PROVE  \E c : /\ c = Child(n, i)' /\ Entries(n)'[i].name \in Names /\ c # n
                      /\ c \in Dirs' => Dotted(c, n)'
    <3>1. n \in Dirs /\ i \in Behind(n)
      BY <1>3, <1>5, <1>8, <2>3
    <3>2. PICK c : c = Child(n, i)
      OBVIOUS
    <3>3. /\ c = Child(n, i)' /\ Entries(n)'[i].name \in Names /\ c # n
          /\ c \in Dirs => Dotted(c, n)
      BY <1>4, <1>5, <3>1, <3>2 DEF Shape, ChildrenInv
    <3>4. c = k => n = d
      BY <2>2, <3>1, <3>2
    <3>5. c \in Dirs' => Dotted(c, n)'
      BY <1>3, <1>6, <1>8, <3>3, <3>4
    <3>. QED BY <3>3, <3>5
  <2>. QED BY <2>3 DEF ChildrenInv, Dotted
<1>11. OnceInv'
  <2>1. \A n \in Dirs' : \A i \in Behind(n)' : n \in Dirs
    BY <1>3, <1>8
  <2>. QED BY <1>4, <1>5, <2>1 DEF Shape, OnceInv
<1>. QED BY <1>2, <1>3, <1>4, <1>5, <1>7, <1>8, <1>9, <1>10, <1>11 DEF Shape

\* The block of a directory is written.
LEMMA Rewritten ==
  ASSUME Types, ClearedInodes, OwnersInv, NEW d \in Dirs, NEW s,
         disk' = [disk EXCEPT !.data[Inode(d).block] = s]
  PROVE  /\ \A n \in Inodes : Inode(n)' = Inode(n)
         /\ Dirs' = Dirs
         /\ \A n \in Dirs : Entries(n)' = IF n = d THEN s ELSE Entries(n)
         /\ \A n \in Dirs \ {d} : Behind(n)' = Behind(n) /\ \A i : Child(n, i)' = Child(n, i)
         /\ Behind(d)' = {i \in DOMAIN s : i > 2} /\ \A i : Child(d, i)' = s[i].iNum
         /\ \A b \in Blocks \ {Inode(d).block} : disk'.data[b] = disk.data[b]
<1>. DEFINE b == Inode(d).block
<1>1. b \in Blocks
  BY DirIs
<1>2. disk'.itable = disk.itable /\ disk'.data[b] = s
      /\ \A c \in Blocks \ {b} : disk'.data[c] = disk.data[c]
  BY <1>1 DEF Types, DiskType
<1>3. \A n : Inode(n)' = Inode(n)
  BY <1>2 DEF Inode
<1>4. Dirs' = Dirs
  BY <1>3 DEF Dirs
<1>5. ASSUME NEW n \in Dirs PROVE Entries(n)' = IF n = d THEN s ELSE Entries(n)
  <2>1. Inode(n).mode = "dir" /\ Inode(n).block \in Blocks
    BY DirIs
  <2>2. Entries(n) = disk.data[Inode(n).block] /\ Entries(n)' = disk'.data[Inode(n).block]
    BY <1>3, <2>1 DEF Entries
  <2>3. n # d => Inode(n).block # b
    BY DirBlocks
  <2>. QED BY <1>2, <2>1, <2>2, <2>3
<1>6. Behind(d)' = {i \in DOMAIN s : i > 2} /\ \A i : Child(d, i)' = s[i].iNum
  BY <1>5 DEF Behind, Child
<1>7. \A n \in Dirs \ {d} : Behind(n)' = Behind(n) /\ \A i : Child(n, i)' = Child(n, i)
  BY <1>5 DEF Behind, Child
<1>. QED BY <1>2, <1>3, <1>4, <1>5, <1>6, <1>7

\* An entry with an inode that was entered nowhere.
LEMMA Appended ==
  ASSUME Types, ClearedInodes, OwnersInv, EntriesInv, Shape, NEW d \in Dirs, NEW k \in Inodes \ {0},
         NEW name \in Names, Orphan(k), Inode(k) = FreeInode,
         disk' = [disk EXCEPT !.data[Inode(d).block] = Append(Entries(d), Entry(k, name))]
  PROVE  /\ Dirs' = Dirs /\ Shape' /\ \A n \in Inodes : Inode(n)' = Inode(n)
         /\ \E z \in Behind(d)' :
              /\ Entries(d)'[z] = Entry(k, name) /\ Child(d, z)' = k
              /\ \A n \in Dirs : \A i \in Behind(n)' : \/ n = d /\ i = z
                                                       \/ /\ i \in Behind(n) /\ Child(n, i)' = Child(n, i)
                                                          /\ Entries(n)'[i] = Entries(n)[i]
         /\ \A n \in Dirs : \A x :
              \E m : /\ m = Lookup(Entries(n)', x)
                     /\ m = IF n = d /\ x = name /\ Lookup(Entries(n), x) = -1 THEN k
                                                                         ELSE Lookup(Entries(n), x)
<1>. DEFINE s == Entries(d)
            e == Entry(k, name)
            t == Append(s, e)
<1>0. PICK z : z = Len(s) + 1
  OBVIOUS
<1>1. s \in Files /\ Len(s) \in Nat /\ DOMAIN s = 1 .. Len(s)
  BY DirIs
<1>2. e \in EntryType /\ e.iNum = k /\ e.name = name
  BY DEF Entry, EntryType
<1>3. /\ t \in Files /\ Len(t) = Len(s) + 1
      /\ \A i \in 1 .. (Len(s) + 1) : t[i] = IF i <= Len(s) THEN s[i] ELSE e
  <2>. HIDE DEF s, e
  <2>. QED BY <1>1, <1>2, AppendIs
<1>4. DOMAIN t = DOMAIN s \cup {z} /\ z \notin DOMAIN s /\ t[z] = e /\ \A i \in DOMAIN s : t[i] = s[i]
  <2>1. DOMAIN t = 1 .. (Len(s) + 1)
    BY <1>3, LenProperties DEF Files
  <2>. HIDE DEF s, e, t
  <2>. QED BY <1>0, <1>1, <1>3, <2>1
<1>5. 2 \in DOMAIN s /\ 1 \in DOMAIN s /\ z > 2
  <2>1. {1, 2} \subseteq DOMAIN s
    BY DEF Shape, DotsInv, Dotted
  <2>. HIDE DEF s
  <2>. QED BY <1>0, <1>1, <2>1
<1>. HIDE DEF e, t
<1>6. /\ Dirs' = Dirs /\ \A n \in Inodes : Inode(n)' = Inode(n)
      /\ \A n \in Dirs : Entries(n)' = IF n = d THEN t ELSE Entries(n)
      /\ \A n \in Dirs \ {d} : Behind(n)' = Behind(n) /\ \A i : Child(n, i)' = Child(n, i)
      /\ Behind(d)' = {i \in DOMAIN t : i > 2} /\ \A i : Child(d, i)' = t[i].iNum
  BY Rewritten DEF t, e
<1>7. Behind(d)' = Behind(d) \cup {z} /\ z \notin Behind(d) /\ Child(d, z)' = k
      /\ \A i \in Behind(d) : Child(d, i)' = Child(d, i)
  BY <1>2, <1>4, <1>5, <1>6 DEF Behind, Child
<1>8. \A n \in Dirs : /\ \A i \in Behind(n)' : \/ n = d /\ i = z
                                               \/ i \in Behind(n) /\ Child(n, i)' = Child(n, i)
                                                  /\ Entries(n)'[i] = Entries(n)[i]
  BY <1>4, <1>6, <1>7 DEF Behind
<1>9. \A n \in Dirs : \A p : Dotted(n, p) => Dotted(n, p)'
  BY <1>4, <1>5, <1>6 DEF Dotted
<1>10. DotsInv'
  BY <1>6, <1>9 DEF Shape, DotsInv
<1>11. k \notin Dirs /\ k # d
  BY DEF Dirs, FreeInode
<1>12. ChildrenInv'
  <2>1. ASSUME NEW n \in Dirs', NEW i \in Behind(n)'
        PROVE  \E c : /\ c = Child(n, i)' /\ Entries(n)'[i].name \in Names /\ c # n
                      /\ c \in Dirs' => Dotted(c, n)'
    <3>1. CASE n = d /\ i = z
      BY <1>2, <1>4, <1>6, <1>7, <1>11, <3>1
    <3>2. CASE /\ n \in Dirs /\ i \in Behind(n) /\ Child(n, i)' = Child(n, i)
               /\ Entries(n)'[i] = Entries(n)[i]
      BY <1>6, <1>9, <3>2 DEF Shape, ChildrenInv
    <3>. QED BY <1>6, <1>8, <2>1, <3>1, <3>2
  <2>. QED BY <2>1 DEF ChildrenInv, Dotted
<1>13. OnceInv'
  <2>1. \A n \in Dirs : \A i \in Behind(n) : Child(n, i) # k
    BY DEF Orphan
  <2>2. ASSUME NEW m \in Dirs, NEW n \in Dirs, NEW i \in Behind(m)', NEW j \in Behind(n)',
               Child(m, i)' = Child(n, j)'
        PROVE  m = n /\ i = j
    <3>1. CASE m = d /\ i = z
      BY <1>7, <1>8, <2>1, <2>2, <3>1
    <3>2. CASE n = d /\ j = z
      BY <1>7, <1>8, <2>1, <2>2, <3>2
    <3>3. CASE ~ (m = d /\ i = z) /\ ~ (n = d /\ j = z)
      BY <1>8, <2>2, <3>3 DEF Shape, OnceInv
    <3>. QED BY <3>1, <3>2, <3>3
  <2>. QED BY <1>6, <2>2 DEF OnceInv
<1>14. ASSUME NEW n \in Dirs, NEW x
       PROVE  \E m : /\ m = Lookup(Entries(n)', x)
                     /\ m = IF n = d /\ x = name /\ Lookup(Entries(n), x) = -1 THEN k
                                                                          ELSE Lookup(Entries(n), x)
  <2>1. CASE n = d
    <3>1. Lookup(t, x) = IF Lookup(s, x) = -1 /\ name = x THEN k ELSE Lookup(s, x)
      <4>. HIDE DEF s
      <4>. QED BY <1>1, <1>2, LookupAppend DEF t
    <3>. QED BY <1>6, <2>1, <3>1
  <2>2. CASE n # d
    BY <1>6, <2>2
  <2>. QED BY <2>1, <2>2
<1>15. z \in Behind(d)' /\ Entries(d)'[z] = Entry(k, name) /\ Child(d, z)' = k
  BY <1>4, <1>6, <1>7 DEF e
<1>. QED BY <1>6, <1>8, <1>10, <1>12, <1>13, <1>14, <1>15 DEF Shape

\* The entry of an inode is taken out.
LEMMA Thinned ==
  ASSUME Types, ClearedInodes, OwnersInv, EntriesInv, Shape, NEW d \in Dirs, NEW z \in Behind(d),
         disk' = [disk EXCEPT !.data[Inode(d).block] = RemoveAt(Entries(d), z)]
  PROVE  /\ Dirs' = Dirs /\ Shape' /\ \A n \in Inodes : Inode(n)' = Inode(n)
         /\ \A n \in Dirs : \A i, j \in Behind(n)' :
              \E k, l \in Behind(n) :
                /\ Entries(n)'[i] = Entries(n)[k] /\ Entries(n)'[j] = Entries(n)[l]
                /\ (i # j => k # l)
                /\ (n = d => k # z)
                /\ Child(n, i)' = Child(n, k)
         /\ \A n \in Dirs : \A x :
              \E m : /\ m = Lookup(Entries(n)', x)
                     /\ (n # d \/ Entries(d)[z].name # x) => m = Lookup(Entries(n), x)
                     /\ n = d /\ (\A i \in DOMAIN Entries(d) : Entries(d)[i].name = x <=> i = z) => m = -1
<1>. DEFINE s == Entries(d)
            t == RemoveAt(s, z)
            g(i) == IF i < z THEN i ELSE i + 1
<1>1. s \in Files /\ Len(s) \in Nat /\ DOMAIN s = 1 .. Len(s)
  BY DirIs
<1>2. z \in DOMAIN s /\ z > 2
  BY DEF Behind
<1>3. /\ t \in Files /\ Len(t) = Len(s) - 1
      /\ \A i \in 1 .. (Len(s) - 1) : t[i] = IF i < z THEN s[i] ELSE s[i + 1]
  <2>. HIDE DEF s
  <2>. QED BY <1>1, <1>2, RemoveAtIs
<1>4. DOMAIN t = 1 .. (Len(s) - 1)
  BY <1>3, LenProperties DEF Files
<1>. HIDE DEF t
<1>5. /\ {1, 2} \subseteq DOMAIN t /\ t[1] = s[1] /\ t[2] = s[2]
      /\ \A i \in DOMAIN t : /\ g(i) \in DOMAIN s \ {z} /\ t[i] = s[g(i)] /\ (i > 2 => g(i) > 2)
                             /\ \A j \in DOMAIN t : g(i) = g(j) => i = j
  <2>. HIDE DEF s
  <2>. QED BY <1>1, <1>2, <1>3, <1>4
<1>. HIDE DEF g
<1>6. /\ Dirs' = Dirs /\ \A n \in Inodes : Inode(n)' = Inode(n)
      /\ \A n \in Dirs : Entries(n)' = IF n = d THEN t ELSE Entries(n)
      /\ \A n \in Dirs \ {d} : Behind(n)' = Behind(n) /\ \A i : Child(n, i)' = Child(n, i)
      /\ Behind(d)' = {i \in DOMAIN t : i > 2} /\ \A i : Child(d, i)' = t[i].iNum
  BY Rewritten DEF t
<1>. DEFINE h(n, i) == IF n = d THEN g(i) ELSE i
<1>7. ASSUME NEW n \in Dirs, NEW i \in Behind(n)'
      PROVE  /\ h(n, i) \in Behind(n) /\ (n = d => h(n, i) # z)
             /\ Child(n, i)' = Child(n, h(n, i)) /\ Entries(n)'[i] = Entries(n)[h(n, i)]
  BY <1>5, <1>6, <1>7 DEF Behind, Child
<1>8. \A n \in Dirs : \A i, j \in Behind(n)' : h(n, i) = h(n, j) => i = j
  BY <1>5, <1>6
<1>. HIDE DEF h
<1>9. \A n \in Dirs : \A p : Dotted(n, p) => Dotted(n, p)'
  BY <1>5, <1>6 DEF Dotted
<1>10. DotsInv'
  BY <1>6, <1>9 DEF Shape, DotsInv
<1>11. ChildrenInv'
  <2>1. ASSUME NEW n \in Dirs', NEW i \in Behind(n)'
        PROVE  \E c : /\ c = Child(n, i)' /\ Entries(n)'[i].name \in Names /\ c # n
                      /\ c \in Dirs' => Dotted(c, n)'
    BY <1>6, <1>7, <1>9 DEF Shape, ChildrenInv
  <2>. QED BY <2>1 DEF ChildrenInv, Dotted
<1>12. OnceInv'
  <2>1. ASSUME NEW m \in Dirs, NEW n \in Dirs, NEW i \in Behind(m)', NEW j \in Behind(n)'
        PROVE  Child(m, i)' = Child(n, j)' => m = n /\ i = j
    BY <1>7, <1>8 DEF Shape, OnceInv
  <2>. QED BY <1>6, <2>1 DEF OnceInv
<1>13. ASSUME NEW n \in Dirs, NEW i \in Behind(n)', NEW j \in Behind(n)'
       PROVE  \E k, l \in Behind(n) :
                /\ Entries(n)'[i] = Entries(n)[k] /\ Entries(n)'[j] = Entries(n)[l]
                /\ (i # j => k # l)
                /\ (n = d => k # z)
                /\ Child(n, i)' = Child(n, k)
  BY <1>7, <1>8
<1>14. ASSUME NEW n \in Dirs, NEW x
       PROVE  \E m : /\ m = Lookup(Entries(n)', x)
                     /\ (n # d \/ Entries(d)[z].name # x) => m = Lookup(Entries(n), x)
                     /\ n = d /\ (\A i \in DOMAIN Entries(d) : Entries(d)[i].name = x <=> i = z) => m = -1
  <2>1. CASE n = d
    <3>1. /\ s[z].name # x => Lookup(t, x) = Lookup(s, x)
          /\ (\A i \in DOMAIN s : s[i].name = x <=> i = z) => Lookup(t, x) = -1
      <4>. HIDE DEF s
      <4>. QED BY <1>1, <1>2, LookupRemoved DEF t
    <3>. QED BY <1>6, <2>1, <3>1
  <2>2. CASE n # d
    BY <1>6, <2>2
  <2>. QED BY <2>1, <2>2
<1>. QED BY <1>6, <1>10, <1>11, <1>12, <1>13, <1>14 DEF Shape

\* What is found by names stays.
Same == /\ 0 \in Dirs' <=> 0 \in Dirs
        /\ \A n \in Dirs : n \in Dirs' => \A x \in Names :
             \E m : /\ m = Seen(n, x) /\ m = Seen(n, x)'
                    /\ m # -1 => Inode(m)'.mode = Inode(m).mode
SpoiledSame == \A n \in Dirs : n \in Dirs' => \A x \in Names : Spoils(n, x)' <=> Spoils(n, x)
Quiet == Same /\ SpoiledSame

LEMMA SamePlaces ==
  ASSUME ClearedInv, ClearedInv', Shape, Shape', Same
  PROVE  \A q \in Paths : /\ Place(q)' = Place(q)
                          /\ Exists(q)' <=> Exists(q)
                          /\ Exists(q) => Kind(q)' = Kind(q)
<1>1. PlacesRight
  BY PlaceRules
<1>2. (ClearedInv /\ Shape)' => PlacesRight'
  BY PlaceRules, PTL
<1>3. PlacesRight'
  BY <1>2
<1>4. Types /\ ClearedInodes /\ EntriesInv /\ DotsInv /\ ChildrenInv
  BY DEF ClearedInv, ClearedInodes, FSInv, DiskInv, Shape
<1>5. ASSUME NEW a \in Names, 0 \in Dirs
      PROVE  \E m : m = Seen(0, a) /\ m = Seen(0, a)' /\ (m \in Dirs' <=> m \in Dirs)
  <2>1. PICK m : m = Seen(0, a) /\ m = Seen(0, a)' /\ (m # -1 => Inode(m)'.mode = Inode(m).mode)
    BY <1>5 DEF Same
  <2>2. m \in Inodes \cup {-1}
    BY <1>4, <1>5, <2>1, NamedIs DEF Seen
  <2>3. m = -1 => m \notin Inodes
    BY Numbers
  <2>. QED BY <2>1, <2>2, <2>3 DEF Dirs
<1>6. ASSUME NEW q \in Paths PROVE Place(q)' = Place(q)
  <2>1. ASSUME NEW a \in Names, q = <<a>> PROVE Place(q)' = Place(q)
    BY <1>1, <1>3, <2>1 DEF PlacesRight, Same
  <2>2. ASSUME NEW a \in Names, NEW b \in Names, q = <<a, b>> PROVE Place(q)' = Place(q)
    <3>1. Place(q) = IF 0 \in Dirs /\ Seen(0, a) \in Dirs THEN Seen(0, a) ELSE -1
      BY <1>1, <2>2 DEF PlacesRight
    <3>2. Place(q)' = IF 0 \in Dirs' /\ Seen(0, a)' \in Dirs' THEN Seen(0, a)' ELSE -1
      BY <1>3, <2>2 DEF PlacesRight
    <3>. QED BY <1>5, <3>1, <3>2 DEF Same
  <2>. QED BY <2>1, <2>2, PathNames
<1>7. ASSUME NEW q \in Paths
      PROVE  /\ Exists(q)' <=> Exists(q)
             /\ Exists(q) => Kind(q)' = Kind(q)
  <2>0. PICK d, x : d = Place(q) /\ x = Last(q)
    OBVIOUS
  <2>1. /\ Exists(q) <=> d # -1 /\ Seen(d, x) # -1
        /\ d # -1 => d \in Dirs
        /\ Exists(q) => InodeFromPath(q) = Seen(d, x)
    BY <1>1, <2>0 DEF PlacesRight
  <2>2. /\ Exists(q)' <=> d # -1 /\ Seen(d, x)' # -1
        /\ d # -1 => d \in Dirs'
        /\ Exists(q)' => InodeFromPath(q)' = Seen(d, x)'
    BY <1>3, <1>6, <2>0 DEF PlacesRight, Seen, Inode, Entries
  <2>3. d # -1 => \E m : /\ m = Seen(d, x) /\ m = Seen(d, x)'
                         /\ m # -1 => Inode(m)'.mode = Inode(m).mode
    BY <2>0, <2>1, <2>2, PathIs DEF Same
  <2>4. Exists(q)' <=> Exists(q)
    BY <2>1, <2>2, <2>3
  <2>5. ASSUME Exists(q) PROVE Kind(q)' = Kind(q)
    BY <2>1, <2>2, <2>3, <2>4, <2>5 DEF Kind, Inode
  <2>. QED BY <2>4, <2>5
<1>. QED BY <1>6, <1>7

-----------------------------------------------------------------------------
(***************************************************************************)
(* The steps of a request.                                                 *)
(***************************************************************************)
LEMMA TasksOf ==
  ASSUME OneRequest, NEW w \in Workers, MakingTask(w)', RemovingTask(w)', DeletingTask(w)'
  PROVE  Tasks'
  BY DEF OneRequest, Tasks

LEMMA OtherTasks ==
  ASSUME NEW w \in Workers
  PROVE  /\ pc'[w] \notin Finding \cup Filling => MakingTask(w)'
         /\ pc'[w] \notin Removing => RemovingTask(w)'
         /\ pc'[w] \notin Deleting => DeletingTask(w)'
<1>1. /\ "find inode" \in Finding /\ "write table" \in Filling
      /\ {"read inode", "write inode", "read entries", "write entries"} = Removing
      /\ {"read block", "delete entries", "delete inode", "leave"} = Deleting
  BY DEF Finding, Filling, Removing, Deleting
<1>. QED BY <1>1 DEF MakingTask, RemovingTask, DeletingTask

LEMMA IdleTasks ==
  ASSUME OneRequest, NEW w \in Workers, pc'[w] = "idle"
  PROVE  Tasks'
<1>1. pc'[w] \notin Finding \cup Filling \cup Removing \cup Deleting
  BY DEF Finding, Filling, Removing, Deleting
<1>. QED BY <1>1, OtherTasks, TasksOf

\* Nothing is pending but what the one request is at.
LEMMA PendingIs ==
  ASSUME OneRequest, NEW w \in Workers
  PROVE  /\ \A n, x : Pending(n, x) <=> Between(w) /\ loc[w].dir = n /\ loc[w].num = x
         /\ \A n, x : Pending(n, x)' <=> Between(w)' /\ loc'[w].dir = n /\ loc'[w].num = x
  BY DEF OneRequest, Pending, Between

\* A step that leaves the tree alone.
LEMMA KeptTree ==
  ASSUME ClearedInv, TreeInv, Kept, \A n, x : Pending(n, x)' <=> Pending(n, x)
  PROVE  Quiet /\ Shape' /\ TwiceInv' /\ (UsedInv => UsedInv')
<1>1. Types /\ ClearedInodes /\ EntriesInv /\ DotsInv /\ ChildrenInv /\ Shape /\ TwiceInv
  BY DEF ClearedInv, ClearedInodes, FSInv, DiskInv, TreeInv, Shape
<1>0. Quiet
  <2>1. ASSUME NEW n \in Dirs, NEW x
        PROVE  \E m : m = Seen(n, x) /\ m = Seen(n, x)' /\ Inode(m)'.mode = Inode(m).mode
    BY ShapeKept DEF Dirs
  <2>2. ASSUME NEW n \in Dirs, NEW x
        PROVE  \E m : /\ m = Lookup(Entries(n), x) /\ m = Lookup(Entries(n)', x)
                      /\ Lost(n, m)' <=> Lost(n, m)
    BY ShapeKept DEF Kept, Lost, Dirs
  <2>3. \A n \in Dirs : \A x : Spoils(n, x)' <=> Spoils(n, x)
    BY <2>2 DEF Spoils, Lost, Pending, Inode
  <2>. QED BY <2>1, <2>3, ShapeKept DEF Quiet, Same, SpoiledSame
<1>2. Shape'
  BY <1>1, ShapeKept
<1>3. TwiceInv'
  BY <1>1, TwiceKept
<1>4. UsedInv => UsedInv'
  BY <1>1, UsedKept
<1>. QED BY <1>0, <1>2, <1>3, <1>4

\* A create that looks for an inode and a block.
LEMMA FindTree ==
  ASSUME ClearedInv, TreeInv, OneRequest, NEW w \in Workers,
         ReadInodeBitmap(w) \/ WriteInodeBitmap(w) \/ ReadTable(w) \/ ReadBlockBitmap(w)
  PROVE  Quiet /\ TreeInv' /\ (UsedInv => UsedInv')
<1>. DEFINE l == loc[w]
<1>1. /\ Types /\ MakingTask(w) /\ disk \in DiskType /\ l \in CallType
      /\ PlacesRight
  BY PlaceRules DEF ClearedInv, ClearedInodes, FSInv, Types, TreeInv, Tasks
<1>2. pc[w] \in Finding
  BY DEF Finding, ReadInodeBitmap, WriteInodeBitmap, ReadTable, ReadBlockBitmap, At
<1>3. disk'.itable = disk.itable /\ disk'.data = disk.data
  BY <1>1 DEF DiskType, ReadInodeBitmap, WriteInodeBitmap, ReadTable, ReadBlockBitmap
<1>4. Kept
  BY <1>3, PathKept DEF Kept
<1>5. /\ pc'[w] \in {"idle", "write inode bitmap", "read table", "find block", "write block bitmap"}
      /\ pc'[w] = "idle" \/ loc'[w].path = l.path
  <2>1. CASE ReadInodeBitmap(w)
    BY <1>1, <2>1, Went DEF ReadInodeBitmap, CallType
  <2>2. CASE WriteInodeBitmap(w)
    BY <1>1, <2>2, Went DEF WriteInodeBitmap, CallType
  <2>3. CASE ReadTable(w)
    BY <1>1, <2>3, Went DEF ReadTable, CallType
  <2>4. CASE ReadBlockBitmap(w)
    BY <1>1, <2>4, Went DEF ReadBlockBitmap, CallType
  <2>. QED BY <2>1, <2>2, <2>3, <2>4
<1>6. \A n, x : ~Pending(n, x) /\ ~Pending(n, x)'
  BY <1>2, <1>5, PendingIs DEF Between, Finding
<1>7. Quiet /\ Shape' /\ TwiceInv' /\ (UsedInv => UsedInv')
  BY <1>4, <1>6, KeptTree
<1>8. CASE pc'[w] = "idle"
  BY <1>4, <1>7, <1>8, IdleTasks DEF TreeInv
<1>9. CASE pc'[w] # "idle"
  <2>1. PICK d, x : d = Place(l.path) /\ x = Last(l.path)
    OBVIOUS
  <2>2. d # -1 /\ Seen(d, x) = -1 /\ d \in Inodes
    <3>1. l.path \in Paths
      BY <1>1, <1>2 DEF Types, Finding
    <3>. QED BY <1>1, <1>2, <2>1, <3>1 DEF MakingTask, PlacesRight, Dirs
  <2>3. Seen(d, x)' = -1
    BY <1>4, <2>2, ShapeKept
  <2>4. d = Place(loc[w].path)' /\ x = Last(loc[w].path)'
    BY <1>4, <1>5, <1>9, <2>1, ShapeKept
  <2>5. MakingTask(w)'
    BY <1>5, <1>9, <2>2, <2>3, <2>4 DEF MakingTask, Filling
  <2>6. pc'[w] \notin Removing \cup Deleting
    BY <1>5 DEF Removing, Deleting
  <2>7. Tasks'
    BY <2>5, <2>6, OtherTasks, TasksOf
  <2>. QED BY <1>4, <1>7, <2>7 DEF TreeInv
<1>. QED BY <1>8, <1>9

\* A create that has its block and has not written the entry.
LEMMA FillTree ==
  ASSUME ClearedInv, TreeInv, OneRequest, NEW w \in Workers,
         WriteBlockBitmap(w) \/ WriteDots(w) \/ ReadDirectory(w) \/ FillEntry(w)
  PROVE  Quiet /\ TreeInv' /\ (UsedInv => UsedInv')
<1>. DEFINE l == loc[w]
<1>1. /\ Types /\ ClearedInodes /\ EntriesInv /\ FindingInv(w) /\ FillingInv(w)
      /\ RequestInv /\ MakingTask(w) /\ disk \in DiskType /\ l \in CallType /\ PlacesRight
  BY PlaceRules DEF ClearedInv, ClearedInodes, FSInv, DiskInv, RequestInv, Types, TreeInv, Tasks
<1>2. pc[w] \in {"write block bitmap", "write dots", "read directory", "fill entry"} /\ l.path \in Paths
  <2>1. pc[w] \in {"write block bitmap", "write dots", "read directory", "fill entry"}
    BY DEF WriteBlockBitmap, WriteDots, ReadDirectory, FillEntry, At
  <2>. QED BY <1>1, <2>1 DEF Types
<1>3. Kept
  <2>1. disk'.itable = disk.itable
    BY <1>1 DEF DiskType, WriteBlockBitmap, WriteDots, ReadDirectory, FillEntry
  <2>2. \A b \in Blocks \ {l.block} : disk'.data[b] = disk.data[b]
    <3>. HIDE DEF l
    <3>1. disk'.data = disk.data
          \/ disk' = [disk EXCEPT !.data[l.block] = DotEntries(l.num, l.dir)]
      BY <1>1 DEF DiskType, WriteBlockBitmap, WriteDots, ReadDirectory, FillEntry, l
    <3>. QED BY <1>1, <3>1 DEF DiskType
  <2>3. ASSUME NEW n \in Inodes, HasBlock(n) PROVE Inode(n).block \in Blocks \ {l.block}
    <3>1. Inode(n).block \in Blocks
      BY <1>1, LookTypes, Numbers DEF InodeType
    <3>. QED BY <1>1, <1>2, <2>3, <3>1 DEF FillingInv, Filling
  <2>. QED BY <1>1, <2>1, <2>2, <2>3, KeptWithout
<1>4. /\ pc'[w] \in {"write dots", "read directory", "fill entry", "write entry"}
      /\ loc'[w].path = l.path
      /\ loc'[w].dir = IF pc[w] = "write block bitmap" THEN InodeFromPath(Directory(l.path)) ELSE l.dir
  <2>1. CASE WriteBlockBitmap(w)
    <3>. DEFINE d == InodeFromPath(Directory(l.path))
    <3>1. /\ pc[w] = "write block bitmap"
          /\ pc'[w] = IF l.call = "mkdir" THEN "write dots" ELSE "read directory"
          /\ loc'[w] = [l EXCEPT !.bits = {}, !.bitmap = 0, !.dir = d,
                                 !.table[TableIndex(l.num)] =
                                   NewInode(IF l.call = "mkdir" THEN "dir" ELSE "file", l.block)]
      BY <1>1, <2>1, Went DEF WriteBlockBitmap, At
    <3>. HIDE DEF d
    <3>2. loc'[w].path = l.path /\ loc'[w].dir = d
      BY <1>1, <3>1 DEF CallType
    <3>. QED BY <3>1, <3>2 DEF d
  <2>2. CASE WriteDots(w)
    BY <1>1, <2>2, Went DEF WriteDots, At
  <2>3. CASE ReadDirectory(w)
    <3>1. /\ pc[w] = "read directory" /\ pc'[w] = "fill entry"
          /\ loc'[w] = [l EXCEPT !.buffer = Entries(l.dir), !.dirBlock = Inode(l.dir).block]
      BY <1>1, <2>3, Went DEF ReadDirectory, At
    <3>. QED BY <1>1, <3>1 DEF CallType
  <2>4. CASE FillEntry(w)
    <3>1. pc[w] = "fill entry" /\ pc'[w] = "write entry"
      BY <1>1, <2>4, Went DEF FillEntry, At
    <3>2. Set(w, [loc[w] EXCEPT !.buffer = Append(@, Entry(loc[w].num, Last(loc[w].path)))])
      BY <1>1, <2>4, Filled
    <3>3. loc'[w] = [l EXCEPT !.buffer = Append(@, Entry(l.num, Last(l.path)))]
      BY <1>1, <3>2, Went
    <3>. QED BY <1>1, <3>1, <3>3 DEF CallType
  <2>. QED BY <2>1, <2>2, <2>3, <2>4
<1>5. \A n, x : ~Pending(n, x) /\ ~Pending(n, x)'
  BY <1>2, <1>4, PendingIs DEF Between
<1>6. Quiet /\ Shape' /\ TwiceInv' /\ (UsedInv => UsedInv')
  BY <1>3, <1>5, KeptTree
<1>7. PICK d, x : d = Place(l.path) /\ x = Last(l.path)
  OBVIOUS
<1>8. d # -1 /\ Seen(d, x) = -1 /\ d \in Inodes /\ loc'[w].dir = d
  <2>1. d # -1 /\ Seen(d, x) = -1
    BY <1>1, <1>2, <1>7 DEF MakingTask, Filling
  <2>2. d \in Inodes /\ InodeFromPath(Directory(l.path)) = d
    BY <1>1, <1>2, <1>7, <2>1 DEF PlacesRight, Dirs
  <2>3. pc[w] # "write block bitmap" => l.dir = d
    BY <1>1, <1>2, <1>7 DEF MakingTask, Filling
  <2>. QED BY <1>4, <2>1, <2>2, <2>3
<1>9. Seen(d, x)' = -1 /\ d = Place(loc[w].path)' /\ x = Last(loc[w].path)'
  BY <1>3, <1>4, <1>7, <1>8, ShapeKept
<1>10. MakingTask(w)'
  BY <1>4, <1>8, <1>9 DEF MakingTask, Finding
<1>11. pc'[w] \notin Removing \cup Deleting
  BY <1>4 DEF Removing, Deleting
<1>12. Tasks'
  BY <1>10, <1>11, OtherTasks, TasksOf
<1>. QED BY <1>3, <1>6, <1>12 DEF TreeInv

\* It writes the entry.
LEMMA EntryTree ==
  ASSUME ClearedInv, ClearedInv', TreeInv, OneRequest, NEW w \in Workers, WriteEntry(w)
  PROVE  Quiet /\ TreeInv' /\ (UsedInv => UsedInv')
<1>1. /\ Types /\ ClearedInodes /\ OwnersInv /\ EntriesInv /\ FindingInv(w) /\ FillingInv(w)
      /\ Shape /\ DotsInv /\ ChildrenInv /\ TwiceInv /\ MakingTask(w) /\ loc[w] \in CallType
      /\ PlacesRight
  BY PlaceRules DEF ClearedInv, ClearedInodes, FSInv, DiskInv, RequestInv, Types, TreeInv, Tasks, Shape
<1>2. PICK d, k, x : d = loc[w].dir /\ k = loc[w].num /\ x = Last(loc[w].path)
  OBVIOUS
<1>3. /\ pc[w] = "write entry" /\ pc'[w] = "write table" /\ loc'[w] = [loc[w] EXCEPT !.buffer = <<>>]
      /\ disk' = [disk EXCEPT !.data[loc[w].dirBlock] = loc[w].buffer]
  BY <1>1, Went DEF WriteEntry, At
<1>4. /\ loc'[w].dir = d /\ loc'[w].num = k /\ loc'[w].path = loc[w].path
      /\ loc[w].path \in Paths /\ x \in Names
  <2>1. loc[w].path \in Paths
    BY <1>1, <1>3 DEF Types
  <2>. QED BY <1>1, <1>2, <1>3, <2>1, PathIs DEF CallType
<1>5. /\ d = Place(loc[w].path) /\ d \in Dirs /\ Seen(d, x) = -1
      /\ k \in Inodes \ {0} /\ Inode(k) = FreeInode
  <2>1. d = Place(loc[w].path) /\ d # -1 /\ Seen(d, x) = -1
    BY <1>1, <1>2, <1>3 DEF MakingTask, Filling
  <2>2. IsFree(Inode(k)) /\ k \in Inodes \ {0}
    BY <1>1, <1>2, <1>3 DEF FindingInv, Filling, CallType
  <2>3. Inode(k) = FreeInode
    BY <1>1, <2>2 DEF ClearedInodes, IsFree
  <2>. QED BY <1>1, <1>4, <2>1, <2>2, <2>3, ZenonT(30) DEF PlacesRight
<1>6. Orphan(k)
  <2>1. ~Entered(k)
    BY <1>1, <1>2, <1>3 DEF FindingInv, Filling
  <2>2. ASSUME NEW n \in Dirs, NEW i \in Behind(n) PROVE Child(n, i) # k
    <3>1. Entries(n) = disk.data[Inode(n).block] /\ Inode(n).block \in Blocks
      BY <1>1, DirIs
    <3>2. i \in DOMAIN Entries(n) /\ Entries(n)[i].name \notin Dots
      BY <1>1, NamesAssumption DEF ChildrenInv, Behind
    <3>. QED BY <2>1, <3>1, <3>2 DEF Entered, Child
  <2>. QED BY <2>2 DEF Orphan
<1>7. disk' = [disk EXCEPT !.data[Inode(d).block] = Append(Entries(d), Entry(k, x))]
  BY <1>1, <1>2, <1>3 DEF FillingInv, Filling
<1>8. /\ Dirs' = Dirs /\ Shape' /\ \A n \in Inodes : Inode(n)' = Inode(n)
      /\ \A n \in Dirs : \A y :
           \E m : /\ m = Lookup(Entries(n)', y)
                  /\ m = IF n = d /\ y = x /\ Lookup(Entries(n), y) = -1 THEN k ELSE Lookup(Entries(n), y)
  BY <1>1, <1>4, <1>5, <1>6, <1>7, Appended
<1>9. PICK z \in Behind(d)' :
        /\ Entries(d)'[z] = Entry(k, x) /\ Child(d, z)' = k
        /\ \A n \in Dirs : \A i \in Behind(n)' : \/ n = d /\ i = z
                                                 \/ /\ i \in Behind(n) /\ Child(n, i)' = Child(n, i)
                                                    /\ Entries(n)'[i] = Entries(n)[i]
  BY <1>1, <1>4, <1>5, <1>6, <1>7, Appended
<1>10. /\ \A n, y : ~Pending(n, y)
       /\ \A n, y : Pending(n, y)' <=> n = d /\ y = k
  BY <1>3, <1>4, PendingIs, ZenonT(30) DEF Between
\* What the names led to.
<1>11. ASSUME NEW n \in Dirs, NEW y \in Names, NEW m, m = Lookup(Entries(n), y)
       PROVE  /\ m # k
              /\ m # -1 => m \in Inodes /\ Inode(m)' = Inode(m) /\ (Lost(n, m)' <=> Lost(n, m))
  <2>1. m = -1 \/ (m \in Inodes \ {0} /\ \E i \in Behind(n) : m = Child(n, i))
    BY <1>1, <1>11, NamedIs
  <2>2. m # k
    BY <1>5, <1>6, <2>1, Numbers DEF Orphan
  <2>. QED BY <1>8, <1>10, <2>1, <2>2 DEF Lost
<1>12. Quiet
  <2>1. ASSUME NEW n \in Dirs, NEW y \in Names
        PROVE  \E m, j : /\ m = Lookup(Entries(n), y) /\ j = Lookup(Entries(n)', y)
                         /\ \/ j = m /\ (m # -1 => Inode(m)' = Inode(m) /\ (Lost(n, m)' <=> Lost(n, m)))
                            \/ m = -1 /\ j # -1 /\ Inode(j)'.mode = "none" /\ ~Lost(n, j)'
    <3>1. PICK m, j : /\ m = Lookup(Entries(n), y) /\ j = Lookup(Entries(n)', y)
                      /\ j = IF n = d /\ y = x /\ m = -1 THEN k ELSE m
      BY <1>8
    <3>2. Inode(k)'.mode = "none" /\ k # -1 /\ ~Lost(d, k)'
      BY <1>5, <1>8, <1>10, Numbers DEF Lost, FreeInode
    <3>. QED BY <1>11, <3>1, <3>2
  <2>2. ASSUME NEW n \in Dirs, NEW y \in Names
        PROVE  \E m : /\ m = Seen(n, y) /\ m = Seen(n, y)'
                      /\ m # -1 => Inode(m)'.mode = Inode(m).mode
    <3>1. PICK m, j : /\ m = Lookup(Entries(n), y) /\ j = Lookup(Entries(n)', y)
                      /\ \/ j = m /\ (m # -1 => Inode(m)' = Inode(m))
                         \/ m = -1 /\ j # -1 /\ Inode(j)'.mode = "none"
      BY <2>1
    <3>2. Seen(n, y) = IF m # -1 /\ Inode(m).mode # "none" THEN m ELSE -1
      BY <3>1 DEF Seen
    <3>3. Seen(n, y)' = IF j # -1 /\ Inode(j)'.mode # "none" THEN j ELSE -1
      BY <3>1 DEF Seen, Inode
    <3>. QED BY <3>1, <3>2, <3>3
  <2>3. ASSUME NEW n \in Dirs, NEW y \in Names PROVE Spoils(n, y)' <=> Spoils(n, y)
    <3>1. PICK m, j : /\ m = Lookup(Entries(n), y) /\ j = Lookup(Entries(n)', y)
                      /\ \/ j = m /\ (m # -1 => (Lost(n, m)' <=> Lost(n, m)))
                         \/ m = -1 /\ j # -1 /\ ~Lost(n, j)'
      BY <2>1
    <3>2. Spoils(n, y) <=> m # -1 /\ Lost(n, m)
      BY <3>1 DEF Spoils
    <3>3. Spoils(n, y)' <=> j # -1 /\ Lost(n, j)'
      BY <3>1 DEF Spoils, Lost, Pending, Inode
    <3>. QED BY <3>1, <3>2, <3>3
  <2>. QED BY <1>8, <2>2, <2>3 DEF Quiet, Same, SpoiledSame
<1>13. TwiceInv'
  <2>1. ASSUME NEW n \in Dirs', NEW i \in Behind(n)', NEW j \in Behind(n)', i # j,
               Entries(n)'[i].name = Entries(n)'[j].name
        PROVE  \E m : m = Lookup(Entries(n)', Entries(n)'[i].name) /\ Lost(n, m)'
    <3>1. PICK y : y = Entries(n)'[i].name
      OBVIOUS
    <3>2. n \in Dirs
      BY <1>8
    <3>3. PICK m : m = Lookup(Entries(n), y)
      OBVIOUS
    <3>4. CASE i \in Behind(n) /\ j \in Behind(n) /\ Entries(n)'[i] = Entries(n)[i]
               /\ Entries(n)'[j] = Entries(n)[j]
      <4>1. Entries(n)[i].name = y /\ Entries(n)[j].name = y /\ y \in Names
        BY <1>1, <2>1, <3>1, <3>2, <3>4 DEF ChildrenInv
      <4>2. Lost(n, m)
        BY <1>1, <2>1, <3>2, <3>3, <3>4, <4>1 DEF TwiceInv
      <4>3. m # -1
        BY <1>1, <3>2, <3>3, <3>4, <4>1, NamedIs DEF Behind
      <4>4. m = Lookup(Entries(n)', y)
        BY <1>8, <3>2, <3>3, <4>3
      <4>. QED BY <1>11, <3>1, <3>2, <3>3, <4>1, <4>2, <4>3, <4>4
    <3>5. ASSUME n = d, y = x, NEW h \in Behind(d), Entries(d)[h].name = x
          PROVE  \E l : l = Lookup(Entries(n)', y) /\ Lost(n, l)'
      <4>1. m # -1
        BY <1>1, <1>4, <1>5, <3>3, <3>5, NamedIs DEF Behind
      <4>2. Inode(m).mode = "none" /\ Lost(n, m)
        BY <1>5, <1>10, <3>3, <3>5, <4>1 DEF Seen, Lost
      <4>3. m = Lookup(Entries(n)', y)
        BY <1>8, <3>2, <3>3, <4>1
      <4>. QED BY <1>4, <1>11, <3>2, <3>3, <3>5, <4>1, <4>2, <4>3
    <3>6. Entry(k, x).name = x
      BY DEF Entry
    <3>. QED BY <1>9, <2>1, <3>1, <3>2, <3>4, <3>5, <3>6
  <2>. QED BY <2>1 DEF TwiceInv, Lost, Pending, Inode
<1>14. ASSUME UsedInv PROVE UsedInv'
  <2>1. \A n \in Dirs : \A i \in Behind(n) :
          Child(n, i) \in Inodes /\ Inode(Child(n, i)).mode # "none"
    BY <1>1, <1>10, <1>14, ChildIs DEF UsedInv
  <2>2. ASSUME NEW n \in Dirs', NEW i \in Behind(n)'
        PROVE  \E c : c = Child(n, i)' /\ (Inode(c)'.mode # "none" \/ Pending(n, c)')
    BY <1>8, <1>9, <1>10, <2>1
  <2>. QED BY <2>2 DEF UsedInv, Pending, Inode
<1>15. MakingTask(w)'
  <2>1. Place(loc[w].path)' = d /\ d \in Dirs
    <3>1. PICK q \in Paths : q = loc[w].path
      BY <1>4
    <3>2. Shape /\ Shape' /\ Same
      BY <1>1, <1>8, <1>12 DEF Quiet
    <3>3. Place(q)' = Place(q)
      BY <3>2, SamePlaces
    <3>. QED BY <1>4, <1>5, <3>1, <3>3
  <2>2. Seen(d, x)' = -1
    BY <1>4, <1>5, <1>8, <1>12 DEF Quiet, Same
  <2>3. Last(loc[w].path)' = x /\ d # -1
    BY <1>2, <1>4, <2>1, Numbers DEF Dirs
  <2>. QED BY <1>3, <1>4, <1>9, <2>1, <2>2, <2>3 DEF MakingTask, Filling, Finding, Entry
<1>16. pc'[w] \notin Removing \cup Deleting
  BY <1>3 DEF Removing, Deleting
<1>17. Tasks'
  BY <1>15, <1>16, OtherTasks, TasksOf
<1>. QED BY <1>8, <1>12, <1>13, <1>14, <1>17 DEF TreeInv

\* Inode k is made for the name x in directory d, and found unless x is spoiled.
MakesName(d, k, x, kind) ==
  /\ d \in Dirs /\ k \in Inodes \ {0} /\ k \notin Dirs /\ x \in Names
  /\ Inode(k)'.mode = kind
  /\ Dirs' = IF kind = "dir" THEN Dirs \cup {k} ELSE Dirs
  /\ \A n \in Dirs : \A y \in Names :
       \E m, j : /\ m = Seen(n, y) /\ j = Seen(n, y)'
                 /\ j = IF n = d /\ y = x /\ ~Spoils(n, y) THEN k ELSE m
                 /\ m # -1 => m # k /\ Inode(m)'.mode = Inode(m).mode
  /\ SpoiledSame
  /\ k \in Dirs' => \A y \in Names : Seen(k, y)' = -1 /\ ~Spoils(k, y)'

\* The inode of a create is written.
LEMMA TableTree ==
  ASSUME ClearedInv, TreeInv, OneRequest, NEW w \in Workers, WriteTable(w)
  PROVE  /\ TreeInv' /\ (UsedInv => UsedInv')
         /\ Place(loc[w].path) # -1 /\ Seen(Place(loc[w].path), Last(loc[w].path)) = -1
         /\ MakesName(Place(loc[w].path), loc[w].num, Last(loc[w].path),
                  IF loc[w].call = "mkdir" THEN "dir" ELSE "file")
<1>. DEFINE kind == IF loc[w].call = "mkdir" THEN "dir" ELSE "file"
            b    == loc[w].block
            new  == NewInode(kind, b)
<1>1. /\ Types /\ ClearedInodes /\ EntriesInv /\ FindingInv(w) /\ FillingInv(w)
      /\ Shape /\ DotsInv /\ ChildrenInv /\ OnceInv /\ TwiceInv /\ MakingTask(w) /\ loc[w] \in CallType
      /\ PlacesRight
  BY PlaceRules DEF ClearedInv, ClearedInodes, FSInv, DiskInv, RequestInv, Types, TreeInv, Tasks, Shape
<1>2. PICK d, k, x : d = loc[w].dir /\ k = loc[w].num /\ x = Last(loc[w].path)
  OBVIOUS
<1>3. /\ pc[w] = "write table" /\ pc'[w] = "idle"
      /\ disk' = [disk EXCEPT !.itable[TableBlock(k)] = loc[w].table]
  BY <1>1, <1>2, Went DEF WriteTable, At
<1>4. loc[w].path \in Paths /\ x \in Names
  <2>1. loc[w].path \in Paths
    BY <1>1, <1>3 DEF Types
  <2>. QED BY <1>2, <2>1, PathIs
<1>5. /\ d = Place(loc[w].path) /\ d # -1 /\ d \in Dirs /\ Seen(d, x) = -1
      /\ k \in Inodes \ {0} /\ Inode(k) = FreeInode
  <2>1. d = Place(loc[w].path) /\ d # -1 /\ Seen(d, x) = -1
    BY <1>1, <1>2, <1>3 DEF MakingTask, Filling
  <2>2. IsFree(Inode(k)) /\ k \in Inodes \ {0}
    BY <1>1, <1>2, <1>3 DEF FindingInv, Filling, CallType
  <2>3. Inode(k) = FreeInode
    BY <1>1, <2>2 DEF ClearedInodes, IsFree
  <2>. QED BY <1>1, <1>4, <2>1, <2>2, <2>3, ZenonT(30) DEF PlacesRight
<1>6. loc[w].table = TableWith(k, new) /\ (kind = "dir" => disk.data[b] = DotEntries(k, d))
  BY <1>1, <1>2, <1>3 DEF FillingInv, Filling
<1>7. PICK z \in Behind(d) : Entries(d)[z] = Entry(k, x)
  BY <1>1, <1>2, <1>3, <1>5 DEF MakingTask
<1>8. Child(d, z) = k /\ Entries(d)[z].name = x
  BY <1>7 DEF Child, Entry
<1>9. new \in InodeType /\ new.mode = kind /\ new.block = b
  BY <1>1, LookTypes DEF NewInode, CallType
<1>10. PICK y \in InodeType : y = new
  BY <1>9
<1>11. y.mode = kind /\ y.mode \in {"file", "dir"}
  BY <1>9, <1>10
<1>12. /\ \A n \in Inodes : Inode(n)' = IF n = k THEN y ELSE Inode(n)
       /\ \A n \in Dirs : /\ Entries(n)' = Entries(n) /\ Behind(n)' = Behind(n)
                          /\ \A i : Child(n, i)' = Child(n, i)
       /\ Dirs' = IF y.mode = "dir" THEN Dirs \cup {k} ELSE Dirs
       /\ k \notin Dirs /\ (k \in Dirs' => Behind(k)' = {} /\ Entries(k)' = DotEntries(k, d))
       /\ Shape'
  <2>1. y.mode = "dir" => disk.data[y.block] = DotEntries(k, d)
    BY <1>6, <1>9, <1>10
  <2>2. disk' = [disk EXCEPT !.itable[TableBlock(k)] = TableWith(k, y)]
    BY <1>3, <1>6, <1>10
  <2>. HIDE DEF new, kind, b
  <2>. QED BY <1>1, <1>5, <1>8, <1>11, <2>1, <2>2, Made
<1>. HIDE DEF new, b
<1>13. /\ \A n, c : Pending(n, c) <=> n = d /\ c = k
       /\ \A n, c : ~Pending(n, c)'
  <2>1. Between(w) /\ ~Between(w)'
    BY <1>3 DEF Between
  <2>2. \A n, c : Pending(n, c) <=> n = d /\ c = k
    BY <1>2, <2>1, PendingIs
  <2>3. \A n, c : ~Pending(n, c)'
    BY <2>1, PendingIs
  <2>. QED BY <2>2, <2>3
<1>14. \A n \in Dirs : \A i \in Behind(n) :
         Child(n, i) \in Inodes /\ (Child(n, i) = k => n = d /\ i = z)
  BY <1>1, <1>5, <1>8, ChildIs DEF OnceInv
<1>15. ASSUME NEW n \in Dirs, NEW c \in Inodes \ {k}
       PROVE  Inode(c)' = Inode(c) /\ (Lost(n, c)' <=> Lost(n, c))
  BY <1>12, <1>13 DEF Lost
<1>16. TwiceInv'
  <2>1. \A n \in Dirs' : n \in Dirs \/ Behind(n)' = {}
    BY <1>12
  <2>2. ASSUME NEW n \in Dirs, NEW i \in Behind(n)
        PROVE  \E c : /\ c = Child(n, i)
                      /\ Lost(n, c) => Lost(n, c)'
    <3>1. PICK c : c = Child(n, i)
      OBVIOUS
    <3>2. c = k => ~Lost(n, c)
      BY <1>13, <1>14, <3>1 DEF Lost
    <3>. QED BY <1>14, <1>15, <3>1, <3>2
  <2>. QED BY <1>1, <1>12, <2>1, <2>2, TwiceSame
<1>17. ASSUME UsedInv PROVE UsedInv'
  <2>1. \A n \in Dirs : \A i \in Behind(n) :
          Child(n, i) \in Inodes /\ (Child(n, i) = k \/ Inode(Child(n, i)).mode # "none")
    BY <1>13, <1>14, <1>17 DEF UsedInv
  <2>2. ASSUME NEW n \in Dirs', NEW i \in Behind(n)'
        PROVE  \E c : c = Child(n, i)' /\ Inode(c)'.mode # "none"
    BY <1>11, <1>12, <2>1
  <2>. QED BY <2>2 DEF UsedInv, Inode
<1>18. TreeInv' /\ (UsedInv => UsedInv')
  BY <1>3, <1>12, <1>16, <1>17, IdleTasks DEF TreeInv
\* What a name led to and leads to.
<1>19. ASSUME NEW n \in Dirs, NEW v \in Names
       PROVE  \E m : /\ m = Lookup(Entries(n), v) /\ m = Lookup(Entries(n)', v)
                     /\ \/ m = -1 /\ ~ (n = d /\ v = x)
                        \/ /\ m = k /\ n = d /\ v = x /\ m # -1 /\ ~Lost(n, m) /\ ~Lost(n, m)'
                           /\ Inode(m).mode = "none" /\ Inode(m)'.mode # "none"
                        \/ /\ m # -1 /\ m # k /\ Inode(m)' = Inode(m) /\ (Lost(n, m)' <=> Lost(n, m))
                           /\ n = d /\ v = x => Inode(m).mode = "none" /\ Lost(n, m)
  <2>1. PICK m : m = Lookup(Entries(n), v)
    OBVIOUS
  <2>2. m = Lookup(Entries(n)', v)
    BY <1>12, <2>1
  <2>3. CASE m = -1 /\ \A i \in DOMAIN Entries(n) : Entries(n)[i].name # v
    BY <1>8, <2>1, <2>2, <2>3 DEF Behind
  <2>4. CASE m \in Inodes /\ m # -1 /\ \E i \in Behind(n) : Entries(n)[i].name = v /\ m = Child(n, i)
    <3>1. CASE m = k
      <4>1. n = d /\ v = x
        BY <1>8, <1>14, <2>4, <3>1
      <4>2. ~Lost(n, m) /\ ~Lost(n, m)'
        BY <1>5, <1>11, <1>12, <1>13, <3>1, <4>1 DEF Lost
      <4>3. Inode(m).mode = "none" /\ Inode(m)'.mode # "none"
        BY <1>5, <1>11, <1>12, <3>1 DEF FreeInode
      <4>. QED BY <2>1, <2>2, <2>4, <3>1, <4>1, <4>2, <4>3
    <3>2. CASE m # k
      <4>1. n = d /\ v = x => Inode(m).mode = "none" /\ Lost(n, m)
        BY <1>5, <1>13, <2>1, <2>4, <3>2 DEF Seen, Lost
      <4>. QED BY <1>15, <2>1, <2>2, <2>4, <3>2, <4>1
    <3>. QED BY <3>1, <3>2
  <2>. QED BY <1>1, <2>1, <2>3, <2>4, NamedIs
<1>20. ASSUME NEW n \in Dirs, NEW v \in Names
       PROVE  /\ \E m, j : /\ m = Seen(n, v) /\ j = Seen(n, v)'
                           /\ j = IF n = d /\ v = x /\ ~Spoils(n, v) THEN k ELSE m
                           /\ m # -1 => m # k /\ Inode(m)'.mode = Inode(m).mode
              /\ Spoils(n, v)' <=> Spoils(n, v)
  <2>1. PICK m : /\ m = Lookup(Entries(n), v) /\ m = Lookup(Entries(n)', v)
                 /\ \/ m = -1 /\ ~ (n = d /\ v = x)
                    \/ /\ m = k /\ n = d /\ v = x /\ m # -1 /\ ~Lost(n, m) /\ ~Lost(n, m)'
                       /\ Inode(m).mode = "none" /\ Inode(m)'.mode # "none"
                    \/ /\ m # -1 /\ m # k /\ Inode(m)' = Inode(m) /\ (Lost(n, m)' <=> Lost(n, m))
                       /\ n = d /\ v = x => Inode(m).mode = "none" /\ Lost(n, m)
    BY <1>19
  <2>2. Seen(n, v) = IF m # -1 /\ Inode(m).mode # "none" THEN m ELSE -1
    BY <2>1 DEF Seen
  <2>3. Seen(n, v)' = IF m # -1 /\ Inode(m)'.mode # "none" THEN m ELSE -1
    BY <2>1 DEF Seen, Inode
  <2>4. Spoils(n, v) <=> m # -1 /\ Lost(n, m)
    BY <2>1 DEF Spoils
  <2>5. Spoils(n, v)' <=> m # -1 /\ Lost(n, m)'
    BY <2>1 DEF Spoils, Lost, Pending, Inode
  <2>. QED BY <2>1, <2>2, <2>3, <2>4, <2>5
<1>21. ASSUME NEW v \in Names, k \in Dirs' PROVE Seen(k, v)' = -1 /\ ~Spoils(k, v)'
  <2>1. Lookup(Entries(k)', v) = -1
    BY <1>5, <1>12, <1>21, LookupDots DEF Dirs
  <2>. QED BY <2>1 DEF Seen, Spoils
<1>22. Inode(k)'.mode = kind /\ Dirs' = IF kind = "dir" THEN Dirs \cup {k} ELSE Dirs
  BY <1>5, <1>11, <1>12
<1>23. MakesName(d, k, x, kind)
  <2>. HIDE DEF kind
  <2>. QED BY <1>4, <1>5, <1>12, <1>20, <1>21, <1>22 DEF MakesName, SpoiledSame
<1>. QED BY <1>2, <1>5, <1>18, <1>23

\* Entry z of directory d is the one in which inode k has name x.
TheEntry(d, k, x, z) ==
  /\ Entries(d)[z].name = x /\ Child(d, z) = k
  /\ \A j \in DOMAIN Entries(d) : Entries(d)[j].name = x => z <= j
  /\ \A n \in Dirs : \A i \in Behind(n) : Child(n, i) = k => n = d /\ i = z

\* Where a request that removes an inode is.
LEMMA RemovingIs ==
  ASSUME ClearedInv, TreeInv, NEW w \in Workers, pc[w] \in Removing, NEW d, NEW k, NEW x,
         d = loc[w].dir, k = loc[w].num, x = Last(loc[w].path)
  PROVE  /\ loc[w].path \in Paths /\ x \in Names /\ loc[w].call \in {"unlink", "rmdir"}
         /\ d \in Dirs /\ d \in Inodes /\ d = Place(loc[w].path) /\ Dotted(d, 0)
         /\ k = Lookup(Entries(d), x) /\ k \in Inodes \ {0} /\ k # d
         /\ \E z \in Behind(d) : TheEntry(d, k, x, z)
<1>1. /\ Types /\ ClearedInodes /\ EntriesInv /\ DotsInv /\ ChildrenInv /\ OnceInv
      /\ RemovingInv(w) /\ RemovingTask(w) /\ loc[w] \in CallType
  BY DEF ClearedInv, ClearedInodes, FSInv, DiskInv, RequestInv, Types, TreeInv, Tasks, Shape
<1>2. loc[w].path \in Paths /\ x \in Names
  <2>1. loc[w].path \in Paths
    BY <1>1 DEF Types, Removing
  <2>. QED BY <2>1, PathIs
<1>3. /\ d \in Dirs /\ d = Place(loc[w].path) /\ Dotted(d, 0) /\ k = Lookup(Entries(d), x)
      /\ loc[w].call \in {"unlink", "rmdir"} /\ k \in Inodes \ {0}
  BY <1>1 DEF RemovingTask, RemovingInv, CallType
<1>4. k # -1 /\ d \in Inodes
  BY <1>3, Numbers DEF Dirs
<1>5. PICK z \in Behind(d) : /\ Entries(d)[z].name = x /\ Child(d, z) = k
                             /\ \A j \in DOMAIN Entries(d) : Entries(d)[j].name = x => z <= j
  BY <1>1, <1>2, <1>3, <1>4, NamedIs
<1>6. k # d
  BY <1>1, <1>3, <1>5 DEF ChildrenInv
<1>7. \A n \in Dirs : \A i \in Behind(n) : Child(n, i) = k => n = d /\ i = z
  BY <1>1, <1>3, <1>5 DEF OnceInv
<1>8. TheEntry(d, k, x, z)
  BY <1>5, <1>7 DEF TheEntry
<1>. QED BY <1>2, <1>3, <1>4, <1>6, <1>8

\* It reads the inode's table, or the directory.
LEMMA ReadTree ==
  ASSUME ClearedInv, TreeInv, OneRequest, NEW w \in Workers, ReadInode(w) \/ ReadEntries(w)
  PROVE  Quiet /\ TreeInv' /\ (UsedInv => UsedInv') /\ pc'[w] \in {"write inode", "write entries"}
<1>1. Types /\ ClearedInodes /\ RemovingTask(w) /\ loc[w] \in CallType /\ Shape
  BY DEF ClearedInv, ClearedInodes, FSInv, DiskInv, RequestInv, Types, TreeInv, Tasks
<1>2. PICK d, k, b, x : d = loc[w].dir /\ k = loc[w].num /\ b = loc[w].block /\ x = Last(loc[w].path)
  OBVIOUS
<1>3. pc[w] \in {"read inode", "read entries"} /\ UNCHANGED disk
  BY DEF ReadInode, ReadEntries, At
<1>4. pc[w] \in Removing
  BY <1>3 DEF Removing
<1>5. /\ loc[w].path \in Paths /\ x \in Names /\ loc[w].call \in {"unlink", "rmdir"}
      /\ d \in Dirs /\ d \in Inodes /\ d = Place(loc[w].path) /\ Dotted(d, 0)
      /\ k = Lookup(Entries(d), x) /\ k \in Inodes \ {0}
      /\ \E z \in Behind(d) : Child(d, z) = k
  BY <1>2, <1>4, RemovingIs DEF TheEntry
<1>6. Kept
  BY <1>3, PathKept DEF Kept
<1>7. /\ pc'[w] = IF pc[w] = "read inode" THEN "write inode" ELSE "write entries"
      /\ loc'[w].dir = d /\ loc'[w].num = k /\ loc'[w].block = b /\ loc'[w].path = loc[w].path
      /\ loc'[w].call = loc[w].call
  <2>1. CASE ReadInode(w)
    <3>1. pc[w] = "read inode"
      BY <2>1 DEF ReadInode, At
    <3>2. Inode(k).mode = IF loc[w].call = "rmdir" THEN "dir" ELSE "file"
      BY <1>1, <1>2, <3>1 DEF RemovingTask
    <3>3. IsUsed(k)
      BY <1>1, <1>5, <3>2, ClearedUsed DEF HasBlock
    <3>4. /\ pc'[w] = "write inode"
          /\ loc'[w] = [loc[w] EXCEPT !.table = [disk.itable[TableBlock(k)] EXCEPT ![TableIndex(k)] = FreeInode]]
      BY <1>1, <1>2, <2>1, <3>2, <3>3, Went DEF ReadInode
    <3>. QED BY <1>1, <1>2, <3>1, <3>4 DEF CallType
  <2>2. CASE ReadEntries(w)
    <3>1. pc[w] = "read entries"
      BY <2>2 DEF ReadEntries, At
    <3>2. PICK i : i = FirstNumbered(Entries(d), k)
      OBVIOUS
    <3>3. i # 0
      <4>1. Entries(d) \in Files /\ 0 \notin DOMAIN Entries(d)
        BY <1>1, <1>5, DirIs
      <4>2. \E j \in DOMAIN Entries(d) : Entries(d)[j].iNum = k
        BY <1>5 DEF Behind, Child
      <4>3. FirstNumbered(Entries(d), k) = 0 => \A j \in DOMAIN Entries(d) : Entries(d)[j].iNum # k
        BY <4>1, FirstNumberedIs
      <4>. QED BY <3>2, <4>2, <4>3
    <3>4. /\ pc'[w] = "write entries"
          /\ loc'[w] = [loc[w] EXCEPT !.buffer = RemoveAt(Entries(d), i), !.dirBlock = Inode(d).block]
      BY <1>1, <1>2, <2>2, <3>2, <3>3, Went DEF ReadEntries
    <3>. QED BY <1>1, <1>2, <3>1, <3>4 DEF CallType
  <2>. QED BY <2>1, <2>2
<1>8. \A n, y : Pending(n, y)' <=> Pending(n, y)
  <2>1. Between(w)' <=> Between(w)
    BY <1>3, <1>7 DEF Between
  <2>2. loc'[w].dir = loc[w].dir /\ loc'[w].num = loc[w].num
    BY <1>2, <1>7
  <2>. HIDE DEF Between
  <2>3. /\ \A n, y : Pending(n, y) <=> Between(w) /\ loc[w].dir = n /\ loc[w].num = y
        /\ \A n, y : Pending(n, y)' <=> Between(w)' /\ loc'[w].dir = n /\ loc'[w].num = y
    BY PendingIs
  <2>. QED BY <2>1, <2>2, <2>3
<1>9. Quiet /\ Shape' /\ TwiceInv' /\ (UsedInv => UsedInv')
  BY <1>6, <1>8, KeptTree
<1>10. RemovingTask(w)'
  <2>1. PICK q : q = loc[w].path
    OBVIOUS
  <2>2. /\ d \in Dirs' /\ d = Place(q)' /\ Dotted(d, 0)' /\ Lookup(Entries(d)', x) = k
        /\ Inode(k)' = Inode(k) /\ \A y : Orphan(y)' = Orphan(y)
    BY <1>5, <1>6, <2>1, ShapeKept DEF Kept
  <2>3. /\ (loc[w].dir \in Dirs)' /\ loc'[w].dir = Place(loc[w].path)' /\ Dotted(loc[w].dir, 0)'
        /\ Lookup(Entries(loc[w].dir), Last(loc[w].path))' = loc'[w].num
        /\ Inode(loc[w].num)' = Inode(k)
    <3>1. loc'[w].dir = Place(loc[w].path)' /\ (loc[w].dir \in Dirs)'
      BY <1>7, <2>1, <2>2
    <3>2. Dotted(loc[w].dir, 0)' /\ Inode(loc[w].num)' = Inode(k)
      BY <1>7, <2>2 DEF Dotted, Inode
    <3>3. Lookup(Entries(loc[w].dir), Last(loc[w].path))' = loc'[w].num
      BY <1>2, <1>7, <2>2
    <3>. QED BY <3>1, <3>2, <3>3
  <2>4. /\ pc[w] = "read inode" => /\ Inode(k).mode = IF loc[w].call = "rmdir" THEN "dir" ELSE "file"
                                   /\ b = Inode(k).block
        /\ pc[w] = "read entries" => /\ Inode(k).mode = "none"
                                     /\ loc[w].call = "rmdir" => /\ b # 0 /\ Orphans(disk.data[b])
                                                                 /\ \A n \in Dirs : Inode(n).block # b
    BY <1>1, <1>2 DEF RemovingTask
  <2>5. ASSUME pc[w] = "read entries", loc[w].call = "rmdir" PROVE Orphans(disk.data[loc[w].block])'
    <3>1. disk'.data[loc'[w].block] = disk.data[b]
      BY <1>3, <1>7
    <3>. QED BY <2>2, <2>4, <2>5, <3>1 DEF Orphans, Holds, Orphan
  <2>6. ASSUME pc[w] = "read entries", loc[w].call = "rmdir"
        PROVE  \A n \in Dirs' : Inode(n)'.block # loc'[w].block
    BY <1>6, <1>7, <2>4, <2>6, ShapeKept
  <2>. QED BY <1>3, <1>7, <2>3, <2>4, <2>5, <2>6 DEF RemovingTask, Removing
<1>11. pc'[w] \notin Finding \cup Filling \cup Deleting
  BY <1>3, <1>7 DEF Finding, Filling, Deleting
<1>12. Tasks'
  BY <1>10, <1>11, OtherTasks, TasksOf
<1>. QED BY <1>3, <1>7, <1>9, <1>12 DEF TreeInv

\* The name x in directory d, which led to inode k, leads to nothing.
RemovesName(d, k, x, kind) ==
  /\ d \in Dirs /\ k \in Inodes \ {0} /\ k # d /\ x \in Names
  /\ Seen(d, x) = k /\ Inode(k).mode = kind
  /\ Dirs' = Dirs \ {k}
  /\ \A n \in Dirs' : \A y \in Names :
       /\ \E m, j : /\ m = Seen(n, y) /\ j = Seen(n, y)'
                    /\ j = IF n = d /\ y = x THEN -1 ELSE m
                    /\ j # -1 => Inode(j)'.mode = Inode(j).mode
       /\ Seen(n, y) = k => n = d /\ y = x
  /\ SpoiledSame

\* Paths into a directory that is removed lead nowhere.
LEMMA RemovedPlaces ==
  ASSUME ClearedInv, ClearedInv', Shape, Shape', NEW d, NEW k, NEW x, NEW kind, RemovesName(d, k, x, kind)
  PROVE  \A q \in Paths : \E m : /\ m = Place(q)
                                 /\ Place(q)' = IF m = k THEN -1 ELSE m
<1>1. PlacesRight
  BY PlaceRules
<1>2. (ClearedInv /\ Shape)' => PlacesRight'
  BY PlaceRules, PTL
<1>3. PlacesRight'
  BY <1>2
<1>4. -1 \notin Inodes /\ k # -1 /\ k # 0 /\ Dirs' = Dirs \ {k}
  BY Numbers DEF RemovesName
<1>5. ASSUME NEW a \in Names PROVE \E m : m = Place(<<a>>) /\ Place(<<a>>)' = IF m = k THEN -1 ELSE m
  BY <1>1, <1>3, <1>4 DEF PlacesRight
<1>6. ASSUME NEW a \in Names, NEW b \in Names
      PROVE  \E m : m = Place(<<a, b>>) /\ Place(<<a, b>>)' = IF m = k THEN -1 ELSE m
  <2>1. Place(<<a, b>>) = IF 0 \in Dirs /\ Seen(0, a) \in Dirs THEN Seen(0, a) ELSE -1
    BY <1>1 DEF PlacesRight
  <2>2. Place(<<a, b>>)' = IF 0 \in Dirs' /\ Seen(0, a)' \in Dirs' THEN Seen(0, a)' ELSE -1
    BY <1>3 DEF PlacesRight
  <2>3. CASE 0 \notin Dirs
    BY <1>4, <2>1, <2>2, <2>3
  <2>4. CASE 0 \in Dirs
    <3>1. PICK m, j : /\ m = Seen(0, a) /\ j = Seen(0, a)'
                      /\ j = IF 0 = d /\ a = x THEN -1 ELSE m
      BY <1>4, <2>4 DEF RemovesName
    <3>2. m = k <=> 0 = d /\ a = x
      BY <1>4, <2>4, <3>1 DEF RemovesName
    <3>3. -1 \notin Dirs'
      BY <1>4 DEF Dirs
    <3>. QED BY <1>4, <2>1, <2>2, <2>4, <3>1, <3>2, <3>3
  <2>. QED BY <2>3, <2>4
<1>. QED BY <1>5, <1>6, PathNames

\* The inode is freed.
LEMMA InodeTree ==
  ASSUME ClearedInv, ClearedInv', TreeInv, OneRequest, NEW w \in Workers, WriteInode(w)
  PROVE  /\ TreeInv' /\ (UsedInv => UsedInv')
         /\ Place(loc[w].path) # -1
         /\ RemovesName(Place(loc[w].path), loc[w].num, Last(loc[w].path),
                        IF loc[w].call = "rmdir" THEN "dir" ELSE "file")
<1>1. /\ Types /\ ClearedInodes /\ OwnersInv /\ DataInv /\ EntriesInv /\ RemovingInv(w) /\ RemovingTask(w)
      /\ Shape /\ DotsInv /\ ChildrenInv /\ OnceInv /\ TwiceInv /\ loc[w] \in CallType
  BY DEF ClearedInv, ClearedInodes, FSInv, DiskInv, RequestInv, Types, TreeInv, Tasks, Shape
<1>2. PICK d, k, b, x : d = loc[w].dir /\ k = loc[w].num /\ b = loc[w].block /\ x = Last(loc[w].path)
  OBVIOUS
<1>3. /\ pc[w] = "write inode" /\ pc'[w] = "read entries"
      /\ loc'[w] = [loc[w] EXCEPT !.table = <<>>]
      /\ disk' = [disk EXCEPT !.itable[TableBlock(k)] = loc[w].table]
  BY <1>1, <1>2, Went DEF WriteInode, At
<1>4. pc[w] \in Removing
  BY <1>3 DEF Removing
<1>5. /\ loc[w].path \in Paths /\ x \in Names /\ loc[w].call \in {"unlink", "rmdir"}
      /\ d \in Dirs /\ d \in Inodes /\ d = Place(loc[w].path) /\ Dotted(d, 0)
      /\ k = Lookup(Entries(d), x) /\ k \in Inodes \ {0} /\ k # d
  BY <1>2, <1>4, RemovingIs
<1>6. PICK z \in Behind(d) :
        /\ Entries(d)[z].name = x /\ Child(d, z) = k
        /\ \A j \in DOMAIN Entries(d) : Entries(d)[j].name = x => z <= j
        /\ \A n \in Dirs : \A i \in Behind(n) : Child(n, i) = k => n = d /\ i = z
  <2>1. \E z \in Behind(d) : TheEntry(d, k, x, z)
    BY <1>2, <1>4, RemovingIs
  <2>. QED BY <2>1 DEF TheEntry
<1>7. /\ Inode(k).mode = IF loc[w].call = "rmdir" THEN "dir" ELSE "file"
      /\ Inode(k).mode \in {"file", "dir"} /\ (loc[w].call = "rmdir" => k \in Dirs)
      /\ b = Inode(k).block
  BY <1>1, <1>2, <1>3, <1>5 DEF RemovingTask, Dirs
<1>8. disk' = [disk EXCEPT !.itable[TableBlock(k)] = TableWith(k, FreeInode)]
  BY <1>1, <1>2, <1>3 DEF RemovingInv
<1>9. /\ \A n \in Inodes : Inode(n)' = IF n = k THEN FreeInode ELSE Inode(n)
      /\ Dirs' = Dirs \ {k} /\ disk'.data = disk.data
      /\ \A n \in Dirs' : /\ Entries(n)' = Entries(n) /\ Behind(n)' = Behind(n)
                          /\ \A i : Child(n, i)' = Child(n, i)
      /\ \A n \in Dirs' : \A p : Dotted(n, p) => Dotted(n, p)'
      /\ \A y : Holds(disk.data[b], y) => Orphan(y)'
      /\ Shape'
  BY <1>1, <1>5, <1>7, <1>8, Freed
<1>10. /\ loc'[w].dir = d /\ loc'[w].num = k /\ loc'[w].block = b /\ loc'[w].call = loc[w].call
       /\ loc'[w].path = loc[w].path
  BY <1>1, <1>2, <1>3 DEF CallType
<1>11. /\ \A n, c : ~Pending(n, c)
       /\ \A n, c : Pending(n, c)' <=> n = d /\ c = k
  <2>1. ~Between(w) /\ Between(w)'
    BY <1>3 DEF Between
  <2>2. \A n, c : ~Pending(n, c)
    BY <2>1, PendingIs
  <2>3. \A n, c : Pending(n, c)' <=> n = d /\ c = k
    BY <1>10, <2>1, PendingIs
  <2>. QED BY <2>2, <2>3
<1>12. Inode(k)'.mode = "none" /\ Inode(k).mode # "none"
  BY <1>5, <1>7, <1>9 DEF FreeInode
<1>13. \A n \in Dirs : \A i \in Behind(n) : Child(n, i) \in Inodes
  BY <1>1, ChildIs
<1>14. ASSUME NEW n \in Dirs, NEW c \in Inodes \ {k}
       PROVE  Inode(c)' = Inode(c) /\ (Lost(n, c)' <=> Lost(n, c))
  BY <1>9, <1>11 DEF Lost
<1>15. TwiceInv'
  <2>1. \A n \in Dirs' : n \in Dirs
    BY <1>9
  <2>2. ASSUME NEW n \in Dirs, NEW i \in Behind(n)
        PROVE  \E c : /\ c = Child(n, i)
                      /\ Lost(n, c) => Lost(n, c)'
    <3>1. PICK c : c = Child(n, i)
      OBVIOUS
    <3>2. c = k => ~Lost(n, c)
      BY <1>12 DEF Lost
    <3>. QED BY <1>13, <1>14, <3>1, <3>2
  <2>. QED BY <1>1, <1>9, <2>1, <2>2, TwiceSame
<1>16. ASSUME UsedInv PROVE UsedInv'
  <2>1. ASSUME NEW n \in Dirs', NEW i \in Behind(n)'
        PROVE  \E c : c = Child(n, i)' /\ (Inode(c)'.mode # "none" \/ Pending(n, c)')
    BY <1>6, <1>9, <1>11, <1>13, <1>16 DEF UsedInv
  <2>. QED BY <2>1 DEF UsedInv, Pending, Inode
<1>17. ASSUME NEW n \in Dirs', NEW v \in Names
       PROVE  /\ \E m, j : /\ m = Seen(n, v) /\ j = Seen(n, v)'
                           /\ j = IF n = d /\ v = x THEN -1 ELSE m
                           /\ j # -1 => Inode(j)'.mode = Inode(j).mode
              /\ Seen(n, v) = k => n = d /\ v = x
              /\ Spoils(n, v)' <=> Spoils(n, v)
  <2>1. PICK m : m = Lookup(Entries(n), v)
    OBVIOUS
  <2>2. m = Lookup(Entries(n)', v) /\ n \in Dirs
    BY <1>9, <2>1
  <2>3. \/ m = -1
        \/ m \in Inodes /\ m # -1 /\ \E i \in Behind(n) : Entries(n)[i].name = v /\ m = Child(n, i)
    <3>1. n \in Dirs
      BY <2>2
    <3>. QED BY <1>1, <2>1, <3>1, NamedIs
  <2>4. k # -1
    BY <1>5, Numbers
  <2>5. m = k <=> n = d /\ v = x
    BY <1>5, <1>6, <2>1, <2>2, <2>3, <2>4
  <2>6. m # -1 /\ m # k => Inode(m)' = Inode(m) /\ (Lost(n, m)' <=> Lost(n, m))
    BY <1>14, <2>2, <2>3
  <2>7. m = k => ~Lost(n, m) /\ ~Lost(n, m)'
    BY <1>11, <1>12, <2>5 DEF Lost
  <2>8. Seen(n, v) = IF m # -1 /\ Inode(m).mode # "none" THEN m ELSE -1
    BY <2>1 DEF Seen
  <2>9. Seen(n, v)' = IF m # -1 /\ Inode(m)'.mode # "none" THEN m ELSE -1
    BY <2>2 DEF Seen, Inode
  <2>10. Spoils(n, v) <=> m # -1 /\ Lost(n, m)
    BY <2>1 DEF Spoils
  <2>11. Spoils(n, v)' <=> m # -1 /\ Lost(n, m)'
    BY <2>2 DEF Spoils, Lost, Pending, Inode
  <2>12. Spoils(n, v)' <=> Spoils(n, v)
    BY <2>6, <2>7, <2>10, <2>11
  <2>13. Seen(n, v) = k => n = d /\ v = x
    BY <2>4, <2>5, <2>8
  <2>14. \E h, j : /\ h = Seen(n, v) /\ j = Seen(n, v)'
                   /\ j = IF n = d /\ v = x THEN -1 ELSE h
                   /\ j # -1 => Inode(j)'.mode = Inode(j).mode
    BY <1>12, <2>5, <2>6, <2>8, <2>9
  <2>. QED BY <2>12, <2>13, <2>14
<1>18. Seen(d, x) = k
  BY <1>5, <1>12, Numbers DEF Seen
<1>19. RemovesName(d, k, x, IF loc[w].call = "rmdir" THEN "dir" ELSE "file")
  BY <1>5, <1>7, <1>9, <1>17, <1>18 DEF RemovesName, SpoiledSame
<1>20. RemovingTask(w)'
  <2>1. PICK q \in Paths : q = loc[w].path
    BY <1>5
  <2>2. d = Place(q)'
    BY <1>1, <1>5, <1>9, <1>19, <2>1, RemovedPlaces
  <2>3. d \in Dirs' /\ Dotted(d, 0)' /\ Lookup(Entries(d)', x) = k
    BY <1>5, <1>9
  <2>4. (loc[w].dir \in Dirs)' /\ loc'[w].dir = Place(loc[w].path)' /\ Dotted(loc[w].dir, 0)'
    BY <1>10, <2>1, <2>2, <2>3 DEF Dotted
  <2>5. Lookup(Entries(loc[w].dir), Last(loc[w].path))' = loc'[w].num
    BY <1>2, <1>10, <2>3
  <2>6. b # 0 /\ \A n \in Dirs' : Inode(n)'.block # b
    <3>1. HasBlock(k) /\ b \in disk.bbitmap[0] \ {0}
      BY <1>1, <1>5, <1>7, ClearedUsed
    <3>2. \A n \in Dirs : HasBlock(n) /\ n \in Inodes
      BY <1>1, DirIs
    <3>. QED BY <1>1, <1>5, <1>7, <1>9, <3>1, <3>2 DEF OwnersInv
  <2>7. Orphans(disk.data[loc[w].block])'
    <3>1. disk'.data[loc'[w].block] = disk.data[b]
      BY <1>9, <1>10
    <3>. QED BY <1>9, <3>1 DEF Orphans, Holds, Orphan
  <2>8. Inode(loc[w].num)'.mode = "none" /\ \A n \in Dirs' : Inode(n)'.block # loc'[w].block
    BY <1>10, <1>12, <2>6 DEF Inode
  <2>. QED BY <1>3, <1>10, <2>4, <2>5, <2>6, <2>7, <2>8 DEF RemovingTask, Removing
<1>21. pc'[w] \notin Finding \cup Filling \cup Deleting
  BY <1>3 DEF Finding, Filling, Deleting
<1>22. Tasks'
  BY <1>20, <1>21, OtherTasks, TasksOf
<1>. QED BY <1>2, <1>5, <1>9, <1>15, <1>16, <1>19, <1>22, Numbers DEF TreeInv, Dirs

\* The entry is taken out.
LEMMA OutTree ==
  ASSUME ClearedInv, TreeInv, OneRequest, NEW w \in Workers, WriteEntries(w)
  PROVE  Quiet /\ TreeInv' /\ (UsedInv => UsedInv')
<1>1. /\ Types /\ ClearedInodes /\ OwnersInv /\ EntriesInv /\ RemovingInv(w) /\ RemovingTask(w)
      /\ Shape /\ DotsInv /\ ChildrenInv /\ OnceInv /\ TwiceInv /\ loc[w] \in CallType /\ disk \in DiskType
  BY DEF ClearedInv, ClearedInodes, FSInv, DiskInv, RequestInv, Types, TreeInv, Tasks, Shape
<1>2. PICK d, k, b, x : d = loc[w].dir /\ k = loc[w].num /\ b = loc[w].block /\ x = Last(loc[w].path)
  OBVIOUS
<1>3. /\ pc[w] = "write entries" /\ disk' = [disk EXCEPT !.data[loc[w].dirBlock] = loc[w].buffer]
      /\ IF loc[w].call = "rmdir"
         THEN /\ pc'[w] = "read block"
              /\ loc'[w] = [loc[w] EXCEPT !.buffer = <<>>, !.frames = <<[block |-> b, pos |-> 1]>>]
         ELSE pc'[w] = "idle"
  BY <1>1, <1>2, Went DEF WriteEntries, At
<1>4. pc[w] \in Removing
  BY <1>3 DEF Removing
<1>5. /\ x \in Names /\ d \in Dirs /\ d \in Inodes /\ Dotted(d, 0)
      /\ k = Lookup(Entries(d), x) /\ k \in Inodes \ {0} /\ k # d
  BY <1>2, <1>4, RemovingIs
<1>6. PICK z \in Behind(d) :
        /\ Entries(d)[z].name = x /\ Child(d, z) = k
        /\ \A j \in DOMAIN Entries(d) : Entries(d)[j].name = x => z <= j
        /\ \A n \in Dirs : \A i \in Behind(n) : Child(n, i) = k => n = d /\ i = z
  <2>1. \E z \in Behind(d) : TheEntry(d, k, x, z)
    BY <1>2, <1>4, RemovingIs
  <2>. QED BY <2>1 DEF TheEntry
<1>7. disk' = [disk EXCEPT !.data[Inode(d).block] = RemoveAt(Entries(d), z)]
  <2>1. /\ loc[w].dirBlock = Inode(d).block
        /\ \E i \in DOMAIN Entries(d) : Entries(d)[i].iNum = k /\ loc[w].buffer = RemoveAt(Entries(d), i)
    BY <1>1, <1>2, <1>3 DEF RemovingInv
  <2>2. PICK i \in DOMAIN Entries(d) : Entries(d)[i].iNum = k /\ loc[w].buffer = RemoveAt(Entries(d), i)
    BY <2>1
  <2>3. i \in Behind(d)
    BY <1>1, <1>5, <2>2, IsBehind
  <2>4. i = z
    BY <1>5, <1>6, <2>2, <2>3 DEF Child
  <2>. QED BY <1>3, <2>1, <2>2, <2>4
<1>8. /\ Dirs' = Dirs /\ Shape' /\ \A n \in Inodes : Inode(n)' = Inode(n)
      /\ \A n \in Dirs : \A i, j \in Behind(n)' :
           \E g, h \in Behind(n) :
             /\ Entries(n)'[i] = Entries(n)[g] /\ Entries(n)'[j] = Entries(n)[h]
             /\ (i # j => g # h)
             /\ (n = d => g # z)
             /\ Child(n, i)' = Child(n, g)
      /\ \A n \in Dirs : \A y :
           \E m : /\ m = Lookup(Entries(n)', y)
                  /\ (n # d \/ Entries(d)[z].name # y) => m = Lookup(Entries(n), y)
                  /\ n = d /\ (\A i \in DOMAIN Entries(d) : Entries(d)[i].name = y <=> i = z) => m = -1
  BY <1>1, <1>5, <1>7, Thinned
<1>9. /\ \A n, c : Pending(n, c) <=> n = d /\ c = k
      /\ \A n, c : ~Pending(n, c)'
  <2>1. Between(w) /\ ~Between(w)'
    BY <1>3 DEF Between
  <2>2. \A n, c : Pending(n, c) <=> n = d /\ c = k
    BY <1>2, <2>1, PendingIs
  <2>3. \A n, c : ~Pending(n, c)'
    BY <2>1, PendingIs
  <2>. QED BY <2>2, <2>3
<1>10. Inode(k).mode = "none" /\ ~Lost(d, k)
  BY <1>1, <1>2, <1>3, <1>9 DEF RemovingTask, Lost
<1>11. \A n \in Dirs : \A i \in Behind(n) : Child(n, i) \in Inodes
  BY <1>1, ChildIs
\* The name was there once.
<1>12. \A i \in DOMAIN Entries(d) : Entries(d)[i].name = x <=> i = z
  <2>1. ASSUME NEW i \in DOMAIN Entries(d), Entries(d)[i].name = x, i # z PROVE FALSE
    <3>1. i \in Behind(d)
      BY <1>1, <1>5, <2>1, IsBehind, NamesAssumption
    <3>2. Lost(d, Lookup(Entries(d), x))
      BY <1>1, <1>5, <1>6, <2>1, <3>1 DEF TwiceInv
    <3>. QED BY <1>5, <1>10, <3>2
  <2>. QED BY <1>6, <2>1
<1>13. ASSUME NEW n \in Dirs, NEW c \in Inodes \ {k}
       PROVE  Inode(c)' = Inode(c) /\ (Lost(n, c)' <=> Lost(n, c))
  BY <1>8, <1>9 DEF Lost
<1>14. ASSUME NEW n \in Dirs, NEW v \in Names
       PROVE  \E m, j : /\ m = Lookup(Entries(n), v) /\ j = Lookup(Entries(n)', v)
                        /\ \/ j = m /\ m # k
                              /\ (m # -1 => Inode(m)' = Inode(m) /\ (Lost(n, m)' <=> Lost(n, m)))
                           \/ m = k /\ n = d /\ v = x /\ j = -1
  <2>1. PICK m : m = Lookup(Entries(n), v)
    OBVIOUS
  <2>2. PICK j : /\ j = Lookup(Entries(n)', v)
                 /\ (n # d \/ x # v) => j = m
                 /\ n = d /\ (\A i \in DOMAIN Entries(d) : Entries(d)[i].name = v <=> i = z) => j = -1
    BY <1>6, <1>8, <2>1
  <2>3. CASE n = d /\ v = x
    BY <1>5, <1>12, <2>1, <2>2, <2>3
  <2>4. CASE n # d \/ v # x
    <3>1. j = m
      BY <2>2, <2>4
    <3>2. m = -1 \/ (m \in Inodes /\ \E i \in Behind(n) : Entries(n)[i].name = v /\ m = Child(n, i))
      BY <1>1, <2>1, NamedIs
    <3>3. m # k
      BY <1>5, <1>6, <2>4, <3>2, Numbers
    <3>. QED BY <1>13, <2>1, <2>2, <3>1, <3>2, <3>3
  <2>. QED BY <2>3, <2>4
<1>15. Quiet
  <2>1. ASSUME NEW n \in Dirs, NEW v \in Names
        PROVE  /\ \E m : /\ m = Seen(n, v) /\ m = Seen(n, v)'
                         /\ m # -1 => Inode(m)'.mode = Inode(m).mode
               /\ Spoils(n, v)' <=> Spoils(n, v)
    <3>1. PICK m, j : /\ m = Lookup(Entries(n), v) /\ j = Lookup(Entries(n)', v)
                      /\ \/ j = m /\ m # k
                            /\ (m # -1 => Inode(m)' = Inode(m) /\ (Lost(n, m)' <=> Lost(n, m)))
                         \/ m = k /\ n = d /\ v = x /\ j = -1
      BY <1>14
    <3>2. Seen(n, v) = IF m # -1 /\ Inode(m).mode # "none" THEN m ELSE -1
      BY <3>1 DEF Seen
    <3>3. Seen(n, v)' = IF j # -1 /\ Inode(j)'.mode # "none" THEN j ELSE -1
      BY <3>1 DEF Seen, Inode
    <3>4. Spoils(n, v) <=> m # -1 /\ Lost(n, m)
      BY <3>1 DEF Spoils
    <3>5. Spoils(n, v)' <=> j # -1 /\ Lost(n, j)'
      BY <3>1 DEF Spoils, Lost, Pending, Inode
    <3>. QED BY <1>10, <3>1, <3>2, <3>3, <3>4, <3>5
  <2>. QED BY <1>8, <2>1 DEF Quiet, Same, SpoiledSame
<1>16. TwiceInv'
  <2>1. ASSUME NEW n \in Dirs', NEW i \in Behind(n)', NEW j \in Behind(n)', i # j,
               Entries(n)'[i].name = Entries(n)'[j].name
        PROVE  \E m : m = Lookup(Entries(n)', Entries(n)'[i].name) /\ Lost(n, m)'
    <3>1. n \in Dirs
      BY <1>8
    <3>2. PICK g \in Behind(n), h \in Behind(n) :
            Entries(n)'[i] = Entries(n)[g] /\ Entries(n)'[j] = Entries(n)[h] /\ g # h
      BY <1>8, <2>1, <3>1
    <3>3. PICK y : y = Entries(n)[g].name
      OBVIOUS
    <3>4. y \in Names /\ Entries(n)[h].name = y /\ Entries(n)'[i].name = y
      BY <1>1, <2>1, <3>1, <3>2, <3>3 DEF ChildrenInv
    <3>5. Lost(n, Lookup(Entries(n), y))
      BY <1>1, <3>1, <3>2, <3>3, <3>4 DEF TwiceInv
    <3>6. Lookup(Entries(n), y) # -1
      BY <1>1, <3>1, <3>3, <3>4, NamedIs DEF Behind
    <3>. QED BY <1>10, <1>14, <3>1, <3>4, <3>5, <3>6
  <2>. QED BY <2>1 DEF TwiceInv, Lost, Pending, Inode
<1>17. \A n \in Dirs : \A i \in Behind(n)' : \E g \in Behind(n) : Child(n, i)' = Child(n, g) /\ Child(n, g) # k
  BY <1>6, <1>8
<1>18. ASSUME UsedInv PROVE UsedInv'
  <2>1. ASSUME NEW n \in Dirs', NEW i \in Behind(n)'
        PROVE  \E c : c = Child(n, i)' /\ Inode(c)'.mode # "none"
    <3>1. PICK g \in Behind(n) : Child(n, i)' = Child(n, g) /\ Child(n, g) # k
      BY <1>8, <1>17
    <3>2. Inode(Child(n, g)).mode # "none" /\ Child(n, g) \in Inodes
      BY <1>8, <1>9, <1>11, <1>18, <3>1 DEF UsedInv
    <3>. QED BY <1>8, <3>1, <3>2
  <2>. QED BY <2>1 DEF UsedInv, Inode
<1>19. /\ \A y : Orphan(y) => Orphan(y)'
       /\ Orphan(k)'
  BY <1>8, <1>17 DEF Orphan
<1>20. CASE loc[w].call = "rmdir"
  <2>1. pc'[w] = "read block" /\ Frame(w)'.block = b /\ loc'[w].num = k
    <3>1. loc'[w].frames = <<[block |-> b, pos |-> 1]>> /\ loc'[w].num = k
      BY <1>1, <1>2, <1>3, <1>20 DEF CallType
    <3>2. Frame(w)' = [block |-> b, pos |-> 1]
      BY <3>1 DEF Frame, Last
    <3>3. \A f : f = [block |-> b, pos |-> 1] => f.block = b
      OBVIOUS
    <3>. QED BY <1>3, <1>20, <3>1, <3>2, <3>3
  <2>2. /\ b # 0 /\ Orphans(disk.data[b]) /\ \A n \in Dirs : Inode(n).block # b
    BY <1>1, <1>2, <1>3, <1>20 DEF RemovingTask
  <2>3. disk'.data[b] = disk.data[b]
    BY <1>1, <1>5, <1>7, <2>2 DEF DiskType
  <2>4. Orphans(disk.data[Frame(w).block])'
    BY <1>19, <2>1, <2>2, <2>3 DEF Orphans, Holds, Orphan
  <2>5. Orphan(loc[w].num)'
    BY <1>19, <2>1 DEF Orphan
  <2>6. DeletingTask(w)'
    BY <2>1, <2>2, <2>4, <2>5 DEF DeletingTask, Deleting
  <2>7. pc'[w] \notin Finding \cup Filling \cup Removing
    BY <2>1 DEF Finding, Filling, Removing
  <2>8. Tasks'
    BY <2>6, <2>7, OtherTasks, TasksOf
  <2>. QED BY <1>8, <1>15, <1>16, <1>18, <2>8 DEF TreeInv
<1>21. CASE loc[w].call # "rmdir"
  <2>1. Tasks'
    BY <1>3, <1>21, IdleTasks
  <2>. QED BY <1>8, <1>15, <1>16, <1>18, <2>1 DEF TreeInv
<1>. QED BY <1>20, <1>21

LEMMA HoldsLess ==
  ASSUME NEW s \in Files, NEW i \in DOMAIN s, NEW x, Holds(RemoveAt(s, i), x)
  PROVE  Holds(s, x)
<1>. DEFINE t == RemoveAt(s, i)
<1>1. /\ t \in Files /\ Len(t) = Len(s) - 1
      /\ \A k \in 1 .. (Len(s) - 1) : t[k] = IF k < i THEN s[k] ELSE s[k + 1]
  BY RemoveAtIs
<1>2. DOMAIN s = 1 .. Len(s) /\ Len(s) \in Nat /\ DOMAIN t = 1 .. Len(t)
  BY <1>1, LenProperties DEF Files
<1>. HIDE DEF t
<1>3. \A k \in DOMAIN t : \E j \in DOMAIN s : t[k] = s[j]
  BY <1>1, <1>2
<1>4. PICK k \in DOMAIN t : t[k].name \notin Dots /\ t[k].iNum = x
  BY DEF Holds, t
<1>. QED BY <1>3, <1>4 DEF Holds

\* rmdir deletes what was in the directory; no name in the tree leads there.
LEMMA DeleteTree ==
  ASSUME ClearedInv, TreeInv, OneRequest, NEW w \in Workers,
         ReadDeletedBlock(w) \/ DeleteEntries(w) \/ DeleteInode(w) \/ Leave(w)
  PROVE  Quiet /\ TreeInv' /\ (UsedInv => UsedInv')
<1>. DEFINE l == loc[w]
            F == [block : Blocks, pos : Nat \ {0}]
<1>1. /\ Types /\ ClearedInodes /\ OwnersInv /\ DataInv /\ EntriesInv /\ DeletingInv(w)
      /\ Shape /\ DotsInv /\ ChildrenInv /\ TwiceInv /\ DeletingTask(w) /\ l \in CallType
      /\ disk \in DiskType /\ dataBlockBuffer \in Files
  BY DEF ClearedInv, ClearedInodes, FSInv, DiskInv, RequestInv, Types, TreeInv, Tasks, Shape
<1>2. pc[w] \in Deleting /\ l.frames \in Frames /\ l.frames # <<>> /\ l.num \in Inodes /\ l.block \in Blocks
  <2>1. pc[w] \in Deleting
    BY DEF Deleting, ReadDeletedBlock, DeleteEntries, DeleteInode, Leave, At
  <2>. QED BY <1>1, <2>1 DEF DeletingInv, CallType
<1>3. Frame(w) \in F /\ Orphan(l.num)
  <2>1. Frame(w) \in F
    BY <1>2, FramesAre DEF Frame
  <2>2. Orphan(l.num)
    BY <1>1, <1>2 DEF DeletingTask
  <2>. QED BY <2>1, <2>2
<1>4. \A n, x : ~Pending(n, x)
  BY <1>2, PendingIs DEF Between, Deleting
<1>5. ASSUME UNCHANGED disk, ~Between(w)'
      PROVE  Quiet /\ Shape' /\ TwiceInv' /\ (UsedInv => UsedInv') /\ \A x : Orphan(x) => Orphan(x)'
  <2>1. Kept
    BY <1>5, PathKept DEF Kept
  <2>2. \A n, x : ~Pending(n, x)'
    BY <1>5, PendingIs
  <2>. QED BY <1>4, <2>1, <2>2, ShapeKept, KeptTree
<1>6. ASSUME NEW p \in Deleting, pc'[w] = p, DeletingTask(w)', Quiet, Shape', TwiceInv', UsedInv => UsedInv'
      PROVE  Quiet /\ TreeInv' /\ (UsedInv => UsedInv')
  <2>1. pc'[w] \notin Finding \cup Filling \cup Removing
    BY <1>6 DEF Finding, Filling, Removing, Deleting
  <2>2. Tasks'
    BY <1>6, <2>1, OtherTasks, TasksOf
  <2>. QED BY <1>6, <2>2 DEF TreeInv
<1>7. CASE ReadDeletedBlock(w)
  <2>1. /\ pc[w] = "read block" /\ UNCHANGED <<disk, loc>> /\ pc'[w] \in {"leave", "delete entries"}
        /\ dataBlockBuffer' = IF Frame(w).block = 0 THEN dataBlockBuffer ELSE disk.data[Frame(w).block]
    BY <1>1, <1>7, Went DEF ReadDeletedBlock, At
  <2>2. PICK s : s = dataBlockBuffer'
    OBVIOUS
  <2>3. Orphans(s)
    BY <1>1, <2>1, <2>2 DEF DeletingTask
  <2>4. Quiet /\ Shape' /\ TwiceInv' /\ (UsedInv => UsedInv') /\ \A x : Orphan(x) => Orphan(x)'
    BY <1>5, <2>1 DEF Between
  <2>5. Orphans(dataBlockBuffer)'
    BY <2>2, <2>3, <2>4 DEF Orphans, Holds, Orphan
  <2>6. Orphan(loc[w].num)'
    BY <1>3, <2>1, <2>4 DEF Orphan
  <2>7. DeletingTask(w)'
    BY <2>1, <2>5, <2>6 DEF DeletingTask
  <2>. QED BY <1>6, <2>1, <2>4, <2>7 DEF Deleting
<1>8. ASSUME UNCHANGED <<disk, dataBlockBuffer>>, pc[w] # "read block", ~Between(w)' PROVE Orphans(dataBlockBuffer)'
  <2>1. Orphans(dataBlockBuffer)
    BY <1>1, <1>2, <1>8 DEF DeletingTask
  <2>. QED BY <1>5, <1>8, <2>1 DEF Orphans, Holds, Orphan
<1>9. CASE DeleteEntries(w)
  <2>. DEFINE pos == Frame(w).pos
              n   == dataBlockBuffer[pos].iNum
  <2>1. pc[w] = "delete entries" /\ UNCHANGED <<disk, dataBlockBuffer>>
    BY <1>9 DEF DeleteEntries, At, globals
  <2>2. CASE ~ (pos > Len(dataBlockBuffer)) /\ IsDeletable(dataBlockBuffer[pos])
    <3>1. pc'[w] = "delete inode" /\ loc'[w] = [l EXCEPT !.num = n, !.block = Inode(n).block,
                                                         !.table = TableWith(n, FreeInode)]
      BY <1>1, <1>9, <2>2, Went DEF DeleteEntries, TableWith
    <3>2. ~Between(w)'
      BY <3>1 DEF Between
    <3>3. Orphans(dataBlockBuffer)'
      BY <1>8, <2>1, <3>2
    <3>4. pos \in DOMAIN dataBlockBuffer
      <4>1. Len(dataBlockBuffer) \in Nat /\ DOMAIN dataBlockBuffer = 1 .. Len(dataBlockBuffer)
        BY <1>1, LenProperties DEF Files
      <4>2. pos \in Nat \ {0}
        BY <1>3
      <4>. HIDE DEF pos
      <4>. QED BY <2>2, <4>1, <4>2
    <3>5. PICK y : y = n
      OBVIOUS
    <3>6. y \in Inodes /\ Holds(dataBlockBuffer, y)
      BY <1>1, <2>2, <3>4, <3>5, FileEntries DEF Holds, IsDeletable
    <3>7. Orphan(y)
      BY <1>1, <2>1, <3>6 DEF DeletingTask, Deleting, Orphans
    <3>8. Orphan(y)'
      BY <1>5, <2>1, <3>2, <3>7
    <3>9. loc'[w].num = y
      <4>. HIDE DEF n
      <4>. QED BY <1>1, <3>1, <3>5 DEF CallType
    <3>10. Orphan(loc[w].num)'
      BY <3>8, <3>9 DEF Orphan
    <3>11. DeletingTask(w)'
      BY <3>1, <3>3, <3>10 DEF DeletingTask
    <3>. QED BY <1>5, <1>6, <2>1, <3>1, <3>2, <3>11 DEF Deleting
  <2>3. CASE ~ (~ (pos > Len(dataBlockBuffer)) /\ IsDeletable(dataBlockBuffer[pos]))
    <3>1. pc'[w] \in {"leave", "delete entries"} /\ loc'[w].num = l.num
      <4>1. \/ pc'[w] = "leave" /\ loc' = loc
            \/ pc'[w] = pc[w] /\ SetFrame(w, pos + 1)
        BY <1>1, <1>9, <2>3, Went DEF DeleteEntries
      <4>2. SetFrame(w, pos + 1) => \E fs : loc'[w] = [l EXCEPT !.frames = fs]
        BY <1>1, Went DEF SetFrame
      <4>. QED BY <1>1, <2>1, <4>1, <4>2 DEF CallType
    <3>2. ~Between(w)'
      BY <3>1 DEF Between
    <3>3. Orphans(dataBlockBuffer)'
      BY <1>8, <2>1, <3>2
    <3>4. Orphan(loc[w].num)'
      BY <1>3, <1>5, <2>1, <3>1, <3>2 DEF Orphan
    <3>5. DeletingTask(w)'
      BY <3>1, <3>3, <3>4 DEF DeletingTask
    <3>. QED BY <1>5, <1>6, <2>1, <3>1, <3>2, <3>5 DEF Deleting
  <2>. QED BY <2>2, <2>3
<1>10. CASE Leave(w)
  <2>1. /\ pc[w] = "leave" /\ UNCHANGED <<disk, dataBlockBuffer>>
        /\ pc'[w] \in {"idle", "delete entries"}
        /\ pc'[w] = "delete entries" => \E fs : loc'[w] = [l EXCEPT !.frames = fs]
    BY <1>1, <1>10, Went DEF Leave, At, globals
  <2>2. ~Between(w)'
    BY <2>1 DEF Between
  <2>3. Orphans(dataBlockBuffer)'
    BY <1>8, <2>1, <2>2
  <2>4. CASE pc'[w] = "idle"
    BY <1>5, <2>1, <2>2, <2>4, IdleTasks DEF TreeInv
  <2>5. CASE pc'[w] = "delete entries"
    <3>1. loc'[w].num = l.num
      BY <1>1, <2>1, <2>5 DEF CallType
    <3>2. Orphan(loc[w].num)'
      <4>1. PICK y : y = l.num
        OBVIOUS
      <4>2. Orphan(y)'
        BY <1>3, <1>5, <2>1, <2>2, <4>1
      <4>. QED BY <3>1, <4>1, <4>2
    <3>3. DeletingTask(w)'
      BY <2>3, <2>5, <3>2 DEF DeletingTask
    <3>. QED BY <1>5, <1>6, <2>1, <2>2, <2>5, <3>3 DEF Deleting
  <2>. QED BY <2>1, <2>4, <2>5
<1>11. CASE DeleteInode(w)
  <2>. DEFINE f == [block |-> l.block, pos |-> 1]
  <2>0. PICK k, b : k = l.num /\ b = l.block
    OBVIOUS
  <2>1. /\ pc[w] = "delete inode" /\ pc'[w] = "read block"
        /\ loc'[w] = [l EXCEPT !.table = <<>>, !.frames = Append(@, f)]
        /\ dataBlockBuffer' = RemoveAt(dataBlockBuffer, Frame(w).pos)
        /\ disk' = IF IsUsed(k) THEN [disk EXCEPT !.itable[TableBlock(k)] = l.table] ELSE disk
    BY <1>1, <1>11, <2>0, Went DEF DeleteInode, At
  <2>2. /\ k \in Inodes \ {0} /\ l.table = TableWith(k, FreeInode) /\ b = Inode(k).block
        /\ Frame(w).pos <= Len(dataBlockBuffer) /\ Orphan(k) /\ Orphans(dataBlockBuffer)
    BY <1>1, <1>2, <1>3, <2>0, <2>1 DEF DeletingInv, DeletingTask, Deleting
  <2>3. Frame(w)'.block = b /\ loc'[w].num = k
    <3>1. f \in F /\ f.block = b
      BY <1>2, <2>0
    <3>. HIDE DEF f
    <3>2. loc'[w].frames = Append(l.frames, f) /\ loc'[w].num = k
      BY <1>1, <2>0, <2>1 DEF CallType
    <3>3. Frame(w)' = f
      BY <1>2, <3>1, <3>2, FramesAre DEF Frame
    <3>. QED BY <3>1, <3>2, <3>3
  <2>4. \A n \in Dirs : \A i \in Behind(n) : Child(n, i) \in Inodes /\ Child(n, i) # k
    BY <1>1, <2>2, ChildIs DEF Orphan
  <2>5. ~Between(w)' /\ \A n, x : ~Pending(n, x)'
    BY <2>1, PendingIs DEF Between
  <2>6. /\ Quiet /\ Shape' /\ TwiceInv' /\ (UsedInv => UsedInv') /\ \A x : Orphan(x) => Orphan(x)'
        /\ b # 0 => disk'.data[b] = disk.data[b] /\ \A x : Holds(disk.data[b], x) => Orphan(x)'
    <3>1. CASE IsUsed(k)
      <4>1. disk' = [disk EXCEPT !.itable[TableBlock(k)] = TableWith(k, FreeInode)]
        BY <2>1, <2>2, <3>1
      <4>2. /\ \A n \in Inodes : Inode(n)' = IF n = k THEN FreeInode ELSE Inode(n)
            /\ Dirs' = Dirs \ {k} /\ disk'.data = disk.data
            /\ \A n \in Dirs' : /\ Entries(n)' = Entries(n) /\ Behind(n)' = Behind(n)
                                /\ \A i : Child(n, i)' = Child(n, i)
            /\ \A x : Orphan(x) => Orphan(x)'
            /\ Inode(k).mode # "none" => \A x : Holds(disk.data[b], x) => Orphan(x)'
            /\ Shape'
        BY <1>1, <2>2, <4>1, Freed
      <4>3. b # 0 => Inode(k).mode # "none"
        BY <1>1, <2>2 DEF ClearedInodes, InodesInv, IsFree, ZeroInode, FreeInode
      <4>4. ASSUME UsedInv PROVE UsedInv'
        <5>1. ASSUME NEW n \in Dirs', NEW i \in Behind(n)'
              PROVE  \E c : c = Child(n, i)' /\ Inode(c)'.mode # "none"
          BY <1>4, <2>4, <4>2, <4>4 DEF UsedInv
        <5>. QED BY <5>1 DEF UsedInv, Inode
      <4>5. ASSUME NEW n, NEW c \in Inodes \ {k}
            PROVE  Inode(c)' = Inode(c) /\ (Lost(n, c)' <=> Lost(n, c))
        BY <1>4, <2>5, <4>2 DEF Lost
      <4>6. TwiceInv'
        <5>1. \A n \in Dirs' : n \in Dirs
          BY <4>2
        <5>2. ASSUME NEW n \in Dirs, NEW i \in Behind(n)
              PROVE  \E c : /\ c = Child(n, i)
                            /\ Lost(n, c) => Lost(n, c)'
          BY <2>4, <4>5
        <5>. QED BY <1>1, <4>2, <5>1, <5>2, TwiceSame
      <4>7. ASSUME NEW n \in Dirs', NEW v \in Names
            PROVE  /\ \E m : /\ m = Seen(n, v) /\ m = Seen(n, v)'
                             /\ m # -1 => Inode(m)'.mode = Inode(m).mode
                   /\ Spoils(n, v)' <=> Spoils(n, v)
        <5>1. PICK m : m = Lookup(Entries(n), v)
          OBVIOUS
        <5>2. n \in Dirs /\ m = Lookup(Entries(n)', v)
          BY <4>2, <5>1
        <5>3. m = -1 \/ m \in Inodes \ {k}
          <6>1. n \in Dirs
            BY <5>2
          <6>2. m = -1 \/ \E i \in Behind(n) : m = Child(n, i)
            BY <1>1, <5>1, <6>1, NamedIs
          <6>. QED BY <2>4, <6>1, <6>2
        <5>4. m # -1 => Inode(m)' = Inode(m) /\ (Lost(n, m)' <=> Lost(n, m))
          BY <4>5, <5>3
        <5>5. Seen(n, v) = IF m # -1 /\ Inode(m).mode # "none" THEN m ELSE -1
          BY <5>1 DEF Seen
        <5>6. Seen(n, v)' = IF m # -1 /\ Inode(m)'.mode # "none" THEN m ELSE -1
          BY <5>2 DEF Seen, Inode
        <5>7. Spoils(n, v) <=> m # -1 /\ Lost(n, m)
          BY <5>1 DEF Spoils
        <5>8. Spoils(n, v)' <=> m # -1 /\ Lost(n, m)'
          BY <5>2 DEF Spoils, Lost, Pending, Inode
        <5>. QED BY <5>4, <5>5, <5>6, <5>7, <5>8
      <4>8. Quiet
        BY <2>2, <4>2, <4>7 DEF Quiet, Same, SpoiledSame
      <4>. QED BY <4>2, <4>3, <4>4, <4>6, <4>8
    <3>2. CASE ~IsUsed(k)
      <4>1. UNCHANGED disk
        BY <2>1, <3>2
      <4>2. b = 0
        BY <1>1, <2>2, <3>2 DEF ClearedInodes, InodesInv, IsFree, ZeroInode, FreeInode, IsUsed
      <4>. QED BY <1>5, <2>5, <4>1, <4>2
    <3>. QED BY <3>1, <3>2
  <2>7. Orphans(dataBlockBuffer)'
    <3>1. Frame(w).pos \in DOMAIN dataBlockBuffer
      <4>1. Len(dataBlockBuffer) \in Nat /\ DOMAIN dataBlockBuffer = 1 .. Len(dataBlockBuffer)
        BY <1>1, LenProperties DEF Files
      <4>2. Frame(w).pos \in Nat \ {0}
        BY <1>3
      <4>. QED BY <2>2, <4>1, <4>2
    <3>2. PICK s : s = dataBlockBuffer'
      OBVIOUS
    <3>3. \A x : Holds(s, x) => Holds(dataBlockBuffer, x)
      BY <1>1, <2>1, <3>1, <3>2, HoldsLess
    <3>4. \A x \in Inodes : Holds(s, x) => Orphan(x)'
      BY <2>2, <2>6, <3>3 DEF Orphans
    <3>. QED BY <3>2, <3>4 DEF Orphans, Holds, Orphan
  <2>8. b # 0 => Orphans(disk.data[Frame(w).block])'
    <3>1. ASSUME b # 0 PROVE \E s : s = disk'.data[Frame(w)'.block] /\ \A x : Holds(s, x) => Orphan(x)'
      BY <2>3, <2>6, <3>1
    <3>. QED BY <3>1 DEF Orphans, Holds, Orphan
  <2>9. Orphan(loc[w].num)'
    BY <2>2, <2>3, <2>6 DEF Orphan
  <2>10. DeletingTask(w)'
    BY <2>1, <2>3, <2>7, <2>8, <2>9 DEF DeletingTask
  <2>. QED BY <1>6, <2>1, <2>6, <2>10 DEF Deleting
<1>. QED BY <1>7, <1>9, <1>10, <1>11

\* A request begins.
LEMMA StartTree ==
  ASSUME ClearedInv, TreeInv, OneRequest, NEW w \in Workers, Request(w)
  PROVE  Quiet /\ TreeInv' /\ (UsedInv => UsedInv')
<1>1. /\ Types /\ ClearedInodes /\ EntriesInv /\ Shape /\ DotsInv /\ ChildrenInv /\ PlacesRight
  BY PlaceRules DEF ClearedInv, ClearedInodes, FSInv, DiskInv, TreeInv, Shape
<1>2. UNCHANGED disk /\ pc[w] = "idle" /\ pc'[w] \in {"find inode", "read inode"}
  BY <1>1, Went DEF Request, StartCreate, StartRemove, Begin, At
<1>3. \A n, x : Pending(n, x)' <=> Pending(n, x)
  <2>1. ~Between(w) /\ ~Between(w)'
    BY <1>2 DEF Between
  <2>. QED BY <2>1, PendingIs
<1>4. Kept
  BY <1>2, PathKept DEF Kept
<1>5. Quiet /\ Shape' /\ TwiceInv' /\ (UsedInv => UsedInv')
  BY <1>3, <1>4, KeptTree
<1>6. ASSUME NEW path \in Paths, NEW call \in {"create", "mkdir"}, StartCreate(w, call, path)
      PROVE  TreeInv'
  <2>1. pc'[w] = "find inode" /\ loc'[w] = [NoCall EXCEPT !.call = call, !.path = path]
    BY <1>1, <1>6, Went DEF StartCreate, Begin
  <2>2. loc'[w].path = path /\ loc'[w].num = 0
    BY <2>1 DEF NoCall
  <2>3. PICK d, x : d = Place(path) /\ x = Last(path)
    OBVIOUS
  <2>4. ~Exists(path) /\ d \in Dirs /\ d \in Inodes /\ d # -1
    <3>1. /\ Exists(Directory(path)) /\ InodeFromPath(Directory(path)) \in Inodes
          /\ Kind(Directory(path)) = "dir" /\ ~Exists(path)
      BY <1>1, <1>6, DirectoryFound DEF StartCreate
    <3>2. d = InodeFromPath(Directory(path)) /\ d \in Dirs
      BY <2>3, <3>1 DEF Place, Kind, Dirs
    <3>. QED BY <3>1, <3>2, Numbers
  <2>5. Seen(d, x) = -1
    BY <1>1, <2>3, <2>4 DEF PlacesRight
  <2>6. Seen(d, x)' = -1 /\ Place(path)' = d
    BY <1>4, <2>3, <2>4, <2>5, ShapeKept
  <2>7. d = Place(loc[w].path)' /\ x = Last(loc[w].path)'
    BY <2>2, <2>3, <2>6
  <2>8. MakingTask(w)'
    BY <2>1, <2>2, <2>4, <2>6, <2>7 DEF MakingTask, Filling
  <2>9. pc'[w] \notin Removing \cup Deleting
    BY <2>1 DEF Removing, Deleting
  <2>10. Tasks'
    BY <2>8, <2>9, OtherTasks, TasksOf
  <2>. QED BY <1>5, <2>10 DEF TreeInv
<1>7. ASSUME NEW path \in Paths, NEW call \in {"unlink", "rmdir"}, StartRemove(w, call, path)
      PROVE  TreeInv'
  <2>1. PICK n, d, x : n = InodeFromPath(path) /\ d = InodeFromPath(Directory(path)) /\ x = Last(path)
    OBVIOUS
  <2>2. /\ pc'[w] = "read inode" /\ Exists(path)
        /\ Inode(n).mode = (IF call = "rmdir" THEN "dir" ELSE "file")
        /\ loc'[w] = [NoCall EXCEPT !.call = call, !.path = path, !.num = n,
                                    !.block = Inode(n).block, !.dir = d]
    BY <1>1, <1>7, <2>1, Went DEF StartRemove, Begin, Kind
  <2>3. /\ loc'[w].call = call /\ loc'[w].num = n /\ loc'[w].block = Inode(n).block /\ loc'[w].dir = d
        /\ loc'[w].path = path
    BY <2>2 DEF NoCall
  <2>4. /\ d = Place(path) /\ d \in Dirs /\ d \in Inodes /\ n = Lookup(Entries(d), x) /\ n \in Inodes
    <3>1. Place(path) # -1
      BY <1>1, <2>2 DEF PlacesRight
    <3>2. d = Place(path) /\ d \in Dirs /\ n = Lookup(Entries(d), x)
      BY <1>1, <2>1, <3>1 DEF PlacesRight
    <3>3. n \in Inodes
      BY <1>1, <2>1, <2>2, PathFound
    <3>. QED BY <3>2, <3>3 DEF Dirs
  <2>5. Dotted(d, 0)
    <3>1. ASSUME NEW a \in Names, path = <<a>> PROVE Dotted(d, 0)
      <4>1. d = 0
        BY <1>1, <2>4, <3>1, Numbers DEF PlacesRight, Dirs
      <4>. QED BY <1>1, <2>4, <4>1 DEF DotsInv
    <3>2. ASSUME NEW a \in Names, NEW b \in Names, path = <<a, b>> PROVE Dotted(d, 0)
      <4>1. 0 \in Dirs /\ d = Seen(0, a) /\ d # -1
        BY <1>1, <2>4, <3>2, Numbers DEF PlacesRight, Dirs
      <4>2. d = Lookup(Entries(0), a)
        BY <4>1 DEF Seen
      <4>3. PICK i \in Behind(0) : d = Child(0, i)
        BY <1>1, <4>1, <4>2, NamedIs
      <4>. QED BY <1>1, <2>4, <4>1, <4>3 DEF ChildrenInv
    <3>. QED BY <3>1, <3>2, PathNames
  <2>6. /\ d \in Dirs' /\ d = Place(path)' /\ Dotted(d, 0)' /\ Lookup(Entries(d)', x) = n
        /\ Inode(n)' = Inode(n)
    BY <1>4, <2>4, <2>5, ShapeKept DEF Kept
  <2>7. /\ (loc[w].dir \in Dirs)' /\ loc'[w].dir = Place(loc[w].path)' /\ Dotted(loc[w].dir, 0)'
        /\ Lookup(Entries(loc[w].dir), Last(loc[w].path))' = loc'[w].num
        /\ Inode(loc[w].num)' = Inode(n)
    <3>1. loc'[w].dir = Place(loc[w].path)' /\ (loc[w].dir \in Dirs)'
      BY <2>3, <2>6
    <3>2. Dotted(loc[w].dir, 0)' /\ Inode(loc[w].num)' = Inode(n)
      BY <2>3, <2>6 DEF Dotted, Inode
    <3>3. Lookup(Entries(loc[w].dir), Last(loc[w].path))' = loc'[w].num
      BY <2>1, <2>3, <2>6
    <3>. QED BY <3>1, <3>2, <3>3
  <2>8. RemovingTask(w)'
    BY <2>2, <2>3, <2>7 DEF RemovingTask
  <2>9. pc'[w] \notin Finding \cup Filling \cup Deleting
    BY <2>2 DEF Finding, Filling, Deleting
  <2>10. Tasks'
    BY <2>8, <2>9, OtherTasks, TasksOf
  <2>. QED BY <1>5, <2>10 DEF TreeInv
<1>. QED BY <1>5, <1>6, <1>7 DEF Request
-----------------------------------------------------------------------------
(***************************************************************************)
(* Mounts and crashes.                                                     *)
(***************************************************************************)
Bare  == ~disk.super \/ mount \in Formatting
Blank == \A n \in Dirs : Behind(n) = {}

\* Until sfs_init is done there are no names.
LEMMA BlankTree ==
  DotsInv /\ Blank /\ (\A w \in Workers : pc[w] = "idle") => TreeInv /\ UsedInv
<1>. SUFFICES ASSUME DotsInv, Blank, \A w \in Workers : pc[w] = "idle"
              PROVE  TreeInv /\ UsedInv
  OBVIOUS
<1>1. ChildrenInv /\ OnceInv /\ TwiceInv /\ UsedInv
  BY DEF Blank, ChildrenInv, OnceInv, TwiceInv, UsedInv
<1>2. Tasks
  BY DEF Tasks, MakingTask, RemovingTask, DeletingTask, Finding, Filling, Removing, Deleting
<1>. QED BY <1>1, <1>2 DEF TreeInv, Shape

\* The root, where it is made and has its dots only.
LEMMA RootOnly ==
  (\A n \in Dirs : n = 0 /\ Entries(0) = DotEntries(0, 0)) => DotsInv /\ Blank
<1>. SUFFICES ASSUME \A n \in Dirs : n = 0 /\ Entries(0) = DotEntries(0, 0) PROVE DotsInv /\ Blank
  OBVIOUS
<1>1. ASSUME NEW n \in Dirs PROVE n = 0 /\ n \in Inodes /\ Dotted(n, 0) /\ Behind(n) = {}
  <2>1. n = 0 /\ n \in Inodes /\ Entries(n) = DotEntries(0, 0)
    BY DEF Dirs
  <2>. QED BY <2>1, DotsAre DEF Dotted, Behind
<1>. QED BY <1>1 DEF DotsInv, Blank

LEMMA BareTree == ClearedInv /\ Bare => TreeInv /\ UsedInv /\ Blank
<1>. SUFFICES ASSUME ClearedInv, Bare PROVE TreeInv /\ UsedInv /\ Blank
  OBVIOUS
<1>1. Types /\ FormatInv
  BY DEF ClearedInv, ClearedInodes, FSInv, DiskInv
<1>2. /\ \A n \in Inodes :
            \/ mount = "inode table" /\ n = 0 /\ Inode(n) = NewInode("dir", format.block)
            \/ Inode(n) \in {FreeInode, ZeroInode}
      /\ mount = "inode table" => disk.data[format.block] = DotEntries(0, 0)
  <2>1. TableCleared
    BY DEF ClearedInv
  <2>2. ASSUME NEW n \in Inodes
        PROVE  \/ mount = "inode table" /\ n = 0 /\ Inode(n) = NewInode("dir", format.block)
               \/ Inode(n) \in {FreeInode, ZeroInode}
    BY <1>1, <2>1 DEF Bare, FormatInv, IsFree
  <2>3. mount = "inode table" => disk.data[format.block] = DotEntries(0, 0)
    <3>1. mount = "inode table" => format.block \in Blocks
      BY <1>1 DEF Types, FormatInv
    <3>. QED BY <1>1, <3>1 DEF Bare, FormatInv
  <2>. QED BY <2>2, <2>3
<1>3. \A n \in Dirs : n = 0 /\ Entries(0) = DotEntries(0, 0)
  <2>1. ASSUME NEW n \in Dirs
        PROVE  n = 0 /\ Inode(0) = NewInode("dir", format.block) /\ mount = "inode table"
    <3>1. n \in Inodes /\ Inode(n).mode # "none"
      BY DEF Dirs
    <3>2. FreeInode.mode = "none" /\ ZeroInode.mode = "none"
      BY DEF FreeInode, ZeroInode
    <3>3. Inode(n) \notin {FreeInode, ZeroInode}
      BY <3>1, <3>2
    <3>. QED BY <1>2, <3>1, <3>3
  <2>2. NewInode("dir", format.block).mode = "dir" /\ NewInode("dir", format.block).block = format.block
    BY DEF NewInode
  <2>. QED BY <1>2, <2>1, <2>2 DEF Entries
<1>4. \A w \in Workers : pc[w] = "idle"
  BY <1>1 DEF Bare, FormatInv, Types, Formatting
<1>. QED BY <1>3, <1>4, RootOnly, BlankTree

LEMMA NoNames ==
  ClearedInv /\ Shape /\ Blank =>
    \A q \in Paths : ~Exists(q) /\ (Place(q) # -1 => ~Spoils(Place(q), Last(q)))
<1>. SUFFICES ASSUME ClearedInv, Shape, Blank, NEW q \in Paths
              PROVE  ~Exists(q) /\ (Place(q) # -1 => ~Spoils(Place(q), Last(q)))
  OBVIOUS
<1>1. PlacesRight /\ Types /\ ClearedInodes /\ EntriesInv /\ DotsInv /\ ChildrenInv
  BY PlaceRules DEF ClearedInv, ClearedInodes, FSInv, DiskInv, Shape
<1>2. PICK d, x : d = Place(q) /\ x = Last(q)
  OBVIOUS
<1>3. x \in Names
  BY <1>2, PathIs
<1>4. d # -1 => Seen(d, x) = -1 /\ ~Spoils(d, x)
  <2>1. ASSUME d # -1 PROVE d \in Dirs
    BY <1>1, <1>2, <2>1 DEF PlacesRight
  <2>. QED BY <1>1, <1>3, <2>1, NamedIs DEF Blank
<1>. QED BY <1>1, <1>2, <1>4 DEF PlacesRight

\* The last block of the table is written.
LEMMA FormattedTree ==
  ASSUME ClearedInv, FormatInodeTable, mount' = "mounted"
  PROVE  TreeInv' /\ UsedInv' /\ Blank' /\ 0 \in Dirs'
<1>. DEFINE k == format.next
            new(n) == IF n = 0 THEN NewInode("dir", format.block) ELSE FreeInode
            fresh == [j \in 0 .. (NINODES_BLOCK - 1) |->
                        IF k = 0 /\ j = 0 THEN NewInode("dir", format.block) ELSE FreeInode]
<1>1. /\ Types /\ FormatInv /\ disk \in DiskType
      /\ format \in [block : Blocks, next : 0 .. (NUM_INODE_BLOCKS - 1)]
  BY DEF ClearedInv, ClearedInodes, FSInv, DiskInv, Types
<1>2. /\ mount = "inode table" /\ disk' = [disk EXCEPT !.itable[k] = fresh] /\ pc' = pc
      /\ k + 1 = NUM_INODE_BLOCKS
  <2>1. PICK left \in [0 .. (NINODES_BLOCK - 1) -> Leftovers] :
           disk' = [disk EXCEPT !.itable[k] =
                      [j \in 0 .. (NINODES_BLOCK - 1) |->
                         IF k = 0 /\ j = 0 THEN NewInode("dir", format.block)
                         ELSE [size |-> -1, mode |-> left[j].mode, block |-> left[j].block]]]
    BY DEF FormatInodeTable
  <2>2. TableCleared
    BY DEF ClearedInv
  <2>3. ASSUME NEW j \in 0 .. (NINODES_BLOCK - 1)
        PROVE  [size |-> -1, mode |-> left[j].mode, block |-> left[j].block] = FreeInode
    <3>1. left[j] = [mode |-> "none", block |-> 0]
      BY <2>2 DEF TableCleared
    <3>. QED BY <3>1 DEF FreeInode
  <2>4. [j \in 0 .. (NINODES_BLOCK - 1) |->
           IF k = 0 /\ j = 0 THEN NewInode("dir", format.block)
           ELSE [size |-> -1, mode |-> left[j].mode, block |-> left[j].block]] = fresh
    BY <2>3
  <2>. QED BY <2>1, <2>4 DEF FormatInodeTable, Format
<1>3. /\ k \in 0 .. (NUM_INODE_BLOCKS - 1) /\ NUM_INODE_BLOCKS \in Nat
      /\ \A n \in Inodes : TableBlock(n) \in 0 .. (NUM_INODE_BLOCKS - 1)
  BY <1>1, Numbers, Places
<1>4. /\ \A n \in Inodes : TableBlock(n) < k => Inode(n) = new(n)
      /\ \A b \in Blocks : disk.data[b] = IF b = format.block THEN DotEntries(0, 0) ELSE <<>>
  BY <1>1, <1>2 DEF FormatInv, Formatting, IsFree, ClearedInv
<1>5. disk'.data = disk.data /\ disk'.itable = [disk.itable EXCEPT ![k] = fresh]
  <2>. HIDE DEF fresh, k
  <2>. QED BY <1>1, <1>2 DEF DiskType
<1>6. \A n \in Inodes : Inode(n)' = new(n)
  <2>1. ASSUME NEW n \in Inodes PROVE Inode(n)' = new(n)
    <3>1. /\ TableBlock(n) \in 0 .. (NUM_INODE_BLOCKS - 1)
          /\ TableIndex(n) \in 0 .. (NINODES_BLOCK - 1)
          /\ n = 0 <=> TableBlock(n) = 0 /\ TableIndex(n) = 0
      BY Places, Numbers
    <3>2. disk.itable \in [0 .. (NUM_INODE_BLOCKS - 1) -> TableType]
      BY <1>1 DEF DiskType
    <3>3. CASE TableBlock(n) = k
      BY <1>3, <1>5, <3>1, <3>2, <3>3 DEF Inode
    <3>4. CASE TableBlock(n) # k
      <4>1. TableBlock(n) < k
        <5>. DEFINE t == TableBlock(n)  N == NUM_INODE_BLOCKS
        <5>1. k \in 0 .. (N - 1) /\ N \in Nat /\ t \in 0 .. (N - 1)
          BY <1>3
        <5>2. k + 1 = N /\ t # k
          BY <1>2, <3>4
        <5>. HIDE DEF k, t, N
        <5>3. t < k
          BY <5>1, <5>2
        <5>. QED BY <5>3 DEF t
      <4>2. Inode(n)' = Inode(n)
        BY <1>3, <1>5, <3>1, <3>2, <3>4 DEF Inode
      <4>. QED BY <1>4, <4>1, <4>2
    <3>. QED BY <3>3, <3>4
  <2>. QED BY <2>1
<1>7. /\ format.block \in Blocks /\ 0 \in Inodes
      /\ NewInode("dir", format.block).mode = "dir" /\ NewInode("dir", format.block).block = format.block
  BY <1>1, Numbers DEF NewInode
<1>8. Dirs' = {0}
  BY <1>6, <1>7 DEF Dirs, FreeInode
<1>9. Entries(0)' = DotEntries(0, 0)
  BY <1>4, <1>5, <1>6, <1>7 DEF Entries
<1>10. DotsInv' /\ Blank'
  <2>1. (\A n \in Dirs : n = 0 /\ Entries(0) = DotEntries(0, 0))'
    BY <1>8, <1>9
  <2>2. (\A n \in Dirs : n = 0 /\ Entries(0) = DotEntries(0, 0))' => DotsInv' /\ Blank'
    BY RootOnly, PTL
  <2>. QED BY <2>1, <2>2
<1>11. (\A w \in Workers : pc[w] = "idle")'
  BY <1>1, <1>2 DEF Types
<1>12. DotsInv' /\ Blank' /\ (\A w \in Workers : pc[w] = "idle")' => TreeInv' /\ UsedInv'
  BY BlankTree, PTL
<1>. QED BY <1>8, <1>10, <1>11, <1>12
LEMMA FormatTree ==
  ASSUME ClearedInv, ClearedInv', MountStep, ~Mount
  PROVE  /\ Shape /\ Blank /\ TreeInv' /\ UsedInv' /\ Blank'
         /\ mount' # "unmounted" /\ (mount' = "mounted" => 0 \in Dirs')
<1>1. Bare /\ mount' \in Formatting \cup {"mounted"} /\ (mount' = "mounted" => FormatInodeTable)
  BY DEF MountStep, FormatSuper, FormatInodeBitmap, FormatBlockBitmaps,
     FormatFirstBlockBitmap, FormatRootBlock, FormatRootEntries, FormatInodeTable, Format,
     Bare, Formatting
<1>2. Shape /\ Blank
  BY <1>1, BareTree DEF TreeInv
<1>3. CASE mount' \in Formatting
  <2>1. (ClearedInv /\ Bare)' => TreeInv' /\ UsedInv' /\ Blank'
    BY BareTree, PTL
  <2>2. Bare'
    BY <1>3 DEF Bare
  <2>. QED BY <1>2, <1>3, <2>1, <2>2 DEF Formatting
<1>4. CASE mount' = "mounted"
  BY <1>1, <1>2, <1>4, FormattedTree
<1>. QED BY <1>1, <1>3, <1>4

LEMMA IdlePending ==
  ASSUME \A w \in Workers : pc[w] = "idle"
  PROVE  \A n, x : ~Pending(n, x)
  BY DEF Pending, Between

LEMMA MountTree ==
  ASSUME ClearedInv, TreeInv, Mount
  PROVE  Quiet /\ TreeInv' /\ (UsedInv => UsedInv')
<1>1. UNCHANGED disk /\ mount = "unmounted" /\ UNCHANGED <<pc, loc>>
  BY DEF Mount, Format
<1>2. Kept
  BY <1>1, PathKept DEF Kept
<1>3. \A w \in Workers : pc'[w] = "idle"
  BY <1>1 DEF ClearedInv, ClearedInodes, FSInv, Types
<1>4. \A n, x : Pending(n, x)' <=> Pending(n, x)
  BY <1>1 DEF Pending, Between
<1>5. Quiet /\ Shape' /\ TwiceInv' /\ (UsedInv => UsedInv')
  BY <1>2, <1>4, KeptTree
<1>6. Tasks'
  <2>1. ASSUME NEW w \in Workers PROVE MakingTask(w)' /\ RemovingTask(w)' /\ DeletingTask(w)'
    BY <1>3, OtherTasks DEF Finding, Filling, Removing, Deleting
  <2>. QED BY <2>1 DEF Tasks
<1>. QED BY <1>5, <1>6 DEF TreeInv

\* What was lost stays lost, and what was pending is now.
LEMMA CrashTree ==
  ASSUME ClearedInv, TreeInv, Crash
  PROVE  Kept /\ TreeInv' /\ \A n, x : ~Pending(n, x)'
<1>1. UNCHANGED disk /\ pc' = [w \in Workers |-> "idle"]
  BY DEF Crash
<1>2. Kept
  BY <1>1, PathKept DEF Kept
<1>3. \A n, x : ~Pending(n, x)'
  BY <1>1 DEF Pending, Between
<1>4. Types /\ ClearedInodes /\ EntriesInv /\ DotsInv /\ ChildrenInv /\ Shape /\ TwiceInv
  BY DEF ClearedInv, ClearedInodes, FSInv, DiskInv, TreeInv, Shape
<1>5. Shape' /\ TwiceInv'
  BY <1>2, <1>3, <1>4, ShapeKept, TwiceKept
<1>6. Tasks'
  <2>1. ASSUME NEW w \in Workers PROVE MakingTask(w)' /\ RemovingTask(w)' /\ DeletingTask(w)'
    BY <1>1, OtherTasks DEF Finding, Filling, Removing, Deleting
  <2>. QED BY <2>1 DEF Tasks
<1>. QED BY <1>2, <1>3, <1>5, <1>6 DEF TreeInv

LEMMA StutterTree ==
  ASSUME ClearedInv, TreeInv, UNCHANGED vars
  PROVE  Quiet /\ TreeInv' /\ (UsedInv => UsedInv')
<1>1. UNCHANGED <<disk, mount, pc, loc, dataBlockBuffer>>
  BY DEF vars
<1>2. Kept
  BY <1>1, PathKept DEF Kept
<1>3. \A n, x : Pending(n, x)' <=> Pending(n, x)
  BY <1>1 DEF Pending, Between
<1>4. Quiet /\ Shape' /\ TwiceInv' /\ (UsedInv => UsedInv')
  BY <1>2, <1>3, KeptTree
<1>6. /\ \A n : Inode(n)' = Inode(n) /\ Entries(n)' = Entries(n) /\ Behind(n)' = Behind(n)
      /\ \A n, x : Seen(n, x)' = Seen(n, x) /\ Dotted(n, x)' = Dotted(n, x)
      /\ Dirs' = Dirs /\ \A t : Orphans(t)' = Orphans(t)
  <2>1. \A n : Inode(n)' = Inode(n) /\ Entries(n)' = Entries(n)
    BY <1>1, PathKept
  <2>2. \A t : Orphans(t)' = Orphans(t)
    BY <1>2, ShapeKept DEF Orphans
  <2>. QED BY <1>2, <2>1, <2>2, ShapeKept DEF Behind, Seen, Dotted
<1>5. ASSUME NEW w \in Workers PROVE MakingTask(w)' /\ RemovingTask(w)' /\ DeletingTask(w)'
  <2>1. MakingTask(w) /\ RemovingTask(w) /\ DeletingTask(w)
    BY DEF TreeInv, Tasks
  <2>2. PICK l : l = loc[w]
    OBVIOUS
  <2>3. PICK d : d = Place(l.path) /\ d = Place(l.path)'
    BY <1>2, ShapeKept
  <2>4. MakingTask(w)'
    BY <1>1, <1>6, <2>1, <2>2, <2>3 DEF MakingTask
  <2>5. RemovingTask(w)'
    BY <1>1, <1>6, <2>1, <2>2, <2>3 DEF RemovingTask
  <2>6. DeletingTask(w)'
    <3>1. Frame(w)' = Frame(w)
      BY <1>1 DEF Frame
    <3>2. PICK f : f = Frame(w)
      OBVIOUS
    <3>. QED BY <1>1, <1>2, <1>6, <2>1, <3>1, <3>2, ShapeKept DEF DeletingTask
  <2>. QED BY <2>4, <2>5, <2>6
<1>. QED BY <1>4, <1>5 DEF TreeInv, Tasks

LEMMA WorkerTree ==
  ASSUME ClearedInv, ClearedInv', TreeInv, OneRequest, NEW w \in Workers,
         Request(w) \/ CreateStep(w) \/ RemoveStep(w)
  PROVE  TreeInv' /\ (UsedInv => UsedInv') /\ (0 \in Dirs => 0 \in Dirs')
<1>1. CASE Request(w)
  BY <1>1, StartTree DEF Quiet, Same
<1>2. CASE CreateStep(w)
  <2>1. CASE ReadInodeBitmap(w) \/ WriteInodeBitmap(w) \/ ReadTable(w) \/ ReadBlockBitmap(w)
    BY <2>1, FindTree DEF Quiet, Same
  <2>2. CASE WriteBlockBitmap(w) \/ WriteDots(w) \/ ReadDirectory(w) \/ FillEntry(w)
    BY <2>2, FillTree DEF Quiet, Same
  <2>3. CASE WriteEntry(w)
    BY <2>3, EntryTree DEF Quiet, Same
  <2>4. CASE WriteTable(w)
    <3>1. \E kind : Dirs' = IF kind = "dir" THEN Dirs \cup {loc[w].num} ELSE Dirs
      BY <2>4, TableTree DEF MakesName
    <3>. QED BY <2>4, <3>1, TableTree
  <2>. QED BY <1>2, <2>1, <2>2, <2>3, <2>4 DEF CreateStep
<1>3. CASE RemoveStep(w)
  <2>1. CASE ReadInode(w) \/ ReadEntries(w)
    BY <2>1, ReadTree DEF Quiet, Same
  <2>2. CASE WriteInode(w)
    <3>1. Dirs' = Dirs \ {loc[w].num} /\ loc[w].num # 0
      BY <2>2, InodeTree DEF RemovesName
    <3>. QED BY <2>2, <3>1, InodeTree
  <2>3. CASE WriteEntries(w)
    BY <2>3, OutTree DEF Quiet, Same
  <2>4. CASE ReadDeletedBlock(w) \/ DeleteEntries(w) \/ DeleteInode(w) \/ Leave(w)
    BY <2>4, DeleteTree DEF Quiet, Same
  <2>. QED BY <1>3, <2>1, <2>2, <2>3, <2>4 DEF RemoveStep
<1>. QED BY <1>1, <1>2, <1>3

LEMMA NamesStep ==
  ASSUME ClearedInv, ClearedInv', NamesInv, OneRequest, [Next]_vars
  PROVE  NamesInv'
<1>1. Types /\ FormatInv /\ TreeInv
  BY DEF ClearedInv, ClearedInodes, FSInv, DiskInv, NamesInv
<1>2. CASE UNCHANGED vars
  <2>1. crashes' = crashes /\ mount' = mount /\ disk' = disk
    BY <1>2 DEF vars
  <2>. QED BY <1>1, <1>2, <2>1, StutterTree DEF NamesInv, Quiet, Same
<1>3. CASE MountStep /\ ~Mount
  BY <1>3, FormatTree DEF NamesInv
<1>4. CASE Mount
  <2>1. crashes' = crashes /\ mount' = "mounted" /\ mount = "unmounted" /\ disk.super
    BY <1>4 DEF Mount, Format
  <2>. QED BY <1>1, <1>4, <2>1, MountTree DEF NamesInv
<1>5. CASE Crash
  <2>1. crashes \in Nat /\ crashes' = crashes + 1
    BY <1>1, <1>5, CrashAssumption DEF Crash, Types
  <2>2. crashes' # 0
    BY <2>1
  <2>. QED BY <1>1, <1>5, <2>2, CrashTree DEF NamesInv
<1>6. ASSUME NEW w \in Workers, Request(w) \/ CreateStep(w) \/ RemoveStep(w)
      PROVE  NamesInv'
  <2>1. mount = "mounted" /\ mount' = "mounted" /\ crashes' = crashes
    BY <1>1, <1>6, WorkerFormat
  <2>. QED BY <1>1, <1>6, <2>1, WorkerTree DEF NamesInv
<1>. QED BY <1>2, <1>3, <1>4, <1>5, <1>6 DEF Next

LEMMA NamesInvariance ==
  ASSUME OneRequest, TableCleared
  PROVE  Spec /\ []EnoughBlocks => [](ClearedInv /\ NamesInv)
<1>1. Init => NamesInv
  <2>. SUFFICES ASSUME Init PROVE NamesInv
    OBVIOUS
  <2>1. ClearedInv
    BY FSInit DEF ClearedInv
  <2>2. Bare /\ mount = "unmounted" /\ ~disk.super
    BY DEF Init, Bare
  <2>. QED BY <2>1, <2>2, BareTree DEF NamesInv
<1>2. ClearedInv /\ ClearedInv' /\ NamesInv /\ [Next]_vars => NamesInv'
  BY NamesStep
<1>3. Spec /\ []EnoughBlocks => []FSInv
  BY FSInvariance
<1>4. FSInv => ClearedInv
  BY DEF ClearedInv
<1>. QED BY <1>1, <1>2, <1>3, <1>4, PTL DEF Spec
-----------------------------------------------------------------------------
(***************************************************************************)
(* What the invariant says of the tree between requests.                   *)
(***************************************************************************)

\* A directory begins with the two dots.
LEMMA DotsFirst ==
  ASSUME Types, ClearedInodes, NEW n \in Dirs, NEW p \in Inodes, Dotted(n, p)
  PROVE  SubSeq(Entries(n), 1, 2) = DotEntries(n, p)
<1>. DEFINE s == Entries(n)
            t == SubSeq(s, 1, 2)
            u == DotEntries(n, p)
<1>1. s \in Seq(EntryType) /\ Len(s) \in Nat /\ Len(s) >= 2
      /\ s[1] = Entry(n, ".") /\ s[2] = Entry(p, "..")
  <2>1. s \in Seq(EntryType) /\ Len(s) \in Nat /\ DOMAIN s = 1 .. Len(s)
    BY DirIs DEF Files
  <2>2. 2 \in DOMAIN s /\ s[1] = Entry(n, ".") /\ s[2] = Entry(p, "..")
    BY DEF Dotted
  <2>. HIDE DEF s
  <2>. QED BY <2>1, <2>2
<1>2. u \in Seq(EntryType) /\ Len(u) = 2 /\ u[1] = Entry(n, ".") /\ u[2] = Entry(p, "..")
  BY DirIs, DotsAre DEF Files
<1>. HIDE DEF s, u
<1>3. t \in Seq(EntryType) /\ Len(t) = 2 /\ t[1] = s[1] /\ t[2] = s[2]
  BY <1>1
<1>. HIDE DEF t
<1>4. \A i \in 1 .. Len(t) : t[i] = u[i]
  <2>1. \A i \in 1 .. Len(t) : i = 1 \/ i = 2
    BY <1>3
  <2>. QED BY <1>1, <1>2, <1>3, <2>1
<1>5. t = u
  BY <1>2, <1>3, <1>4, SeqEqual
<1>. QED BY <1>5 DEF s, t, u

\* Without a crash a name is in a directory once, between requests.
LEMMA NamedOnce ==
  ASSUME Types, ClearedInodes, EntriesInv, DotsInv, ChildrenInv, TwiceInv, UsedInv,
         \A w \in Workers : pc[w] = "idle",
         NEW n \in Dirs, NEW x \in Names, NEW z \in Behind(n), Entries(n)[z].name = x
  PROVE  /\ Seen(n, x) # -1
         /\ \A i, j \in Behind(n) : Entries(n)[i].name = x /\ Entries(n)[j].name = x => i = j
<1>1. PICK k \in Behind(n) : Lookup(Entries(n), x) = Child(n, k) /\ Child(n, k) # -1
  BY NamedIs DEF Behind
<1>2. Inode(Child(n, k)).mode # "none"
  BY IdlePending DEF UsedInv
<1>. QED BY <1>1, <1>2 DEF TwiceInv, Lost, Seen

LEMMA DirectoriesSaid ==
  ASSUME ClearedInv, NamesInv
  PROVE  DirectoriesMatchInodes
<1>. DEFINE dirs == {n \in Inodes : IsUsed(n) /\ Inode(n).mode = "dir"}
            IsDirectory(n, parent) == SubSeq(Entries(n), 1, 2) = DotEntries(n, parent)
            entries == UNION {{<<n, i, Entries(n)[i]>> : i \in 3 .. Len(Entries(n))} : n \in dirs}
<1>1. SUFFICES ASSUME mount = "mounted", crashes = 0, \A w \in Workers : pc[w] = "idle"
               PROVE  /\ IsDirectory(0, 0)
                      /\ \A e \in entries : /\ IsUsed(e[3].iNum)
                                            /\ e[3].iNum \in dirs => IsDirectory(e[3].iNum, e[1])
                      /\ \A e, f \in entries :
                           e # f => /\ e[3].iNum # f[3].iNum
                                    /\ e[1] = f[1] => e[3].name # f[3].name
  BY DEF DirectoriesMatchInodes
<1>2. /\ Types /\ ClearedInodes /\ EntriesInv /\ Shape /\ TwiceInv /\ UsedInv
      /\ DotsInv /\ ChildrenInv /\ 0 \in Dirs
  BY <1>1 DEF ClearedInv, ClearedInodes, FSInv, DiskInv, NamesInv, TreeInv, Shape
<1>3. dirs = Dirs
  BY <1>2, DirIs DEF Dirs, HasBlock
<1>4. ASSUME NEW e \in entries
      PROVE  \E n \in Dirs : \E i \in Behind(n) : e = <<n, i, Entries(n)[i]>>
  <2>1. PICK n \in Dirs : \E i \in 3 .. Len(Entries(n)) : e = <<n, i, Entries(n)[i]>>
    BY <1>3
  <2>2. PICK i \in 3 .. Len(Entries(n)) : e = <<n, i, Entries(n)[i]>>
    BY <2>1
  <2>3. Len(Entries(n)) \in Nat /\ DOMAIN Entries(n) = 1 .. Len(Entries(n))
    BY <1>2, DirIs
  <2>4. i \in DOMAIN Entries(n) /\ i > 2
    BY <2>2, <2>3
  <2>. QED BY <2>2, <2>4 DEF Behind
<1>5. \A n, i, x : <<n, i, x>>[1] = n /\ <<n, i, x>>[3] = x
  OBVIOUS
<1>6. IsDirectory(0, 0)
  BY <1>2, Numbers, DotsFirst DEF Shape, DotsInv
<1>. HIDE DEF entries
<1>7. ASSUME NEW e \in entries
      PROVE  IsUsed(e[3].iNum) /\ (e[3].iNum \in dirs => IsDirectory(e[3].iNum, e[1]))
  <2>0. PICK n \in Dirs : \E i \in Behind(n) : e = <<n, i, Entries(n)[i]>>
    BY <1>4
  <2>1. PICK i \in Behind(n) : e = <<n, i, Entries(n)[i]>>
    BY <2>0
  <2>2. PICK c : c = e[3].iNum /\ c = Child(n, i) /\ n = e[1] /\ n \in Inodes
    BY <1>5, <2>1 DEF Child, Dirs
  <2>3. c \in Inodes /\ Inode(c).mode # "none"
    <3>1. ~Pending(n, c)
      BY <1>1 DEF Pending, Between
    <3>. QED BY <1>2, <2>1, <2>2, <3>1, ChildIs DEF UsedInv, Shape
  <2>4. IsUsed(c)
    BY <1>2, <2>3, ClearedUsed DEF HasBlock
  <2>5. c \in Dirs => Dotted(c, n)
    BY <1>2, <2>1, <2>2 DEF Shape, ChildrenInv
  <2>6. c \in Dirs => IsDirectory(c, n)
    BY <1>2, <2>2, <2>5, DotsFirst
  <2>. QED BY <1>3, <2>2, <2>4, <2>6
<1>8. ASSUME NEW e \in entries, NEW f \in entries, e # f
      PROVE  e[3].iNum # f[3].iNum /\ (e[1] = f[1] => e[3].name # f[3].name)
  <2>1. PICK m \in Dirs : \E i \in Behind(m) : e = <<m, i, Entries(m)[i]>>
    BY <1>4
  <2>2. PICK i \in Behind(m) : e = <<m, i, Entries(m)[i]>>
    BY <2>1
  <2>3. PICK n \in Dirs : \E j \in Behind(n) : f = <<n, j, Entries(n)[j]>>
    BY <1>4
  <2>4. PICK j \in Behind(n) : f = <<n, j, Entries(n)[j]>>
    BY <2>3
  <2>5. ~ (m = n /\ i = j)
    BY <1>8, <2>2, <2>4
  <2>6. Child(m, i) # Child(n, j)
    BY <1>2, <2>5 DEF Shape, OnceInv
  <2>7. m = n => Entries(m)[i].name # Entries(n)[j].name
    <3>1. Entries(m)[i].name \in Names
      BY <1>2 DEF ChildrenInv
    <3>. QED BY <1>1, <1>2, <2>5, <3>1, NamedOnce
  <2>. QED BY <1>5, <2>2, <2>4, <2>6, <2>7 DEF Child
<1>. QED BY <1>6, <1>7, <1>8

-----------------------------------------------------------------------------
(***************************************************************************)
(* What it says of the answers.                                            *)
(***************************************************************************)

\* A path that leads to a file or a directory is one that sfs_getattr finds.
LEMMA PathOpens ==
  ASSUME ClearedInv, NEW path \in Paths
  PROVE  Exists(path) <=> InodeFromPath(path) # -1 /\ Kind(path) \in {"file", "dir"}
<1>1. Types /\ ClearedInodes /\ EntriesInv /\ 0 \in Inodes
  BY Numbers DEF ClearedInv, ClearedInodes, FSInv, DiskInv
<1>2. PICK n : n = InodeFromPath(path)
  OBVIOUS
<1>3. ASSUME Exists(path) PROVE n # -1 /\ Kind(path) \in {"file", "dir"}
  <2>1. PICK d \in Inodes : /\ n \in Inodes \ {0} /\ IsUsed(n)
                            /\ \E i \in DOMAIN Entries(d) : /\ Entries(d)[i].name = Last(path)
                                                            /\ Entries(d)[i].iNum = n
    BY <1>1, <1>2, <1>3, PathFound
  <2>2. PICK i \in DOMAIN Entries(d) : Entries(d)[i].name = Last(path) /\ Entries(d)[i].iNum = n
    BY <2>1
  <2>3. Inode(d).block \in Blocks /\ Entries(d) = disk.data[Inode(d).block]
    BY <1>1, <2>2, LookTypes DEF Entries, InodeType
  <2>4. Last(path) \notin Dots
    BY PathIs, NamesAssumption
  <2>5. Inode(n) # ZeroInode
    BY <1>1, <2>2, <2>3, <2>4 DEF EntriesInv, Valid
  <2>6. Inode(n).mode \in {"file", "dir"}
    BY <1>1, <2>1, <2>5 DEF ClearedInodes, InodesInv, IsFree, IsUsed, FreeInode
  <2>7. n # -1
    BY <2>1, Numbers
  <2>. QED BY <1>2, <2>6, <2>7 DEF Kind
<1>4. ASSUME n # -1, Kind(path) \in {"file", "dir"} PROVE Exists(path)
  <2>1. Inode(n).mode # "none"
    BY <1>2, <1>4 DEF Kind
  <2>2. \A m \in Inodes : Inode(m).mode # "none" => IsUsed(m)
    BY <1>1, ClearedUsed DEF HasBlock
  <2>3. \A x : Lookup(Entries(0), x) \in Inodes \cup {-1}
    BY <1>1, LookTypes, LookupType
  <2>4. CASE Len(path) = 1 /\ path = <<path[1]>>
    <3>1. PICK a \in Names : path = <<a>>
      BY <2>4, PathIs
    <3>2. n = IF Lookup(Entries(0), a) <= 0 THEN -1 ELSE Lookup(Entries(0), a)
      BY <1>1, <1>2, <3>1, FromPath
    <3>3. n \in Inodes /\ n > 0
      <4>1. PICK k \in Inodes \cup {-1} : k = Lookup(Entries(0), a)
        BY <2>3
      <4>2. k # -1 /\ n = k /\ ~ (k <= 0)
        BY <1>4, <3>2, <4>1
      <4>. QED BY <4>2, Numbers
    <3>. QED BY <1>2, <2>1, <2>2, <3>1, <3>2, <3>3, ExistsIs
  <2>5. CASE Len(path) = 2 /\ path = <<path[1], path[2]>> /\ path[2] \in Names
    <3>1. PICK a \in Names, b \in Names : path = <<a, b>>
      BY <2>5, PathIs
    <3>2. PICK k, m : k = Lookup(Entries(0), a) /\ m = Lookup(Entries(k), b)
      OBVIOUS
    <3>3. /\ InodeFromPath(<<a, b>>) = n
          /\ n = IF k <= 0 THEN -1 ELSE IF m > 0 /\ m # k THEN m ELSE -1
          /\ InodeFromPath(<<a>>) = IF k <= 0 THEN -1 ELSE k
      <4>1. n = InodeFromPath(<<a, b>>)
        BY <1>2, <3>1
      <4>2. InodeFromPath(<<a, b>>) = IF k <= 0 THEN -1 ELSE IF m > 0 /\ m # k THEN m ELSE -1
        BY <1>1, <3>2, FromPath
      <4>3. InodeFromPath(<<a>>) = IF k <= 0 THEN -1 ELSE k
        BY <1>1, <3>2, FromPath
      <4>. QED BY <4>1, <4>2, <4>3
    <3>4. k \in Inodes /\ k > 0 /\ n = m /\ m > 0 /\ InodeFromPath(<<a>>) = k
      <4>1. k \in Inodes \cup {-1}
        BY <2>3, <3>2
      <4>2. k # -1 /\ ~ (k <= 0) /\ n = m /\ m > 0 /\ InodeFromPath(<<a>>) = k
        BY <1>4, <3>3, <4>1
      <4>3. k \in Inodes /\ k \in Nat
        BY <4>1, <4>2, Numbers
      <4>. QED BY <4>2, <4>3
    <3>5. Entries(k) \in Files
      BY <1>1, <3>4, LookTypes
    <3>6. m \in Inodes /\ Entries(k) # <<>>
      <4>1. m \in Inodes \cup {-1}
        BY <3>2, <3>5, LookupType
      <4>2. m # -1
        BY <1>4, <3>4
      <4>3. \E i \in DOMAIN Entries(k) : TRUE
        BY <3>2, <3>5, <4>2, LookupIs
      <4>. QED BY <4>1, <4>2, <4>3
    <3>7. IsUsed(k) /\ IsUsed(m)
      BY <2>1, <2>2, <3>4, <3>6 DEF Entries
    <3>. QED BY <1>2, <3>1, <3>3, <3>4, <3>7, ExistsIs
  <2>. QED BY <2>4, <2>5, PathIs
<1>. QED BY <1>2, <1>3, <1>4

\* Whatever is found in a directory is listed there.
LEMMA FoundListed ==
  ASSUME Types, NEW d \in Paths \cup {<<>>}, Len(d) < 2, NEW x \in Names
  PROVE  /\ Append(d, x) \in Paths /\ Directory(Append(d, x)) = d /\ Last(Append(d, x)) = x
         /\ Exists(Append(d, x)) => x \in ToSet(ReadDir(d))
<1>1. Append(d, x) \in Paths /\ Directory(Append(d, x)) = d /\ Last(Append(d, x)) = x
  <2>1. CASE d = <<>>
    <3>1. Append(d, x) = <<x>> /\ <<x>> \in Paths /\ Len(<<x>>) = 1 /\ <<x>>[1] = x
      BY <2>1 DEF Paths
    <3>. QED BY <2>1, <3>1, PathIs
  <2>2. CASE d \in Paths
    <3>1. PICK a \in Names : d = <<a>>
      BY <2>2, PathIs
    <3>2. /\ Append(<<a>>, x) = <<a, x>> /\ Len(<<a, x>>) = 2
          /\ <<a, x>>[1] = a /\ <<a, x>>[2] = x
      <4>1. /\ <<a, x>> \in Seq(Names) /\ Len(<<a, x>>) = 2
            /\ <<a, x>>[1] = a /\ <<a, x>>[2] = x
        OBVIOUS
      <4>2. /\ <<a>> \in Seq(Names) /\ Len(<<a>>) = 1 /\ <<a>>[1] = a
        OBVIOUS
      <4>. DEFINE s == Append(<<a>>, x)  t == <<a, x>>
      <4>3. s \in Seq(Names) /\ Len(s) = 2 /\ s[1] = a /\ s[2] = x
        BY <4>2
      <4>4. t \in Seq(Names) /\ Len(t) = 2 /\ t[1] = a /\ t[2] = x
        BY <4>1
      <4>. HIDE DEF s, t
      <4>5. \A i \in 1 .. Len(s) : s[i] = t[i]
        BY <4>3, <4>4
      <4>6. s = t
        BY <4>3, <4>4, <4>5, SeqEqual
      <4>. QED BY <4>1, <4>6 DEF s, t
    <3>3. <<a, x>> \in Paths
      BY DEF Paths
    <3>. QED BY <3>1, <3>2, <3>3, PathIs
  <2>. QED BY <2>1, <2>2
<1>2. ASSUME Exists(Append(d, x)) PROVE x \in ToSet(ReadDir(d))
  <2>1. PICK n : n = InodeFromPath(d)
    OBVIOUS
  <2>2. PICK i \in DOMAIN Entries(n) : Entries(n)[i].name = x
    BY <1>1, <1>2, <2>1, PathFound
  <2>. QED BY <2>1, <2>2 DEF ReadDir, ToSet
<1>. QED BY <1>1, <1>2

\* Between requests nothing else is listed, and nothing twice.
LEMMA ListedFound ==
  ASSUME ClearedInv, TreeInv, UsedInv, \A w \in Workers : pc[w] = "idle",
         NEW d \in Paths \cup {<<>>}, Len(d) < 2, OpenDir(d) = "ok"
  PROVE  /\ ToSet(ReadDir(d)) \subseteq {x \in Names : Exists(Append(d, x))} \cup Dots
         /\ Dots \subseteq ToSet(ReadDir(d))
         /\ IsInjective(ReadDir(d))
<1>1. Types /\ ClearedInodes /\ EntriesInv /\ Shape /\ DotsInv /\ ChildrenInv /\ TwiceInv /\ PlacesRight
  BY PlaceRules DEF ClearedInv, ClearedInodes, FSInv, DiskInv, TreeInv, Shape
<1>2. PICK n : n = InodeFromPath(d)
  OBVIOUS
<1>3. n # -1 /\ Inode(n).mode = "dir"
  BY <1>2 DEF OpenDir, Kind
<1>4. Exists(d) /\ n \in Dirs
  <2>1. CASE d = <<>>
    BY <1>1, <1>2, <1>3, <2>1, FromPath, ExistsIs, Numbers DEF Dirs
  <2>2. CASE d \in Paths
    <3>1. Exists(d)
      BY <1>2, <1>3, <2>2, PathOpens DEF Kind
    <3>2. n \in Inodes
      BY <1>1, <1>2, <2>2, <3>1, PathFound
    <3>. QED BY <1>3, <3>1, <3>2 DEF Dirs
  <2>. QED BY <2>1, <2>2
<1>5. PICK p : Dotted(n, p)
  BY <1>1, <1>4 DEF Shape, DotsInv
<1>6. /\ {1, 2} \subseteq DOMAIN Entries(n)
      /\ Entries(n)[1].name = "." /\ Entries(n)[2].name = ".."
  BY <1>5 DEF Dotted, Entry
<1>7. \A i \in DOMAIN Entries(n) : i = 1 \/ i = 2 \/ i \in Behind(n)
  <2>1. Len(Entries(n)) \in Nat /\ DOMAIN Entries(n) = 1 .. Len(Entries(n))
    BY <1>1, <1>4, DirIs
  <2>2. \A i \in 1 .. Len(Entries(n)) : i = 1 \/ i = 2 \/ i > 2
    BY <2>1
  <2>. QED BY <2>1, <2>2 DEF Behind
<1>8. \A i \in Behind(n) : Entries(n)[i].name \in Names
  BY <1>1, <1>4 DEF Shape, ChildrenInv
<1>9. DOMAIN ReadDir(d) = DOMAIN Entries(n) /\ \A i \in DOMAIN Entries(n) : ReadDir(d)[i] = Entries(n)[i].name
  BY <1>2 DEF ReadDir
<1>10. ASSUME NEW i \in Behind(n) PROVE Exists(Append(d, Entries(n)[i].name))
  <2>1. PICK x \in Names : x = Entries(n)[i].name
    BY <1>8
  <2>2. Append(d, x) \in Paths /\ Directory(Append(d, x)) = d /\ Last(Append(d, x)) = x
    BY <1>1, FoundListed
  <2>3. Place(Append(d, x)) = n /\ n # -1
    BY <1>2, <1>3, <1>4, <2>2 DEF Place
  <2>4. Seen(n, x) # -1
    BY <1>1, <1>4, <2>1, NamedOnce
  <2>5. Exists(Append(d, x))
    BY <1>1, <2>2, <2>3, <2>4 DEF PlacesRight
  <2>. QED BY <2>1, <2>5
<1>11. ToSet(ReadDir(d)) \subseteq {x \in Names : Exists(Append(d, x))} \cup Dots
  <2>1. ASSUME NEW i \in DOMAIN Entries(n)
        PROVE  Entries(n)[i].name \in {x \in Names : Exists(Append(d, x))} \cup Dots
    BY <1>6, <1>7, <1>8, <1>10 DEF Dots
  <2>. QED BY <1>9, <2>1 DEF ToSet
<1>12. Dots \subseteq ToSet(ReadDir(d))
  BY <1>6, <1>9 DEF ToSet, Dots
<1>13. IsInjective(ReadDir(d))
  <2>1. ASSUME NEW i \in DOMAIN Entries(n), NEW j \in DOMAIN Entries(n),
               Entries(n)[i].name = Entries(n)[j].name
        PROVE  i = j
    <3>1. CASE i \in Behind(n) /\ j \in Behind(n)
      BY <1>1, <1>4, <1>8, <2>1, <3>1, NamedOnce
    <3>2. CASE i \notin Behind(n) \/ j \notin Behind(n)
      <4>1. "." \notin Names /\ ".." \notin Names
        BY NamesAssumption DEF Dots
      <4>. QED BY <1>6, <1>7, <1>8, <2>1, <3>2, <4>1
    <3>. QED BY <3>1, <3>2
  <2>. QED BY <1>9, <2>1 DEF IsInjective
<1>. QED BY <1>11, <1>12, <1>13

LEMMA AnswersSaid ==
  ASSUME ClearedInv, NamesInv
  PROVE  AnswersAgree
<1>. DEFINE opened(p) == {o \in {<<"file", Open(p)>>, <<"dir", OpenDir(p)>>} : o[2] = "ok"}
            found(d)  == {x \in Names : Exists(Append(d, x))}
<1>1. Types
  BY DEF ClearedInv, ClearedInodes, FSInv
<1>2. ASSUME NEW p \in Paths
      PROVE  opened(p) = IF Exists(p) THEN {<<Kind(p), "ok">>} ELSE {}
  <2>1. Exists(p) <=> InodeFromPath(p) # -1 /\ Kind(p) \in {"file", "dir"}
    BY PathOpens
  <2>2. Open(p) = IF Exists(p) /\ Kind(p) = "file" THEN "ok" ELSE "ENOENT"
    BY <2>1 DEF Open
  <2>3. OpenDir(p) = IF Exists(p) /\ Kind(p) = "dir" THEN "ok" ELSE "ENOENT"
    BY <2>1 DEF OpenDir
  <2>. QED BY <2>1, <2>2, <2>3
<1>3. ASSUME NEW d \in {q \in Paths \cup {<<>>} : Len(q) < 2 /\ OpenDir(q) = "ok"}
      PROVE  /\ found(d) \subseteq ToSet(ReadDir(d))
             /\ mount = "mounted" /\ crashes = 0 /\ (\A w \in Workers : pc[w] = "idle")
                => ToSet(ReadDir(d)) = found(d) \cup Dots /\ IsInjective(ReadDir(d))
  <2>1. found(d) \subseteq ToSet(ReadDir(d))
    BY <1>1, FoundListed
  <2>2. ASSUME mount = "mounted", crashes = 0, \A w \in Workers : pc[w] = "idle"
        PROVE  ToSet(ReadDir(d)) = found(d) \cup Dots /\ IsInjective(ReadDir(d))
    <3>1. TreeInv /\ UsedInv
      BY <2>2 DEF NamesInv
    <3>. QED BY <2>1, <2>2, <3>1, ListedFound
  <2>. QED BY <2>1, <2>2
<1>. QED BY <1>2, <1>3 DEF AnswersAgree

-----------------------------------------------------------------------------
\* While a free block is found, with a table from cleared memory, between requests and
\* as long as the process has not crashed, the directories are
\* what the inodes say, however many names there are and however deep requests have
\* built and torn down the tree: every entry has a made inode, every directory
\* names itself and the one it is entered in, no name is twice in a directory and no
\* inode twice in any (createDEntry and deleteInodeEntry of dirent.c, createInode,
\* removeInode and deleteAllInodeEntries of inode.c).
THEOREM DirectoriesKept ==
  ASSUME OneRequest, TableCleared
  PROVE  Spec /\ []EnoughBlocks => []DirectoriesMatchInodes
<1>1. ClearedInv /\ NamesInv => DirectoriesMatchInodes
  BY DirectoriesSaid
<1>. QED BY <1>1, NamesInvariance, PTL

\* While a free block is found, and with a table from cleared memory: sfs_getattr,
\* sfs_open, sfs_opendir and sfs_readdir agree on what a path is, at
\* every moment and whatever the crashes; and between requests, before any crash,
\* sfs_readdir lists the dots and what sfs_getattr finds, each once.
THEOREM AnswersKept ==
  ASSUME OneRequest, TableCleared
  PROVE  Spec /\ []EnoughBlocks => []AnswersAgree
<1>1. ClearedInv /\ NamesInv => AnswersAgree
  BY AnswersSaid
<1>. QED BY <1>1, NamesInvariance, PTL

-----------------------------------------------------------------------------
(***************************************************************************)
(* FileSystem implements NameTree with one request at a time, whatever the *)
(* crashes: every step is one of NameTree or changes neither the names that can be found, nor those a    *)
(* crash has spoiled, nor a request.                                       *)
(***************************************************************************)
-----------------------------------------------------------------------------
(***************************************************************************)
(* The names of NameTree.                                                  *)
(***************************************************************************)

\* No other path has the same last name in the same directory.
LEMMA OnePath ==
  ASSUME ClearedInv, Shape, NEW p \in Paths, NEW q \in Paths,
         Place(p) # -1, Place(p) = Place(q), Last(p) = Last(q)
  PROVE  p = q
<1>1. /\ Types /\ ClearedInodes /\ EntriesInv /\ DotsInv /\ ChildrenInv /\ OnceInv /\ PlacesRight
      /\ -1 \notin Dirs
  BY PlaceRules, Numbers DEF ClearedInv, ClearedInodes, FSInv, DiskInv, Shape, Dirs
<1>2. ASSUME NEW a \in Names, NEW b \in Names, NEW r \in Paths, r = <<a, b>>, Place(r) # -1
      PROVE  /\ 0 \in Dirs /\ Place(r) # 0
             /\ \E i \in Behind(0) : Entries(0)[i].name = a /\ Child(0, i) = Place(r)
  <2>1. 0 \in Dirs /\ Seen(0, a) = Place(r) /\ Seen(0, a) # -1
    BY <1>1, <1>2 DEF PlacesRight
  <2>2. Seen(0, a) = Lookup(Entries(0), a)
    BY <2>1 DEF Seen
  <2>. QED BY <1>1, <2>1, <2>2, NamedIs
<1>3. ASSUME NEW a \in Names, NEW r \in Paths, r = <<a>>, Place(r) # -1
      PROVE  Place(r) = 0
  BY <1>1, <1>3 DEF PlacesRight
<1>4. CASE \E a, b \in Names : p = <<a>> /\ q = <<b>>
  BY <1>4, PathNames
<1>5. CASE \E a, b \in Names, c \in Names : p = <<a>> /\ q = <<b, c>>
  BY <1>2, <1>3, <1>5
<1>6. CASE \E a, b \in Names, c \in Names : p = <<a, b>> /\ q = <<c>>
  BY <1>2, <1>3, <1>6
<1>7. ASSUME NEW a \in Names, NEW b \in Names, NEW c \in Names, NEW e \in Names,
             p = <<a, b>>, q = <<c, e>>
      PROVE  p = q
  <2>1. PICK i \in Behind(0) : Entries(0)[i].name = a /\ Child(0, i) = Place(p)
    BY <1>2, <1>7
  <2>2. PICK j \in Behind(0) : Entries(0)[j].name = c /\ Child(0, j) = Place(q)
    BY <1>2, <1>7
  <2>3. 0 \in Dirs
    BY <1>2, <1>7
  <2>4. i = j
    BY <1>1, <2>1, <2>2, <2>3 DEF OnceInv
  <2>. QED BY <1>7, <2>1, <2>2, <2>4, PathNames
<1>8. /\ (\E a \in Names : p = <<a>>) \/ (\E a, b \in Names : p = <<a, b>>)
      /\ (\E a \in Names : q = <<a>>) \/ (\E a, b \in Names : q = <<a, b>>)
  BY PathNames
<1>. QED BY <1>4, <1>5, <1>6, <1>7, <1>8

\* The name that a request between its writes is at.
LEMMA BetweenAt ==
  ASSUME ClearedInv, TreeInv, NEW w \in Workers, Between(w)
  PROVE  /\ loc[w].path \in Paths /\ loc[w].dir = Place(loc[w].path) /\ loc[w].dir \in Dirs
         /\ \E i \in Behind(loc[w].dir) : /\ Entries(loc[w].dir)[i].name = Last(loc[w].path)
                                          /\ Child(loc[w].dir, i) = loc[w].num
<1>1. /\ Types /\ ClearedInodes /\ EntriesInv /\ DotsInv /\ ChildrenInv /\ PlacesRight
      /\ MakingTask(w) /\ RemovingTask(w) /\ loc[w].path \in Paths
  BY PlaceRules DEF ClearedInv, ClearedInodes, FSInv, DiskInv, TreeInv, Shape, Tasks, Between, Types
<1>2. PICK p, d, x : p = loc[w].path /\ d = loc[w].dir /\ x = Last(p)
  OBVIOUS
<1>3. CASE pc[w] = "write table"
  <2>1. d = Place(p) /\ d # -1 /\ \E i \in Behind(d) : Entries(d)[i] = Entry(loc[w].num, x)
    BY <1>1, <1>2, <1>3 DEF MakingTask, Filling
  <2>2. d \in Dirs
    BY <1>1, <1>2, <2>1 DEF PlacesRight
  <2>3. Entry(loc[w].num, x).name = x /\ Entry(loc[w].num, x).iNum = loc[w].num
    BY DEF Entry
  <2>. QED BY <1>1, <1>2, <2>1, <2>2, <2>3 DEF Child
<1>4. CASE pc[w] \in {"read entries", "write entries"}
  <2>1. pc[w] \in Removing
    BY <1>4 DEF Removing
  <2>2. /\ d \in Dirs /\ d = Place(p) /\ p \in Paths
        /\ \E i \in Behind(d) : Entries(d)[i].name = x /\ Child(d, i) = loc[w].num
    BY <1>2, <2>1, RemovingIs DEF TheEntry
  <2>. QED BY <1>2, <2>2
<1>. QED BY <1>3, <1>4 DEF Between

\* A worker that is at an inode which is free and entered is between its writes.
LEMMA AtLost ==
  ASSUME ClearedInv, TreeInv, NEW w \in Workers, pc[w] # "idle",
         NEW d \in Dirs, NEW i \in Behind(d), Child(d, i) = loc[w].num,
         Inode(loc[w].num).mode = "none"
  PROVE  Between(w) /\ loc[w].dir = d
<1>1. /\ Types /\ ClearedInodes /\ EntriesInv /\ DotsInv /\ ChildrenInv /\ OnceInv /\ PlacesRight
      /\ MakingTask(w) /\ RemovingTask(w) /\ DeletingTask(w) /\ FindingInv(w)
  BY PlaceRules DEF ClearedInv, ClearedInodes, FSInv, DiskInv, RequestInv, TreeInv, Shape, Tasks
<1>2. PICK m : m = loc[w].num
  OBVIOUS
<1>3. m \in disk.ibitmap /\ m # 0
  BY <1>1, <1>2, ChildIs
<1>4. Entered(m)
  <2>1. i \in DOMAIN Entries(d) /\ Entries(d)[i].name \notin Dots
    BY <1>1, NamesAssumption DEF ChildrenInv, Behind
  <2>2. Entries(d) = disk.data[Inode(d).block] /\ Inode(d).block \in Blocks
    BY <1>1, DirIs
  <2>. QED BY <1>2, <2>1, <2>2 DEF Entered, Child
<1>5. pc[w] \notin Finding
  BY <1>1, <1>2, <1>3, <1>4 DEF FindingInv, MakingTask, Finding
<1>6. pc[w] \in Filling => pc[w] = "write table"
  BY <1>1, <1>2, <1>4 DEF FindingInv
<1>7. pc[w] \notin {"read inode", "write inode"}
  BY <1>1, <1>2 DEF RemovingTask
<1>8. pc[w] \notin Deleting
  BY <1>1, <1>2 DEF DeletingTask, Orphan
<1>9. Between(w)
  BY <1>1, <1>5, <1>6, <1>7, <1>8 DEF Between, Types, Finding, Filling, Removing, Deleting
<1>. QED BY <1>1, <1>9, BetweenAt DEF OnceInv

\* The names that are spoiled are those of lost inodes.
LEMMA SpoiledIs ==
  ClearedInv /\ TreeInv =>
    \A q \in Paths : IsSpoiled(q) <=> Place(q) # -1 /\ Spoils(Place(q), Last(q))
<1>. SUFFICES ASSUME ClearedInv, TreeInv, NEW q \in Paths
              PROVE  IsSpoiled(q) <=> Place(q) # -1 /\ Spoils(Place(q), Last(q))
  OBVIOUS
<1>1. /\ Types /\ ClearedInodes /\ DataInv /\ EntriesInv /\ DotsInv /\ ChildrenInv /\ PlacesRight
      /\ Last(q) \in Names
  BY PlaceRules, PathIs DEF ClearedInv, ClearedInodes, FSInv, DiskInv, TreeInv, Shape
<1>2. PICK d, x, m : d = Place(q) /\ x = Last(q) /\ m = InodeFromPath(q)
  OBVIOUS
<1>3. ASSUME IsSpoiled(q) PROVE d # -1
  <2>1. Exists(Directory(q)) /\ m > 0
    BY <1>2, <1>3 DEF IsSpoiled
  <2>2. PICK e : e = InodeFromPath(Directory(q))
    OBVIOUS
  <2>3. e \in Inodes /\ (e \notin Dirs => m = -1)
    <3>1. \A n \in Inodes, y \in Names : n \notin Dirs => Lookup(Entries(n), y) = -1
      <4>1. ASSUME NEW n \in Inodes, n \notin Dirs PROVE Entries(n) = <<>> /\ <<>> \in Files
        BY <1>1, <4>1, NoEntries DEF Files
      <4>2. \A y \in Names : Lookup(<<>>, y) = -1
        <5>1. <<>> \in Files /\ DOMAIN <<>> = {}
          BY DEF Files
        <5>. QED BY <5>1, LookupIs
      <4>. QED BY <4>1, <4>2
    <3>2. ASSUME NEW a \in Names, q = <<a>> PROVE e \in Inodes /\ (e \notin Dirs => m = -1)
      <4>1. e = 0 /\ 0 \in Inodes
        BY <1>1, <2>2, <3>2, PathNames, FromPath, Numbers
      <4>. QED BY <1>1, <1>2, <3>1, <3>2, <4>1, FromPath
    <3>3. ASSUME NEW a \in Names, NEW b \in Names, q = <<a, b>>
          PROVE  e \in Inodes /\ (e \notin Dirs => m = -1)
      <4>1. e = InodeFromPath(<<a>>) /\ Exists(<<a>>) /\ <<a>> \in Paths
        BY <2>1, <2>2, <3>3, PathNames
      <4>2. e \in Inodes /\ e = Lookup(Entries(0), a)
        <5>1. e = Seen(0, a) /\ e \in Inodes \ {0} /\ e > 0
          BY <1>1, <4>1, PathFound, PathNames, ExistsIs DEF PlacesRight
        <5>2. e # -1
          BY <5>1, Numbers
        <5>. QED BY <5>1, <5>2 DEF Seen
      <4>3. m = IF e <= 0 THEN -1 ELSE IF Lookup(Entries(e), b) > 0 /\ Lookup(Entries(e), b) # e
                                       THEN Lookup(Entries(e), b) ELSE -1
        BY <1>1, <1>2, <3>3, <4>2, FromPath
      <4>. QED BY <3>1, <4>2, <4>3
    <3>. QED BY <3>2, <3>3, PathNames
  <2>4. e \in Dirs /\ e # -1
    BY <2>1, <2>3, Numbers
  <2>. QED BY <1>2, <2>1, <2>2, <2>4 DEF Place
<1>4. ASSUME d # -1
      PROVE  /\ d \in Dirs /\ Exists(Directory(q)) /\ m = Lookup(Entries(d), x)
             /\ \/ m = -1
                \/ /\ m \in Inodes /\ m > 0 /\ m # -1
                   /\ IsUsed(m) <=> Inode(m).mode # "none"
                   /\ \E i \in Behind(d) : m = Child(d, i)
  <2>1. d \in Dirs /\ Exists(Directory(q)) /\ m = Lookup(Entries(d), x)
    BY <1>1, <1>2, <1>4 DEF PlacesRight
  <2>2. \/ m = -1
        \/ /\ m \in Inodes \ {0} /\ (IsUsed(m) <=> Inode(m).mode # "none")
           /\ \E i \in Behind(d) : m = Child(d, i)
    BY <1>1, <1>2, <2>1, NamedIs
  <2>3. m \in Inodes \ {0} => m > 0 /\ m # -1
    BY Numbers
  <2>. QED BY <2>1, <2>2, <2>3
<1>5. ASSUME IsSpoiled(q) PROVE Spoils(d, x)
  <2>1. m > 0 /\ ~IsUsed(m) /\ \A w \in Workers : pc[w] # "idle" => loc[w].num # m
    BY <1>2, <1>5 DEF IsSpoiled
  <2>2. ~Pending(d, m)
    BY <2>1 DEF Pending, Between
  <2>. QED BY <1>3, <1>4, <1>5, <2>1, <2>2 DEF Spoils, Lost
<1>6. ASSUME d # -1, Spoils(d, x) PROVE IsSpoiled(q)
  <2>1. /\ d \in Dirs /\ Exists(Directory(q)) /\ m > 0 /\ ~IsUsed(m) /\ ~Pending(d, m)
        /\ Inode(m).mode = "none" /\ \E i \in Behind(d) : m = Child(d, i)
    BY <1>4, <1>6 DEF Spoils, Lost
  <2>2. ASSUME NEW w \in Workers, pc[w] # "idle", loc[w].num = m PROVE FALSE
    BY <2>1, <2>2, AtLost DEF Pending
  <2>. QED BY <1>2, <2>1, <2>2 DEF IsSpoiled
<1>. QED BY <1>2, <1>3, <1>5, <1>6

\* What is found at a path, and what was lost there.
PathsRight ==
  \A q \in Paths : \E d, m :
    /\ d = Place(q) /\ (d # -1 => d \in Dirs /\ m = Seen(d, Last(q)))
    /\ Exists(q) <=> d # -1 /\ m # -1
    /\ Exists(q) => Kind(q) = Inode(m).mode
    /\ IsSpoiled(q) <=> d # -1 /\ Spoils(d, Last(q))

LEMMA PathRules == ClearedInv /\ TreeInv => PathsRight
<1>. SUFFICES ASSUME ClearedInv, TreeInv, NEW q \in Paths
              PROVE  \E d, m :
                       /\ d = Place(q) /\ (d # -1 => d \in Dirs /\ m = Seen(d, Last(q)))
                       /\ Exists(q) <=> d # -1 /\ m # -1
                       /\ Exists(q) => Kind(q) = Inode(m).mode
                       /\ IsSpoiled(q) <=> d # -1 /\ Spoils(d, Last(q))
  BY DEF PathsRight
<1>1. PlacesRight
  BY PlaceRules DEF TreeInv
<1>2. PICK d, m : d = Place(q) /\ m = Seen(d, Last(q))
  OBVIOUS
<1>3. d # -1 => d \in Dirs
  BY <1>1, <1>2 DEF PlacesRight
<1>4. (Exists(q) <=> d # -1 /\ m # -1) /\ (Exists(q) => Kind(q) = Inode(m).mode)
  BY <1>1, <1>2 DEF PlacesRight, Kind
<1>5. IsSpoiled(q) <=> d # -1 /\ Spoils(d, Last(q))
  BY <1>2, SpoiledIs
<1>. QED BY <1>2, <1>3, <1>4, <1>5

LEMMA PathsBoth ==
  ASSUME ClearedInv, ClearedInv', TreeInv, TreeInv'
  PROVE  PathsRight /\ PathsRight' /\ PlacesRight /\ PlacesRight'
<1>1. (ClearedInv /\ TreeInv)' => PathsRight'
  BY PathRules, PTL
<1>2. (ClearedInv /\ Shape)' => PlacesRight'
  BY PlaceRules, PTL
<1>. QED BY <1>1, <1>2, PathRules, PlaceRules DEF TreeInv

LEMMA QuietNames ==
  ASSUME ClearedInv, ClearedInv', TreeInv, TreeInv', Quiet
  PROVE  UNCHANGED <<names, spoiledNames>>
<1>0. PathsRight /\ PathsRight'
  BY PathsBoth
<1>1. \A q \in Paths : /\ Place(q)' = Place(q)
                       /\ Exists(q)' <=> Exists(q)
                       /\ Exists(q) => Kind(q)' = Kind(q)
  BY SamePlaces DEF TreeInv, Quiet
<1>2. names' = names
  BY <1>1 DEF names
<1>3. ASSUME NEW q \in Paths PROVE IsSpoiled(q)' <=> IsSpoiled(q)
  <2>1. PICK d : /\ d = Place(q) /\ (d # -1 => d \in Dirs)
                 /\ IsSpoiled(q) <=> d # -1 /\ Spoils(d, Last(q))
    BY <1>0 DEF PathsRight
  <2>3. PICK e : /\ e = Place(q)' /\ (e # -1 => e \in Dirs')
                 /\ IsSpoiled(q)' <=> e # -1 /\ Spoils(e, Last(q))'
    BY <1>0 DEF PathsRight
  <2>4. Last(q) \in Names
    BY PathIs
  <2>. QED BY <1>1, <2>1, <2>3, <2>4 DEF Quiet, SpoiledSame
<1>4. spoiledNames' = spoiledNames
  BY <1>3 DEF spoiledNames
<1>. QED BY <1>2, <1>4

LEMMA MadePlaces ==
  ASSUME ClearedInv, ClearedInv', TreeInv, TreeInv', NEW d, NEW k, NEW x, NEW kind,
         MakesName(d, k, x, kind), Seen(d, x) = -1, 0 \in Dirs
  PROVE  \A q \in Paths : \E m, j : /\ m = Place(q) /\ j = Place(q)'
                                    /\ j = m \/ (m = -1 /\ j = k /\ k \in Dirs')
<1>1. PlacesRight /\ PlacesRight'
  BY PathsBoth
<1>2. 0 \in Dirs' /\ k \notin Dirs /\ -1 \notin Dirs /\ -1 \notin Dirs'
  BY Numbers DEF MakesName, Dirs
<1>3. ASSUME NEW a \in Names PROVE Place(<<a>>) = 0 /\ Place(<<a>>)' = 0
  BY <1>1, <1>2 DEF PlacesRight
<1>4. ASSUME NEW a \in Names, NEW b \in Names
      PROVE  \E m, j : /\ m = Place(<<a, b>>) /\ j = Place(<<a, b>>)'
                       /\ j = m \/ (m = -1 /\ j = k /\ k \in Dirs')
  <2>1. PICK m, j : /\ m = Seen(0, a) /\ j = Seen(0, a)'
                    /\ j = (IF 0 = d /\ a = x /\ ~Spoils(0, a) THEN k ELSE m)
                    /\ m # -1 => m # k
    BY DEF MakesName
  <2>2. /\ Place(<<a, b>>) = (IF m \in Dirs THEN m ELSE -1)
        /\ Place(<<a, b>>)' = (IF j \in Dirs' THEN j ELSE -1)
    <3>1. Place(<<a, b>>) = IF m \in Dirs THEN m ELSE -1
      BY <1>1, <2>1 DEF PlacesRight
    <3>2. Place(<<a, b>>)' = IF 0 \in Dirs' /\ Seen(0, a)' \in Dirs' THEN Seen(0, a)' ELSE -1
      BY <1>1 DEF PlacesRight
    <3>. QED BY <1>2, <2>1, <3>1, <3>2
  <2>3. m # -1 => (m \in Dirs' <=> m \in Dirs)
    BY <2>1 DEF MakesName
  <2>4. j # m => m = -1 /\ j = k
    BY <2>1
  <2>. QED BY <1>2, <2>2, <2>3, <2>4
<1>. QED BY <1>3, <1>4, PathNames

\* What the names are when one is made.
LEMMA MadeNames ==
  ASSUME ClearedInv, ClearedInv', TreeInv, TreeInv', 0 \in Dirs, NEW p \in Paths, NEW k, NEW kind,
         Place(p) # -1, Seen(Place(p), Last(p)) = -1, MakesName(Place(p), k, Last(p), kind)
  PROVE  /\ ~Exists(p)
         /\ names' = IF p \in spoiledNames THEN names ELSE names \cup {[path |-> p, kind |-> kind]}
         /\ spoiledNames' = spoiledNames
<1>1. PathsRight /\ PathsRight'
  BY PathsBoth
<1>2. PICK d, x : d = Place(p) /\ x = Last(p)
  OBVIOUS
<1>3. MakesName(d, k, x, kind) /\ d # -1 /\ Seen(d, x) = -1 /\ k # -1
  BY <1>2, Numbers DEF MakesName
<1>4. IsSpoiled(p) <=> Spoils(d, x)
  BY <1>1, <1>2, <1>3 DEF PathsRight
<1>5. ~Exists(p)
  BY <1>1, <1>2, <1>3 DEF PathsRight
<1>6. ASSUME NEW q \in Paths
      PROVE  /\ IsSpoiled(q)' <=> IsSpoiled(q)
             /\ Exists(q)' <=> Exists(q) \/ (q = p /\ ~IsSpoiled(p))
             /\ Exists(q) => Kind(q)' = Kind(q)
             /\ q = p /\ Exists(q)' => Kind(q)' = kind
  <2>1. PICK e, m : /\ e = Place(q) /\ (e # -1 => e \in Dirs /\ m = Seen(e, Last(q)))
                    /\ Exists(q) <=> e # -1 /\ m # -1
                    /\ Exists(q) => Kind(q) = Inode(m).mode
                    /\ IsSpoiled(q) <=> e # -1 /\ Spoils(e, Last(q))
    BY <1>1 DEF PathsRight
  <2>2. PICK f, j : /\ f = Place(q)' /\ (f # -1 => f \in Dirs' /\ j = Seen(f, Last(q))')
                    /\ Exists(q)' <=> f # -1 /\ j # -1
                    /\ Exists(q)' => Kind(q)' = Inode(j)'.mode
                    /\ IsSpoiled(q)' <=> f # -1 /\ Spoils(f, Last(q))'
    BY <1>1 DEF PathsRight
  <2>3. f = e \/ (e = -1 /\ f = k /\ k \in Dirs')
    BY <1>3, <2>1, <2>2, MadePlaces
  <2>4. PICK y \in Names : y = Last(q)
    BY PathIs
  <2>5. CASE e = -1
    <3>1. q # p
      BY <1>2, <1>3, <2>1, <2>5
    <3>2. f # -1 => j = -1 /\ ~Spoils(f, y)'
      BY <1>3, <2>2, <2>3, <2>4, <2>5 DEF MakesName
    <3>. QED BY <2>1, <2>2, <2>4, <2>5, <3>1, <3>2
  <2>6. CASE e # -1
    <3>1. q = p <=> e = d /\ y = x
      BY <1>2, <2>1, <2>4, <2>6, OnePath DEF TreeInv
    <3>2. f = e /\ e \in Dirs /\ e \in Dirs' /\ m = Seen(e, y) /\ j = Seen(e, y)'
      BY <2>1, <2>2, <2>3, <2>4, <2>6
    <3>3. /\ j = IF e = d /\ y = x /\ ~Spoils(e, y) THEN k ELSE m
          /\ m # -1 => m # k /\ Inode(m)'.mode = Inode(m).mode
      BY <1>3, <3>2 DEF MakesName
    <3>4. Spoils(e, y)' <=> Spoils(e, y)
      BY <1>3, <3>2 DEF MakesName, SpoiledSame
    <3>5. Inode(k)'.mode = kind
      BY <1>3 DEF MakesName
    <3>6. IsSpoiled(q)' <=> IsSpoiled(q)
      BY <2>1, <2>2, <2>4, <2>6, <3>2, <3>4
    <3>7. Exists(q)' <=> Exists(q) \/ (q = p /\ ~IsSpoiled(p))
      <4>1. CASE q = p /\ ~Spoils(d, x)
        BY <1>3, <1>4, <2>2, <2>6, <3>1, <3>2, <3>3, <4>1
      <4>2. CASE ~ (q = p /\ ~Spoils(d, x))
        BY <1>4, <2>1, <2>2, <2>6, <3>1, <3>2, <3>3, <4>2
      <4>. QED BY <4>1, <4>2
    <3>8. Exists(q) => Kind(q)' = Kind(q)
      <4>1. ASSUME Exists(q) PROVE j = m /\ m # -1 /\ Exists(q)'
        BY <1>3, <2>1, <3>1, <3>2, <3>3, <3>7, <4>1
      <4>. QED BY <2>1, <2>2, <3>3, <4>1
    <3>9. q = p /\ Exists(q)' => Kind(q)' = kind
      <4>1. ASSUME q = p, Exists(q)' PROVE j = k
        BY <1>3, <1>5, <2>2, <3>1, <3>2, <3>3, <4>1
      <4>. QED BY <2>2, <3>5, <4>1
    <3>. QED BY <3>6, <3>7, <3>8, <3>9
  <2>. QED BY <2>5, <2>6
<1>7. spoiledNames' = spoiledNames /\ (p \in spoiledNames <=> IsSpoiled(p))
  BY <1>6 DEF spoiledNames
<1>8. CASE IsSpoiled(p)
  <2>1. names' = names
    BY <1>6, <1>8 DEF names
  <2>. QED BY <1>5, <1>7, <1>8, <2>1
<1>9. CASE ~IsSpoiled(p)
  <2>1. Exists(p)' /\ Kind(p)' = kind
    BY <1>6, <1>9
  <2>2. \A q \in Paths : (Exists(q)' <=> Exists(q) \/ q = p) /\ (Exists(q) => Kind(q)' = Kind(q))
    BY <1>6, <1>9
  <2>3. names' = names \cup {[path |-> p, kind |-> kind]}
    BY <2>1, <2>2 DEF names
  <2>. QED BY <1>5, <1>7, <1>9, <2>3
<1>. QED BY <1>8, <1>9

\* What they are when one is removed: those in it go too.
LEMMA RemovedNames ==
  ASSUME ClearedInv, ClearedInv', TreeInv, TreeInv', NEW p \in Paths, NEW k, NEW kind,
         Place(p) # -1, RemovesName(Place(p), k, Last(p), kind)
  PROVE  /\ Exists(p) /\ Kind(p) = kind
         /\ names' = {f \in names : f.path # p /\ Directory(f.path) # p}
         /\ spoiledNames' = {q \in spoiledNames : Directory(q) # p}
<1>1. PathsRight /\ PathsRight' /\ PlacesRight
  BY PathsBoth
<1>2. PICK d, x : d = Place(p) /\ x = Last(p)
  OBVIOUS
<1>3. RemovesName(d, k, x, kind) /\ d # -1 /\ Seen(d, x) = k /\ k # -1 /\ k # 0 /\ k # d
  BY <1>2, Numbers DEF RemovesName
<1>4. Exists(p) /\ Kind(p) = kind /\ ~IsSpoiled(p)
  <2>1. Exists(p) /\ Kind(p) = Inode(k).mode
    BY <1>1, <1>2, <1>3 DEF PathsRight
  <2>2. Inode(k).mode = kind /\ Inode(k).mode # "none" /\ k = Lookup(Entries(d), x)
    BY <1>3 DEF RemovesName, Seen
  <2>3. ~Spoils(d, x)
    BY <2>2 DEF Spoils, Lost
  <2>4. IsSpoiled(p) <=> Spoils(d, x)
    BY <1>1, <1>2, <1>3 DEF PathsRight
  <2>. QED BY <2>1, <2>2, <2>3, <2>4
<1>5. ASSUME NEW q \in Paths
      PROVE  /\ Place(q) = k => Directory(q) = p
             /\ Directory(q) = p => Place(q) \in {k, -1}
  <2>1. ASSUME Place(q) = k PROVE Directory(q) = p
    <3>1. 0 \in Dirs
      BY <1>1, <1>3, <2>1, PathNames DEF PlacesRight
    <3>2. PICK a \in Names, b \in Names : q = <<a, b>>
      BY <1>1, <1>3, <2>1, <3>1, PathNames DEF PlacesRight
    <3>3. Seen(0, a) = k
      BY <1>1, <1>3, <2>1, <3>2 DEF PlacesRight
    <3>4. 0 = d /\ a = x
      BY <1>3, <3>1, <3>3 DEF RemovesName
    <3>5. <<a>> \in Paths /\ Place(<<a>>) = 0 /\ Last(<<a>>) = a /\ Directory(q) = <<a>>
      BY <1>1, <3>1, <3>2, PathNames DEF PlacesRight
    <3>6. <<a>> = p
      BY <1>2, <1>3, <3>4, <3>5, OnePath DEF TreeInv
    <3>. QED BY <3>5, <3>6
  <2>2. ASSUME Directory(q) = p PROVE Place(q) \in {k, -1}
    <3>1. InodeFromPath(p) = k
      BY <1>1, <1>2, <1>3, <1>4 DEF PlacesRight
    <3>. QED BY <2>2, <3>1 DEF Place
  <2>. QED BY <2>1, <2>2
<1>6. ASSUME NEW q \in Paths
      PROVE  /\ IsSpoiled(q)' <=> IsSpoiled(q) /\ Directory(q) # p
             /\ Exists(q)' <=> Exists(q) /\ q # p /\ Directory(q) # p
             /\ Exists(q)' => Kind(q)' = Kind(q)
  <2>1. PICK e, m : /\ e = Place(q) /\ (e # -1 => e \in Dirs /\ m = Seen(e, Last(q)))
                    /\ Exists(q) <=> e # -1 /\ m # -1
                    /\ Exists(q) => Kind(q) = Inode(m).mode
                    /\ IsSpoiled(q) <=> e # -1 /\ Spoils(e, Last(q))
    BY <1>1 DEF PathsRight
  <2>2. PICK f, j : /\ f = Place(q)' /\ (f # -1 => f \in Dirs' /\ j = Seen(f, Last(q))')
                    /\ Exists(q)' <=> f # -1 /\ j # -1
                    /\ Exists(q)' => Kind(q)' = Inode(j)'.mode
                    /\ IsSpoiled(q)' <=> f # -1 /\ Spoils(f, Last(q))'
    BY <1>1 DEF PathsRight
  <2>3. f = IF e = k THEN -1 ELSE e
    BY <1>3, <2>1, <2>2, RemovedPlaces DEF TreeInv
  <2>4. PICK y \in Names : y = Last(q)
    BY PathIs
  <2>5. CASE e = -1 \/ e = k
    <3>1. f = -1 /\ (e = k => Directory(q) = p)
      BY <1>5, <2>1, <2>3, <2>5
    <3>. QED BY <2>1, <2>2, <2>5, <3>1
  <2>6. CASE e # -1 /\ e # k
    <3>1. (q = p <=> e = d /\ y = x) /\ Directory(q) # p
      BY <1>2, <1>5, <2>1, <2>4, <2>6, OnePath DEF TreeInv
    <3>2. f = e /\ e \in Dirs /\ e \in Dirs' /\ m = Seen(e, y) /\ j = Seen(e, y)'
      BY <2>1, <2>2, <2>3, <2>4, <2>6
    <3>3. /\ j = IF e = d /\ y = x THEN -1 ELSE m
          /\ j # -1 => Inode(j)'.mode = Inode(j).mode
      BY <1>3, <3>2 DEF RemovesName
    <3>4. Spoils(e, y)' <=> Spoils(e, y)
      BY <1>3, <3>2 DEF RemovesName, SpoiledSame
    <3>5. IsSpoiled(q)' <=> IsSpoiled(q)
      BY <2>1, <2>2, <2>4, <2>6, <3>2, <3>4
    <3>6. Exists(q)' <=> Exists(q) /\ q # p
      BY <2>1, <2>2, <2>6, <3>1, <3>2, <3>3
    <3>7. Exists(q)' => Kind(q)' = Kind(q)
      <4>1. ASSUME Exists(q)' PROVE j = m /\ m # -1 /\ Exists(q)
        BY <2>1, <2>2, <3>1, <3>2, <3>3, <3>6, <4>1
      <4>. QED BY <2>1, <2>2, <3>3, <4>1
    <3>. QED BY <3>1, <3>5, <3>6, <3>7
  <2>. QED BY <2>5, <2>6
<1>7. spoiledNames' = {q \in spoiledNames : Directory(q) # p}
  BY <1>6 DEF spoiledNames
<1>8. names' = {f \in names : f.path # p /\ Directory(f.path) # p}
  BY <1>6 DEF names
<1>. QED BY <1>4, <1>7, <1>8

\* A crash spoils at most the names that are worked on.
LEMMA CrashNames ==
  ASSUME ClearedInv, ClearedInv', TreeInv, TreeInv', Crash
  PROVE  /\ names' = names
         /\ \E paths \in SUBSET {loc[w].path : w \in Workers} : spoiledNames' = spoiledNames \cup paths
<1>1. PathsRight /\ PathsRight' /\ Kept /\ OnceInv /\ \A n, x : ~Pending(n, x)'
  BY PathsBoth, CrashTree DEF TreeInv, Shape
<1>2. \A q : Exists(q)' = Exists(q) /\ Place(q)' = Place(q) /\ InodeFromPath(q)' = InodeFromPath(q)
  BY <1>1, ShapeKept
<1>3. \A n : Inode(n)' = Inode(n)
  BY <1>1, ShapeKept
<1>4. names' = names
  <2>1. \A q \in Paths : Kind(q)' = Kind(q)
    BY <1>2, <1>3 DEF Kind
  <2>. QED BY <1>2, <2>1 DEF names
<1>5. ASSUME NEW q \in Paths
      PROVE  /\ IsSpoiled(q) => IsSpoiled(q)'
             /\ IsSpoiled(q)' => IsSpoiled(q) \/ q \in {loc[w].path : w \in Workers}
  <2>1. PICK d : /\ d = Place(q) /\ (d # -1 => d \in Dirs)
                 /\ IsSpoiled(q) <=> d # -1 /\ Spoils(d, Last(q))
    BY <1>1 DEF PathsRight
  <2>2. PICK e : /\ e = Place(q)'
                 /\ IsSpoiled(q)' <=> e # -1 /\ Spoils(e, Last(q))'
    BY <1>1 DEF PathsRight
  <2>3. e = d
    BY <1>2, <2>1, <2>2
  <2>4. PICK y \in Names : y = Last(q)
    BY PathIs
  <2>5. PICK m : m = Lookup(Entries(d), y)
    OBVIOUS
  <2>6. d # -1 => m = Lookup(Entries(d), y)'
    BY <1>1, <2>1, <2>5 DEF Kept, Dirs
  <2>7. d # -1 => (Spoils(d, y)' <=> m # -1 /\ Inode(m).mode = "none")
    <3>1. ASSUME d # -1 PROVE \E j : /\ j = Lookup(Entries(d), y)'
                                     /\ j = m /\ (Lost(d, j)' <=> Inode(j).mode = "none")
      BY <1>1, <1>3, <2>6, <3>1 DEF Lost
    <3>. QED BY <3>1 DEF Spoils, Lost, Pending, Inode
  <2>8. Spoils(d, y) <=> m # -1 /\ Inode(m).mode = "none" /\ ~Pending(d, m)
    BY <2>5 DEF Spoils, Lost
  <2>9. ASSUME d # -1, m # -1, Pending(d, m) PROVE q \in {loc[w].path : w \in Workers}
    <3>1. PICK w \in Workers : Between(w) /\ loc[w].dir = d /\ loc[w].num = m
      BY <2>9 DEF Pending
    <3>2. PICK p : p = loc[w].path
      OBVIOUS
    <3>3. p \in Paths /\ d = Place(p) /\ d \in Dirs
          /\ \E i \in Behind(d) : Entries(d)[i].name = Last(p) /\ Child(d, i) = m
      BY <3>1, <3>2, BetweenAt
    <3>4. PICK i \in Behind(d) : Entries(d)[i].name = Last(p) /\ Child(d, i) = m
      BY <3>3
    <3>5. \E k \in Behind(d) : Entries(d)[k].name = y /\ Child(d, k) = m
      BY <2>4, <2>5, <2>9, <3>3, NamedIs DEF ClearedInv, ClearedInodes, FSInv, DiskInv, TreeInv, Shape
    <3>6. Last(p) = y
      BY <1>1, <3>3, <3>4, <3>5 DEF OnceInv
    <3>7. p = q
      BY <2>1, <2>4, <2>9, <3>3, <3>6, OnePath DEF TreeInv
    <3>. QED BY <3>2, <3>7
  <2>. QED BY <2>1, <2>2, <2>3, <2>4, <2>7, <2>8, <2>9
<1>6. spoiledNames \subseteq spoiledNames'
      /\ spoiledNames' \ spoiledNames \subseteq {loc[w].path : w \in Workers}
  BY <1>5 DEF spoiledNames
<1>7. spoiledNames' = spoiledNames \cup (spoiledNames' \ spoiledNames)
  BY <1>6
<1>. QED BY <1>4, <1>6, <1>7

LEMMA BlankNames == ClearedInv /\ TreeInv /\ Blank => names = {} /\ spoiledNames = {}
<1>. SUFFICES ASSUME ClearedInv, TreeInv, Blank PROVE names = {} /\ spoiledNames = {}
  OBVIOUS
<1>1. \A q \in Paths : ~Exists(q) /\ (Place(q) # -1 => ~Spoils(Place(q), Last(q)))
  BY NoNames DEF TreeInv
<1>2. \A q \in Paths : ~IsSpoiled(q)
  BY <1>1, SpoiledIs
<1>. QED BY <1>1, <1>2 DEF names, spoiledNames

-----------------------------------------------------------------------------
(***************************************************************************)
(* The requests of NameTree.                                               *)
(***************************************************************************)
Doing(w) == pc[w] \in Finding \cup Filling \cup {"read inode", "write inode"}

LEMMA StateIs ==
  ClearedInv => \A w \in Workers :
    /\ Doing(w) => RequestState(w) = "pending"
    /\ pc[w] = "idle" => RequestState(w) = IF loc[w].ret = "ok" THEN "done" ELSE "failed"
    /\ ~Doing(w) /\ pc[w] # "idle" => RequestState(w) = "done"
  BY DEF ClearedInv, ClearedInodes, FSInv, Types, Doing, RequestState, Finding, Filling, Removing, Deleting

\* The other requests, if there were any, stay.
LEMMA RequestsIs ==
  ASSUME OneRequest, NEW w \in Workers
  PROVE  /\ requests[w].call = loc[w].call /\ requests[w].path = loc[w].path
         /\ requests[w].state = RequestState(w)
         /\ requests' = [requests EXCEPT ![w] = [call |-> loc'[w].call, path |-> loc'[w].path,
                                                 state |-> RequestState(w)']]
         /\ loc'[w].call = loc[w].call /\ loc'[w].path = loc[w].path =>
              requests' = [requests EXCEPT ![w].state = RequestState(w)']
<1>1. \A v \in Workers : v = w
  BY DEF OneRequest
<1>2. requests[w] = [call |-> loc[w].call, path |-> loc[w].path, state |-> RequestState(w)]
  BY DEF requests
<1>3. requests' = [v \in Workers |-> [call |-> loc'[w].call, path |-> loc'[w].path,
                                      state |-> RequestState(w)']]
  BY <1>1 DEF requests
<1>. QED BY <1>1, <1>2, <1>3 DEF requests

LEMMA Replied ==
  ASSUME Types, NEW w \in Workers, NEW r, Reply(w, r)
  PROVE  /\ pc'[w] = "idle" /\ loc'[w].call = loc[w].call /\ loc'[w].path = loc[w].path
         /\ loc'[w].ret = r
<1>1. pc'[w] = "idle" /\ loc'[w] = [NoCall EXCEPT !.call = loc[w].call, !.path = loc[w].path, !.ret = r]
  BY Went DEF Reply
<1>. QED BY <1>1 DEF NoCall

\* Where the steps of a request lead.
LEMMA CreateGoes ==
  ASSUME ClearedInv, OneRequest, NEW w \in Workers, CreateStep(w)
  PROVE  /\ loc'[w].call = loc[w].call /\ loc'[w].path = loc[w].path /\ Doing(w)
         /\ WriteTable(w) => /\ pc'[w] = "idle" /\ loc'[w].ret = "ok"
                             /\ loc[w].call \in {"create", "mkdir"}
         /\ ~WriteTable(w) => Doing(w)' \/ (pc'[w] = "idle" /\ loc'[w].ret # "ok")
<1>1. /\ Types /\ loc[w] \in CallType /\ FindingInv(w)
      /\ WriteTable(w) => pc[w] = "write table"
  BY DEF ClearedInv, ClearedInodes, FSInv, Types, RequestInv, WriteTable, At
<1>2. CASE ReadInodeBitmap(w)
  <2>1. pc[w] = "find inode"
        /\ \/ \E r : r # "ok" /\ Reply(w, r)
           \/ /\ pc'[w] = "write inode bitmap"
              /\ loc'[w].call = loc[w].call /\ loc'[w].path = loc[w].path
    BY <1>1, <1>2, Went DEF ReadInodeBitmap, At, CallType
  <2>2. pc'[w] = "write inode bitmap" => Doing(w)'
    BY DEF Doing, Finding
  <2>3. ASSUME NEW r, r # "ok", Reply(w, r)
        PROVE  /\ pc'[w] = "idle" /\ loc'[w].call = loc[w].call
               /\ loc'[w].path = loc[w].path /\ loc'[w].ret # "ok"
    BY <1>1, <2>3, Replied
  <2>. QED BY <1>1, <2>1, <2>2, <2>3 DEF Doing, Finding
<1>3. CASE WriteInodeBitmap(w)
  BY <1>1, <1>3, Went, Replied DEF WriteInodeBitmap, At, CallType, Doing, Finding
<1>4. CASE ReadTable(w)
  <2>1. pc[w] = "read table"
        /\ \/ \E r : r # "ok" /\ Reply(w, r)
           \/ /\ pc'[w] = "find block"
              /\ loc'[w].call = loc[w].call /\ loc'[w].path = loc[w].path
    BY <1>1, <1>4, Went DEF ReadTable, At, CallType
  <2>2. pc'[w] = "find block" => Doing(w)'
    BY DEF Doing, Finding
  <2>3. ASSUME NEW r, r # "ok", Reply(w, r)
        PROVE  /\ pc'[w] = "idle" /\ loc'[w].call = loc[w].call
               /\ loc'[w].path = loc[w].path /\ loc'[w].ret # "ok"
    BY <1>1, <2>3, Replied
  <2>. QED BY <1>1, <2>1, <2>2, <2>3 DEF Doing, Finding
<1>5. CASE ReadBlockBitmap(w)
  <2>1. /\ pc[w] = "find block" /\ pc'[w] = "write block bitmap"
        /\ loc'[w].call = loc[w].call /\ loc'[w].path = loc[w].path
    BY <1>1, <1>5, Went DEF ReadBlockBitmap, At, CallType
  <2>. QED BY <1>1, <2>1 DEF Doing, Finding, Filling
<1>6. CASE WriteBlockBitmap(w)
  <2>1. /\ pc[w] = "write block bitmap" /\ pc'[w] \in {"write dots", "read directory"}
        /\ loc'[w].call = loc[w].call /\ loc'[w].path = loc[w].path
    BY <1>1, <1>6, Went DEF WriteBlockBitmap, At, CallType
  <2>. QED BY <1>1, <2>1 DEF Doing, Filling
<1>7. CASE WriteDots(w)
  BY <1>1, <1>7, Went, Replied DEF WriteDots, At, CallType, Doing, Filling
<1>8. CASE ReadDirectory(w)
  BY <1>1, <1>8, Went, Replied DEF ReadDirectory, At, CallType, Doing, Filling
<1>9. CASE FillEntry(w)
  <2>1. pc[w] = "fill entry" /\ pc'[w] = "write entry"
    BY <1>1, <1>9, Went DEF FillEntry, At
  <2>2. loc' = loc \/ \E s : Set(w, [loc[w] EXCEPT !.buffer = s])
    <3>1. entry.owner \in Workers => entry.owner = w
      BY DEF OneRequest
    <3>. QED BY <1>9, <3>1 DEF FillEntry
  <2>3. loc'[w].call = loc[w].call /\ loc'[w].path = loc[w].path
    BY <1>1, <2>2, Went DEF CallType
  <2>. QED BY <1>1, <2>1, <2>3 DEF Doing, Filling
<1>10. CASE WriteEntry(w)
  BY <1>1, <1>10, Went, Replied DEF WriteEntry, At, CallType, Doing, Filling
<1>11. CASE WriteTable(w)
  BY <1>1, <1>11, Went, Replied DEF WriteTable, At, CallType, Doing, Filling, FindingInv
<1>. QED BY <1>2, <1>3, <1>4, <1>5, <1>6, <1>7, <1>8, <1>9, <1>10, <1>11 DEF CreateStep

LEMMA RemoveGoes ==
  ASSUME ClearedInv, TreeInv, OneRequest, NEW w \in Workers, RemoveStep(w)
  PROVE  /\ loc'[w].call = loc[w].call /\ loc'[w].path = loc[w].path
         /\ WriteInode(w) => Doing(w) /\ pc'[w] = "read entries" /\ loc[w].call \in {"unlink", "rmdir"}
         /\ ReadInode(w) => Doing(w) /\ Doing(w)'
         /\ ~WriteInode(w) /\ ~ReadInode(w) =>
              /\ ~Doing(w) /\ pc[w] # "idle"
              /\ ~Doing(w)' /\ (pc'[w] = "idle" => loc'[w].ret = "ok")
<1>1. Types /\ loc[w] \in CallType /\ loc \in [Workers -> CallType] /\ RemovingInv(w)
  BY DEF ClearedInv, ClearedInodes, FSInv, Types, RequestInv
<1>2. CASE ReadInode(w)
  <2>1. pc'[w] \in {"write inode", "write entries"}
    BY <1>2, ReadTree
  <2>. QED BY <1>1, <1>2, <2>1, Went DEF ReadInode, At, CallType, Doing, WriteInode
<1>3. CASE WriteInode(w)
  BY <1>1, <1>3, Went DEF WriteInode, ReadInode, At, CallType, Doing, RemovingInv, Removing
<1>4. CASE ReadEntries(w)
  <2>1. pc'[w] \in {"write inode", "write entries"}
    BY <1>4, ReadTree
  <2>. QED BY <1>1, <1>4, <2>1, Went DEF ReadEntries, At, CallType, Doing, Finding, Filling, WriteInode, ReadInode
<1>5. CASE WriteEntries(w)
  <2>1. /\ pc[w] = "write entries"
        /\ \/ Reply(w, "ok")
           \/ /\ pc'[w] = "read block"
              /\ loc'[w].call = loc[w].call /\ loc'[w].path = loc[w].path
    BY <1>1, <1>5, Went DEF WriteEntries, At, CallType
  <2>2. Reply(w, "ok") => /\ pc'[w] = "idle" /\ loc'[w].ret = "ok"
                          /\ loc'[w].call = loc[w].call /\ loc'[w].path = loc[w].path
    BY <1>1, Replied
  <2>. QED BY <2>1, <2>2 DEF At, Doing, Finding, Filling, WriteInode, ReadInode
<1>6. CASE ReadDeletedBlock(w)
  BY <1>1, <1>6, Went DEF ReadDeletedBlock, At, CallType, Doing, Finding, Filling, WriteInode, ReadInode
<1>7. CASE DeleteEntries(w)
  <2>1. /\ pc[w] = "delete entries" /\ pc'[w] \in {"leave", "delete inode", "delete entries"}
        /\ loc'[w].call = loc[w].call /\ loc'[w].path = loc[w].path
    BY <1>1, <1>7, Went DEF DeleteEntries, At, CallType, SetFrame
  <2>. QED BY <2>1 DEF At, Doing, Finding, Filling, WriteInode, ReadInode
<1>8. CASE DeleteInode(w)
  BY <1>1, <1>8, Went DEF DeleteInode, At, CallType, Doing, Finding, Filling, WriteInode, ReadInode
<1>9. CASE Leave(w)
  <2>1. /\ pc[w] = "leave"
        /\ \/ Reply(w, "ok")
           \/ /\ pc'[w] = "delete entries"
              /\ loc'[w].call = loc[w].call /\ loc'[w].path = loc[w].path
    BY <1>1, <1>9, Went DEF Leave, At, CallType, SetFrame
  <2>2. Reply(w, "ok") => /\ pc'[w] = "idle" /\ loc'[w].ret = "ok"
                          /\ loc'[w].call = loc[w].call /\ loc'[w].path = loc[w].path
    BY <1>1, Replied
  <2>. QED BY <2>1, <2>2 DEF At, Doing, Finding, Filling, WriteInode, ReadInode
<1>. QED BY <1>2, <1>3, <1>4, <1>5, <1>6, <1>7, <1>8, <1>9 DEF RemoveStep

-----------------------------------------------------------------------------
(***************************************************************************)
(* Every step is one of NameTree or changes nothing there.                 *)
(***************************************************************************)
SameTree == UNCHANGED <<names, spoiledNames, requests>>

LEMMA TreeDirectory == \A q : Tree!Directory(q) = Directory(q)
  BY DEF Tree!Directory, Directory, Front

\* A request begins.
LEMMA AskMaps ==
  ASSUME ClearedInv, ClearedInv', TreeInv, TreeInv', OneRequest, NEW w \in Workers, Request(w)
  PROVE  Tree!Next
<1>1. UNCHANGED <<names, spoiledNames>>
  BY StartTree, QuietNames
<1>2. PICK path \in Paths, call \in {"create", "mkdir", "unlink", "rmdir"} :
        StartCreate(w, call, path) \/ StartRemove(w, call, path)
  BY DEF Request
<1>3. /\ pc[w] = "idle" /\ pc'[w] \in {"find inode", "read inode"}
      /\ loc'[w].call = call /\ loc'[w].path = path
  <2>1. CASE StartCreate(w, call, path)
    BY <2>1, Went DEF ClearedInv, ClearedInodes, FSInv, StartCreate, Begin, At, NoCall
  <2>2. CASE StartRemove(w, call, path)
    <3>1. PICK n, b, d :
            /\ Begin(w, call, path, "read inode")
            /\ Set(w, [NoCall EXCEPT !.call = call, !.path = path, !.num = n, !.block = b, !.dir = d])
      BY <2>2 DEF StartRemove
    <3>. QED BY <3>1, Went, ZenonT(30) DEF ClearedInv, ClearedInodes, FSInv, Begin, At, NoCall
  <2>. QED BY <1>2, <2>1, <2>2
<1>4. RequestState(w) # "pending" /\ RequestState(w)' = "pending"
  BY <1>3 DEF RequestState
<1>5. /\ requests[w].state # "pending"
      /\ requests' = [requests EXCEPT ![w] = [call |-> call, path |-> path, state |-> "pending"]]
  BY <1>3, <1>4, RequestsIs
<1>6. Tree!Ask(w, call, path)
  BY <1>1, <1>5 DEF Tree!Ask
<1>. QED BY <1>6 DEF Tree!Next

\* The inode is written: the last write of a create, the first of a removal.
LEMMA MakeMaps ==
  ASSUME ClearedInv, ClearedInv', TreeInv, TreeInv', OneRequest, NEW w \in Workers, WriteTable(w)
  PROVE  Tree!Next
<1>1. /\ loc'[w].call = loc[w].call /\ loc'[w].path = loc[w].path /\ Doing(w)
      /\ pc'[w] = "idle" /\ loc'[w].ret = "ok" /\ loc[w].call \in {"create", "mkdir"}
  BY CreateGoes DEF CreateStep
<1>2. PICK p, kind : p = loc[w].path /\ kind = IF loc[w].call = "mkdir" THEN "dir" ELSE "file"
  OBVIOUS
<1>3. p \in Paths
  BY <1>1, <1>2 DEF ClearedInv, ClearedInodes, FSInv, Types, Doing, Finding, Filling
<1>4. PlacesRight
  BY PathsBoth
<1>5. Place(p) # -1 /\ Seen(Place(p), Last(p)) = -1 /\ MakesName(Place(p), loc[w].num, Last(p), kind)
  BY <1>2, TableTree
<1>6. 0 \in Dirs
  BY <1>3, <1>4, <1>5, PathNames DEF PlacesRight
<1>7. /\ ~Exists(p)
      /\ names' = IF p \in spoiledNames THEN names ELSE names \cup {[path |-> p, kind |-> kind]}
      /\ spoiledNames' = spoiledNames
  BY <1>3, <1>5, <1>6, MadeNames
<1>8. \A f \in names : f.path # p
  BY <1>7 DEF names
<1>9. Directory(p) # <<>> => [path |-> Directory(p), kind |-> "dir"] \in names
  <2>1. ASSUME Directory(p) # <<>> PROVE Directory(p) \in Paths
    BY <1>3, <2>1, PathNames
  <2>2. Exists(Directory(p)) /\ Kind(Directory(p)) = "dir"
    BY <1>3, <1>4, <1>5 DEF PlacesRight, Kind, Dirs
  <2>. QED BY <2>1, <2>2 DEF names
<1>10. RequestState(w) = "pending" /\ RequestState(w)' = "done"
  BY <1>1, StateIs DEF RequestState
<1>11. /\ requests[w].state = "pending" /\ requests[w].path = p /\ requests[w].call = loc[w].call
       /\ requests' = [requests EXCEPT ![w].state = "done"]
  BY <1>1, <1>2, <1>10, RequestsIs
<1>12. Tree!Make(w, loc[w].call, kind)
  BY <1>7, <1>8, <1>9, <1>11, TreeDirectory DEF Tree!Make, Tree!Answer
<1>13. \/ loc[w].call = "create" /\ kind = "file"
       \/ loc[w].call = "mkdir" /\ kind = "dir"
  BY <1>1, <1>2
<1>. QED BY <1>12, <1>13 DEF Tree!Next

LEMMA RemoveMaps ==
  ASSUME ClearedInv, ClearedInv', TreeInv, TreeInv', OneRequest, NEW w \in Workers, WriteInode(w)
  PROVE  Tree!Next
<1>1. /\ loc'[w].call = loc[w].call /\ loc'[w].path = loc[w].path /\ Doing(w)
      /\ pc'[w] = "read entries" /\ loc[w].call \in {"unlink", "rmdir"}
  BY RemoveGoes DEF RemoveStep
<1>2. PICK p, kind : p = loc[w].path /\ kind = IF loc[w].call = "rmdir" THEN "dir" ELSE "file"
  OBVIOUS
<1>3. p \in Paths
  BY <1>1, <1>2 DEF ClearedInv, ClearedInodes, FSInv, Types, Doing, Finding, Filling
<1>4. Place(p) # -1 /\ RemovesName(Place(p), loc[w].num, Last(p), kind)
  BY <1>2, InodeTree
<1>5. /\ Exists(p) /\ Kind(p) = kind
      /\ names' = {f \in names : f.path # p /\ Directory(f.path) # p}
      /\ spoiledNames' = {q \in spoiledNames : Directory(q) # p}
  BY <1>3, <1>4, RemovedNames
<1>6. [path |-> p, kind |-> kind] \in names
  BY <1>3, <1>5 DEF names
<1>7. RequestState(w) = "pending" /\ RequestState(w)' = "done"
  BY <1>1, StateIs DEF RequestState
<1>8. /\ requests[w].state = "pending" /\ requests[w].path = p /\ requests[w].call = loc[w].call
      /\ requests' = [requests EXCEPT ![w].state = "done"]
  BY <1>1, <1>2, <1>7, RequestsIs
<1>9. /\ names' = {f \in names : f.path # p /\ Tree!Directory(f.path) # p}
      /\ spoiledNames' = {q \in spoiledNames : Tree!Directory(q) # p}
  BY <1>5, TreeDirectory
<1>10. Tree!Remove(w, loc[w].call, kind)
  BY <1>6, <1>8, <1>9 DEF Tree!Remove, Tree!Answer
<1>11. \/ loc[w].call = "unlink" /\ kind = "file"
       \/ loc[w].call = "rmdir" /\ kind = "dir"
  BY <1>1, <1>2
<1>. QED BY <1>10, <1>11 DEF Tree!Next

\* The other steps of a create leave the names alone, or it fails.
LEMMA CreateMaps ==
  ASSUME ClearedInv, ClearedInv', TreeInv, TreeInv', OneRequest, NEW w \in Workers, CreateStep(w), ~WriteTable(w)
  PROVE  SameTree \/ Tree!Next
<1>1. Quiet
  BY FindTree, FillTree, EntryTree DEF CreateStep
<1>2. UNCHANGED <<names, spoiledNames>>
  BY <1>1, QuietNames
<1>3. /\ loc'[w].call = loc[w].call /\ loc'[w].path = loc[w].path /\ Doing(w)
      /\ Doing(w)' \/ (pc'[w] = "idle" /\ loc'[w].ret # "ok")
  BY CreateGoes
<1>4. RequestState(w) = "pending" /\ RequestState(w)' \in {"pending", "failed"}
  <2>1. ClearedInv' => (Doing(w)' => RequestState(w)' = "pending")
    BY DEF ClearedInv, ClearedInodes, FSInv, Types, Doing, RequestState, Finding, Filling, Removing, Deleting
  <2>2. pc'[w] = "idle" /\ loc'[w].ret # "ok" => RequestState(w)' = "failed"
    BY DEF RequestState
  <2>. QED BY <1>3, <2>1, <2>2, StateIs
<1>5. PICK r : r = RequestState(w)' /\ r \in {"pending", "failed"}
  BY <1>4
<1>6. requests[w].state = "pending" /\ requests' = [requests EXCEPT ![w].state = r]
  BY <1>3, <1>4, <1>5, RequestsIs
<1>7. CASE r = "failed"
  <2>1. Tree!Fail(w)
    BY <1>2, <1>6, <1>7 DEF Tree!Fail, Tree!Answer
  <2>. QED BY <2>1 DEF Tree!Next
<1>8. CASE r = "pending"
  <2>1. requests' = requests
    BY <1>6, <1>8 DEF requests
  <2>. QED BY <1>2, <2>1 DEF SameTree
<1>. QED BY <1>5, <1>7, <1>8

\* And those of a removal.
LEMMA RemovalMaps ==
  ASSUME ClearedInv, ClearedInv', TreeInv, TreeInv', OneRequest, NEW w \in Workers, RemoveStep(w), ~WriteInode(w)
  PROVE  SameTree
<1>1. Quiet
  BY ReadTree, OutTree, DeleteTree DEF RemoveStep
<1>2. UNCHANGED <<names, spoiledNames>>
  BY <1>1, QuietNames
<1>3. /\ loc'[w].call = loc[w].call /\ loc'[w].path = loc[w].path
      /\ \/ Doing(w) /\ Doing(w)'
         \/ /\ ~Doing(w) /\ pc[w] # "idle"
            /\ ~Doing(w)' /\ (pc'[w] = "idle" => loc'[w].ret = "ok")
  BY RemoveGoes
<1>4. RequestState(w)' = RequestState(w)
  <2>1. ClearedInv' => /\ Doing(w)' => RequestState(w)' = "pending"
                       /\ ~Doing(w)' /\ (pc'[w] = "idle" => loc'[w].ret = "ok") => RequestState(w)' = "done"
    BY DEF ClearedInv, ClearedInodes, FSInv, Types, Doing, RequestState, Finding, Filling, Removing, Deleting
  <2>. QED BY <1>3, <2>1, StateIs
<1>5. PICK r : r = RequestState(w) /\ requests[w].state = r /\ requests' = [requests EXCEPT ![w].state = r]
  BY <1>3, <1>4, RequestsIs
<1>6. requests' = requests
  BY <1>5 DEF requests
<1>. QED BY <1>2, <1>6 DEF SameTree

\* Whatever was under way is lost.
LEMMA CrashMaps ==
  ASSUME ClearedInv, ClearedInv', TreeInv, TreeInv', Crash
  PROVE  Tree!Next
<1>1. /\ names' = names
      /\ \E paths \in SUBSET {loc[w].path : w \in Workers} : spoiledNames' = spoiledNames \cup paths
  BY CrashNames
<1>2. {requests[w].path : w \in Workers} = {loc[w].path : w \in Workers}
  BY DEF requests
<1>3. requests' = [w \in Workers |-> Tree!NoRequest]
  <2>1. ASSUME NEW w \in Workers
        PROVE  /\ loc'[w].call = "none" /\ loc'[w].path = <<>> /\ RequestState(w)' = "failed"
    BY DEF Crash, NoCall, RequestState
  <2>. QED BY <2>1 DEF requests, Tree!NoRequest
<1>4. Tree!Crash
  BY <1>1, <1>2, <1>3 DEF Tree!Crash
<1>. QED BY <1>4 DEF Tree!Next

\* Mounting makes no names.
LEMMA MountMaps ==
  ASSUME ClearedInv, ClearedInv', TreeInv, TreeInv', MountStep
  PROVE  SameTree
<1>1. UNCHANGED <<pc, loc>>
  BY DEF MountStep, Mount, FormatSuper, FormatInodeBitmap, FormatBlockBitmaps,
     FormatFirstBlockBitmap, FormatRootBlock, FormatRootEntries, FormatInodeTable, Format
<1>2. requests' = requests
  BY <1>1 DEF requests, RequestState
<1>3. CASE Mount
  BY <1>2, <1>3, MountTree, QuietNames DEF SameTree
<1>4. CASE ~Mount
  <2>1. Blank /\ Blank'
    BY <1>4, FormatTree
  <2>2. (ClearedInv /\ TreeInv /\ Blank)' => (names = {} /\ spoiledNames = {})'
    BY BlankNames, PTL
  <2>. QED BY <1>2, <2>1, <2>2, BlankNames DEF SameTree
<1>. QED BY <1>3, <1>4

LEMMA TreeStep ==
  ASSUME ClearedInv, ClearedInv', TreeInv, TreeInv', OneRequest, [Next]_vars
  PROVE  SameTree \/ Tree!Next
<1>1. CASE UNCHANGED vars
  <2>1. requests' = requests
    BY <1>1 DEF vars, requests, RequestState
  <2>. QED BY <1>1, <2>1, StutterTree, QuietNames DEF SameTree
<1>2. ASSUME NEW w \in Workers, Request(w) \/ CreateStep(w) \/ RemoveStep(w)
      PROVE  SameTree \/ Tree!Next
  BY <1>2, AskMaps, MakeMaps, RemoveMaps, CreateMaps, RemovalMaps
<1>. QED BY <1>1, <1>2, MountMaps, CrashMaps DEF Next

LEMMA TreeInit ==
  ASSUME ClearedInv, TreeInv, Init
  PROVE  Tree!Init
<1>1. ClearedInv /\ Bare
  BY DEF Init, Bare
<1>2. names = {} /\ spoiledNames = {}
  BY <1>1, BareTree, BlankNames
<1>3. requests = [w \in Workers |-> Tree!NoRequest]
  <2>1. ASSUME NEW w \in Workers
        PROVE  loc[w].call = "none" /\ loc[w].path = <<>> /\ RequestState(w) = "failed"
    BY DEF Init, NoCall, RequestState
  <2>. QED BY <2>1 DEF requests, Tree!NoRequest
<1>. QED BY <1>2, <1>3 DEF Tree!Init

\* While a free block is found, with a table from cleared memory and
\* one request at a time, and however often and wherever the process crashes,
\* create, mkdir, unlink and rmdir change the names that sfs_getattr finds once and
\* as a whole, with the write of the inode (createInode and removeInode of inode.c),
\* or fail and change none; and a crash takes no name away, it only spoils the one
\* that a request was between its writes for.
THEOREM TreeImplemented ==
  ASSUME OneRequest, TableCleared
  PROVE  Spec /\ []EnoughBlocks => ImplementsTree
<1>1. ClearedInv /\ NamesInv /\ Init => Tree!Init
  BY TreeInit DEF NamesInv
<1>2. /\ ClearedInv /\ NamesInv /\ (ClearedInv /\ NamesInv)' /\ [Next]_vars
      => [Tree!Next]_<<names, spoiledNames, requests>>
  BY TreeStep DEF NamesInv, SameTree
<1>. QED BY <1>1, <1>2, NamesInvariance, PTL DEF Spec, ImplementsTree, Tree!Spec

=============================================================================

--------------------------- MODULE FileDataProofs ---------------------------
(***************************************************************************)
(* A file that is written at its end, into blocks that sfs_write found for *)
(* it, reads back what was written, and no block of it is part of another: *)
(* for any number of files, any sizes of blocks, requests and bitmaps, any *)
(* requests to the other files and any number of crashes, as long as a     *)
(* file has no more blocks than an inode has pointers, indirectBlockPtr    *)
(* counted (FitsPointers: the code looks for more and finds them in bitPos *)
(* and numBlocks).                                                         *)
(*                                                                         *)
(* What sfs_write finds blocks for is decided by numBlocks, which is       *)
(* seldom the number of blocks: it counts the requests that went on to     *)
(* another block, and blocks that are looked for by it may overwrite it.   *)
(* Nothing holds of it but that it is not 0.  What holds is that a block   *)
(* that was found is not found again (Marked, Apart); that a file which    *)
(* was written straight has bytes in such blocks only; and that these keep *)
(* their pointers when more are found (FindInv).                           *)
(***************************************************************************)
EXTENDS FileData, SequenceTheorems, FiniteSetTheorems, WellFoundedInduction, TLAPS

\* The hypotheses of the theorems.
FitsPointers == MaxBlocks <= NDBLOCK_PTRS + 1
FitsInode    == NDBLOCK_PTRS <= PADDING + 3

Elements(s) == {s[i] : i \in 1 .. Len(s)}

\* The pointers that are still to be set.
ToFind == Elements(loc.wanted)

\* A pointer a block was found for leads to a block that was allocated after the root's.
Marked(ino) == \A i \in Pointers \cap ino.found : ino.word[i] \in disk.bitmap \ {1}

\* No two such pointers lead to one block.
Apart == \A f, g \in Files :
           \A i \in Pointers \cap disk.inode[f].found, j \in Pointers \cap disk.inode[g].found :
             disk.inode[f].word[i] = disk.inode[g].word[j] => f = g /\ i = j

\* The blocks that some bytes are in were found.
Backed(ino) == \A i \in Pointers : i * BLOCK_SIZE < ino.size => i \in ino.found

DiskInv ==
  /\ 1 \in disk.bitmap /\ 0 \notin disk.bitmap
  /\ \A f \in Files :
       /\ Marked(disk.inode[f])
       /\ disk.inode[f].word[numBlocks] # 0
       /\ Straight(f) => Backed(disk.inode[f])
  /\ Apart

EndsAt == EndBlockIdx(loc.at, loc.left)

\* A request under way is within the bounds, and what it wrote astray is known.
RequestInv ==
  pc # "idle" =>
    /\ loc.file \in Files /\ loc.left \in Nat \ {0} /\ loc.at \in Nat
    /\ loc.ino.size = disk.inode[loc.file].size
    /\ loc.at + loc.left <= MaxBlocks * BLOCK_SIZE
    /\ loc.ino.size + loc.left <= MaxBlocks * BLOCK_SIZE
    /\ loc.ino.word[numBlocks] # 0
    /\ pc = "update inode" /\ Strays => ~ Straight(loc.file)

\* While blocks are looked for the inode in memory is ahead of the one on the disk;
\* blocks that have bytes keep their pointers.
FindInv ==
  pc = "allocate" =>
    /\ Marked(loc.ino)
    /\ \A i, j \in Pointers \cap loc.ino.found : loc.ino.word[i] = loc.ino.word[j] => i = j
    /\ \A g \in Files \ {loc.file} :
         \A i \in Pointers \cap loc.ino.found, j \in Pointers \cap disk.inode[g].found :
           loc.ino.word[i] # disk.inode[g].word[j]
    /\ Straight(loc.file) =>
         /\ Backed(loc.ino)
         /\ \A i \in Pointers : i * BLOCK_SIZE < loc.ino.size => loc.ino.word[i] = disk.inode[loc.file].word[i]
         /\ \A i \in ToFind : loc.ino.size <= i * BLOCK_SIZE
    /\ Len(loc.wanted) <= Cardinality(FreeBlocks)

\* The blocks have been found, and are written one after another.
Writing == pc \in {"write block", "update inode"}

WriteInv == Writing => loc.wanted = <<>> /\ loc.ino = disk.inode[loc.file]

\* The bytes of a file are in its blocks, and those just written.
DataInv ==
  /\ \A f \in Files : Kept(f) =>
       \A p \in 0 .. (disk.inode[f].size - 1) :
         disk.data[disk.inode[f].word[p \div BLOCK_SIZE]][p % BLOCK_SIZE] = Byte(f, p)
  /\ pc = "update inode" =>
       \A p \in loc.at .. (loc.at + Piece - 1) :
         disk.data[loc.ino.word[p \div BLOCK_SIZE]][p % BLOCK_SIZE] = Byte(loc.file, p)

FileInv == TypeOK /\ DiskInv /\ RequestInv /\ FindInv /\ WriteInv /\ DataInv

-----------------------------------------------------------------------------
(***************************************************************************)
(* Blocks and offsets                                                      *)
(***************************************************************************)

LEMMA Multiples ==
  ASSUME NEW n \in Nat \ {0}, NEW x \in Int, NEW y \in Int
  PROVE  x * n \in Int /\ (x < y => x * n + n <= y * n)
<1>1. n * x \in Int /\ n * (y - x) \in Int
  OBVIOUS
<1>2. n * y = n * x + n * (y - x)
  BY SMTT(30)
<1>3. \A z \in Int : z >= 1 => n * z >= n
  BY SMTT(30)
<1>4. n * x = x * n /\ n * y = y * n
  BY SMTT(30)
<1>. QED BY <1>1, <1>2, <1>3, <1>4

\* Byte a of a file is in block a \div n, and every byte in a block is.
LEMMA Division ==
  ASSUME NEW n \in Nat \ {0}, NEW a \in Nat
  PROVE  /\ a \div n \in Nat /\ a % n \in 0 .. (n - 1)
         /\ (a \div n) * n \in Nat /\ a = (a \div n) * n + (a % n)
         /\ \A k \in Nat : k * n \in Nat /\ (a \div n < k <=> a < k * n)
         /\ \A k \in Nat, r \in 0 .. (n - 1) : a = k * n + r => a \div n = k /\ a % n = r
<1>. DEFINE d == a \div n
            e == a % n
<1>1. a = n * d + e /\ d \in Int /\ e \in 0 .. (n - 1)
  BY SMTT(30)
<1>. HIDE DEF d, e
<1>2. n * d = d * n
  BY <1>1, SMTT(30)
<1>3. d * n \in Int /\ a = d * n + e
  BY <1>1, <1>2
<1>4. d \in Nat
  <2>1. 0 * n = 0
    BY SMTT(30)
  <2>2. d < 0 => d * n + n <= 0
    BY <1>1, <2>1, Multiples
  <2>. QED BY <1>1, <1>3, <2>2
<1>5. ASSUME NEW k \in Nat
      PROVE  k * n \in Nat /\ (d < k => d * n + n <= k * n) /\ (k < d => k * n + n <= d * n)
  <2>1. 0 * n = 0 /\ k * n \in Int
    BY SMTT(30)
  <2>2. 0 < k => 0 * n + n <= k * n
    BY Multiples
  <2>3. (d < k => d * n + n <= k * n) /\ (k < d => k * n + n <= d * n)
    BY <1>1, Multiples
  <2>. QED BY <2>1, <2>2, <2>3
<1>6. d * n \in Nat
  BY <1>4, <1>5
<1>7. ASSUME NEW k \in Nat PROVE d < k <=> a < k * n
  <2>. DEFINE m == k * n
              l == d * n
  <2>1. m \in Nat /\ (d < k => l + n <= m) /\ (k < d => m + n <= l) /\ (d = k => l = m)
    BY <1>5
  <2>2. l \in Nat /\ a = l + e
    BY <1>3, <1>6
  <2>. HIDE DEF m, l
  <2>3. d < k <=> a < m
    BY <1>1, <1>4, <2>1, <2>2
  <2>. QED BY <2>3 DEF m
<1>8. ASSUME NEW k \in Nat, NEW r \in 0 .. (n - 1), a = k * n + r PROVE d = k /\ e = r
  <2>. DEFINE m == k * n
              l == d * n
  <2>1. m \in Nat /\ (d < k => l + n <= m) /\ (k < d => m + n <= l) /\ (d = k => l = m)
    BY <1>5
  <2>2. l \in Nat /\ a = l + e /\ a = m + r
    BY <1>3, <1>6, <1>8
  <2>. HIDE DEF m, l
  <2>3. d = k
    BY <1>1, <1>4, <2>1, <2>2
  <2>4. l + e = l + r
    BY <2>1, <2>2, <2>3
  <2>5. e = r
    BY <1>1, <2>2, <2>4
  <2>. QED BY <2>3, <2>5
<1>. QED BY <1>1, <1>3, <1>4, <1>5, <1>6, <1>7, <1>8 DEF d, e

\* Bytes that are less than a block apart, and do not reach the next.
LEMMA SameBlock ==
  ASSUME NEW n \in Nat \ {0}, NEW a \in Nat, NEW b \in Nat, b - a + (a % n) \in 0 .. (n - 1)
  PROVE  b \div n = a \div n /\ b % n = b - a + (a % n)
<1>. DEFINE m == (a \div n) * n
<1>1. m \in Nat /\ a = m + (a % n) /\ a \div n \in Nat /\ a % n \in 0 .. (n - 1)
  BY Division
<1>. HIDE DEF m
<1>2. b = m + (b - a + (a % n))
  BY <1>1
<1>3. \A k \in Nat, r \in 0 .. (n - 1) : b = k * n + r => b \div n = k /\ b % n = r
  BY Division
<1>4. a \div n \in Nat /\ b = (a \div n) * n + (b - a + (a % n))
  BY <1>1, <1>2 DEF m
<1>. QED BY <1>3, <1>4

-----------------------------------------------------------------------------
\* A set of numbers has a least one.
LEMMA LeastNumber ==
  ASSUME NEW S \in SUBSET Nat, S # {}
  PROVE  \E m \in S : \A n \in S : m <= n
<1>. DEFINE T == {0 .. n : n \in S}
<1>1. T \subseteq FiniteSubsetsOf(Nat) /\ T # {}
  <2>1. ASSUME NEW n \in S PROVE 0 .. n \in FiniteSubsetsOf(Nat)
    <3>1. n \in Int /\ 0 \in Int
      OBVIOUS
    <3>2. IsFiniteSet(0 .. n)
      BY <3>1, FS_Interval
    <3>3. 0 .. n \in SUBSET Nat
      OBVIOUS
    <3>. QED BY <3>2, <3>3 DEF FiniteSubsetsOf
  <2>. QED BY <2>1
<1>2. PICK x \in T : \A y \in T : ~ (<<y, x>> \in StrictSubsetOrdering(Nat))
  BY <1>1, FS_StrictSubsetOrderingWellFounded, WFMin
<1>3. PICK m \in S : x = 0 .. m
  OBVIOUS
<1>4. ASSUME NEW n \in S, n < m PROVE FALSE
  <2>1. <<0 .. n, 0 .. m>> \in StrictSubsetOrdering(Nat)
    BY <1>4 DEF StrictSubsetOrdering
  <2>. QED BY <1>2, <1>3, <2>1
<1>. QED BY <1>4

USE SizesAssumption

LEMMA FilesAreNumbers == Files \subseteq Nat /\ 0 \notin Files /\ Cardinality(Files) \in Nat
BY FilesAssumption, FS_CardinalityType

\* findFreeBlock() finds a block that is free, and there is one less then.
LEMMA FreeBlockFound ==
  ASSUME FreeBlocks # {}
  PROVE  FindFreeBlock \in FreeBlocks
<1>1. FreeBlocks \in SUBSET Nat
  BY DEF FreeBlocks
<1>2. PICK b \in FreeBlocks : \A c \in FreeBlocks : b <= c
  BY <1>1, LeastNumber
<1>. QED BY <1>2 DEF FindFreeBlock

LEMMA FreeBlocksCount ==
  /\ IsFiniteSet(FreeBlocks) /\ Cardinality(FreeBlocks) \in Nat
  /\ Cardinality(FreeBlocks) # 0 => FreeBlocks # {}
  /\ \A b \in FreeBlocks : Cardinality(FreeBlocks \ {b}) = Cardinality(FreeBlocks) - 1
<1>1. IsFiniteSet(1 .. (WORD - 1)) /\ FreeBlocks \in SUBSET (1 .. (WORD - 1))
  BY FS_Interval DEF FreeBlocks
<1>2. IsFiniteSet(FreeBlocks)
  BY <1>1, FS_Subset
<1>. QED BY <1>2, FS_CardinalityType, FS_EmptySet, FS_RemoveElement

-----------------------------------------------------------------------------
(***************************************************************************)
(* The pointers a request looks for                                        *)
(***************************************************************************)

LEMMA Shape ==
  /\ Pointers \subseteq Words /\ Words \subseteq Nat /\ 0 \in Pointers
  /\ numBlocks \in Words \ Pointers /\ bitPos \in Words \ Pointers
  /\ numBlocks = NDBLOCK_PTRS + 2 /\ Pointers = 0 .. NDBLOCK_PTRS
  /\ Words = 0 .. (NDBLOCK_PTRS + 2 + PADDING)
BY DEF Pointers, Words, numBlocks, bitPos

LEMMA WithinPointers ==
  ASSUME FitsPointers, NEW a \in Nat, a < MaxBlocks * BLOCK_SIZE
  PROVE  a \div BLOCK_SIZE \in Pointers
<1>1. a \div BLOCK_SIZE \in Nat /\ a \div BLOCK_SIZE < MaxBlocks
  BY Division
<1>. QED BY <1>1 DEF FitsPointers, Pointers

LEMMA ConcatElements ==
  ASSUME NEW S, NEW s \in Seq(S), NEW t \in Seq(S)
  PROVE  Elements(s \o t) = Elements(s) \cup Elements(t)
<1>. DEFINE m == Len(s)
            n == Len(t)
            u == s \o t
<1>1. /\ m \in Nat /\ n \in Nat /\ Len(u) = m + n
      /\ \A i \in 1 .. (m + n) : u[i] = IF i <= m THEN s[i] ELSE t[i - m]
  BY ConcatProperties, LenProperties
<1>. HIDE DEF m, n, u
<1>2. ASSUME NEW i \in 1 .. (m + n)
      PROVE  \/ i \in 1 .. m /\ u[i] = s[i]
             \/ i - m \in 1 .. n /\ u[i] = t[i - m]
  BY <1>1
<1>3. ASSUME NEW i \in 1 .. m PROVE i \in 1 .. (m + n) /\ u[i] = s[i]
  BY <1>1
<1>4. ASSUME NEW i \in 1 .. n PROVE i + m \in 1 .. (m + n) /\ u[i + m] = t[i]
  BY <1>1
<1>5. {u[i] : i \in 1 .. Len(u)} = {s[i] : i \in 1 .. m} \cup {t[i] : i \in 1 .. n}
  BY <1>1, <1>2, <1>3, <1>4
<1>. QED BY <1>5 DEF Elements, m, n, u

\* The pointers from a number on.
LEMMA Following ==
  ASSUME NEW c \in Nat, NEW m \in Int, NEW S, \A x \in 1 .. m : c + x \in S
  PROVE  /\ [x \in 1 .. m |-> c + x] \in Seq(S)
         /\ Elements([x \in 1 .. m |-> c + x]) = {c + x : x \in 1 .. m}
<1>. DEFINE k == IF m < 0 THEN 0 ELSE m
            s == [x \in 1 .. m |-> c + x]
<1>1. k \in Nat /\ 1 .. k = 1 .. m
  OBVIOUS
<1>. HIDE DEF k
<1>2. s = [x \in 1 .. k |-> c + x]
  BY <1>1
<1>3. s \in Seq(S) /\ Len(s) = k
  <2>1. \A x \in 1 .. k : c + x \in S
    BY <1>1
  <2>2. s \in [1 .. k -> S]
    BY <1>2, <2>1
  <2>3. s \in Seq(S)
    BY <1>1, <2>2
  <2>4. DOMAIN s = 1 .. k /\ Len(s) \in Nat /\ DOMAIN s = 1 .. Len(s)
    BY <1>2, <2>3, LenProperties
  <2>5. \A i, j \in Nat : 1 .. i = 1 .. j => i = j
    <3>. SUFFICES ASSUME NEW i \in Nat, NEW j \in Nat, 1 .. i = 1 .. j, i < j PROVE FALSE
      OBVIOUS
    <3>. QED BY j \in 1 .. j, j \notin 1 .. i
  <2>. QED BY <1>1, <2>3, <2>4, <2>5
<1>4. Elements(s) = {c + x : x \in 1 .. m}
  BY <1>1, <1>3 DEF Elements
<1>. QED BY <1>3, <1>4

\* What sfs_write looks for: the pointer to where the file ends, if it is null, and
\* as many more as the block the request ends in is ahead of the count.
LEMMA WantedPointers ==
  ASSUME FitsInode, NEW ino \in Inode, NEW off \in Nat, NEW n \in Nat \ {0},
         ino.word[numBlocks] # 0, EndBlockIdx(off, n) \in Pointers,
         ino.size \div BLOCK_SIZE \in Pointers
  PROVE  LET curr == ino.size \div BLOCK_SIZE
             more == EndBlockIdx(off, n) - ino.word[numBlocks]
         IN  /\ Wanted(ino, off, n) \in Seq(Words)
             /\ Elements(Wanted(ino, off, n)) =
                  {i \in {curr} : ino.word[curr] = 0} \cup {curr + x : x \in 1 .. more}
<1>. DEFINE curr == ino.size \div BLOCK_SIZE
            end  == EndBlockIdx(off, n)
            num  == ino.word[numBlocks]
            more == end - num
            s    == IF ino.word[curr] = 0 THEN <<curr>> ELSE <<>>
            t    == [x \in 1 .. more |-> curr + x]
<1>1. Wanted(ino, off, n) = s \o t
  BY DEF Wanted
<1>2. curr \in 0 .. NDBLOCK_PTRS /\ end \in 0 .. NDBLOCK_PTRS
  BY Shape
<1>3. num \in Nat \ {0}
  BY Shape DEF Inode
<1>. HIDE DEF curr, end, num, s, t
<1>4. more \in Int /\ \A x \in 1 .. more : curr + x \in Words
  BY <1>2, <1>3, Shape DEF FitsInode
<1>5. t \in Seq(Words) /\ Elements(t) = {curr + x : x \in 1 .. more}
  <2>1. curr \in Nat
    BY <1>2
  <2>. HIDE DEF more
  <2>. QED BY <1>4, <2>1, Following DEF t
<1>6. s \in Seq(Words) /\ Elements(s) = {i \in {curr} : ino.word[curr] = 0}
  <2>1. curr \in Words
    BY <1>2, Shape
  <2>2. CASE ino.word[curr] = 0
    <3>1. s = <<curr>> /\ Len(s) = 1 /\ s[1] = curr
      BY <2>2 DEF s
    <3>2. Elements(s) = {curr}
      BY <3>1 DEF Elements
    <3>. QED BY <2>1, <2>2, <3>1, <3>2
  <2>3. CASE ino.word[curr] # 0
    <3>1. s = <<>> /\ Len(s) = 0
      BY <2>3 DEF s
    <3>. QED BY <2>3, <3>1 DEF Elements
  <2>. QED BY <2>2, <2>3
<1>7. Elements(s \o t) = Elements(s) \cup Elements(t) /\ s \o t \in Seq(Words)
  BY <1>5, <1>6, ConcatElements, ConcatProperties
<1>. QED BY <1>1, <1>5, <1>6, <1>7 DEF curr, end, num

-----------------------------------------------------------------------------
(***************************************************************************)
(* The steps of sfs_write                                                  *)
(***************************************************************************)

\* The inode of a file, as TypeOK and DiskInv have it.
LEMMA InodeAt ==
  ASSUME TypeOK, NEW f \in Files
  PROVE  /\ disk.inode[f] \in Inode
         /\ disk.inode[f].size \in 0 .. (MaxBlocks * BLOCK_SIZE) /\ disk.inode[f].size \in Nat
         /\ disk.inode[f].word \in [Words -> Nat]
         /\ disk.inode[f].found \in SUBSET Words
         /\ \A i \in Pointers : disk.inode[f].word[i] \in Blocks
<1>1. disk.inode[f] \in Inode
  BY DEF TypeOK
<1>2. MaxBlocks * BLOCK_SIZE \in Nat
  BY Division
<1>. QED BY <1>1, <1>2 DEF Inode

\* The part of DiskInv that is about one file.
LEMMA DiskOf ==
  ASSUME DiskInv, NEW f \in Files
  PROVE  /\ Marked(disk.inode[f])
         /\ disk.inode[f].word[numBlocks] # 0
         /\ Straight(f) => Backed(disk.inode[f])
         /\ 1 \in disk.bitmap /\ 0 \notin disk.bitmap
BY DEF DiskInv

\* Blocks that a file has bytes in are among its pointers.
LEMMA HeldPointers ==
  ASSUME TypeOK, FitsPointers, NEW f \in Files, NEW i \in Held(f)
  PROVE  i \in Pointers /\ i \in Nat /\ i * BLOCK_SIZE < disk.inode[f].size
<1>1. i \in Words /\ i * BLOCK_SIZE < disk.inode[f].size
  BY DEF Held
<1>2. i \in Nat
  BY <1>1, Shape
<1>3. i * BLOCK_SIZE \in Nat /\ MaxBlocks * BLOCK_SIZE \in Nat
      /\ (MaxBlocks <= i => MaxBlocks * BLOCK_SIZE <= i * BLOCK_SIZE)
  <2>1. MaxBlocks < i => MaxBlocks * BLOCK_SIZE + BLOCK_SIZE <= i * BLOCK_SIZE
    BY <1>2, Multiples
  <2>2. i * BLOCK_SIZE \in Nat /\ MaxBlocks * BLOCK_SIZE \in Nat
    BY <1>2, Division
  <2>. QED BY <1>2, <2>1, <2>2
<1>4. i < MaxBlocks
  BY <1>1, <1>2, <1>3, InodeAt
<1>. QED BY <1>1, <1>2, <1>4, Shape DEF FitsPointers

\* A byte of a file is in one of these.
LEMMA ByteHeld ==
  ASSUME TypeOK, FitsPointers, NEW f \in Files, NEW p \in 0 .. (disk.inode[f].size - 1)
  PROVE  /\ p \div BLOCK_SIZE \in Held(f) /\ p \div BLOCK_SIZE \in Pointers
         /\ p % BLOCK_SIZE \in 0 .. (BLOCK_SIZE - 1)
         /\ p \in Nat /\ p < MaxBlocks * BLOCK_SIZE /\ p < disk.inode[f].size
<1>1. p \in Nat /\ p < MaxBlocks * BLOCK_SIZE /\ p < disk.inode[f].size
  BY InodeAt, Division
<1>. DEFINE q == p \div BLOCK_SIZE
<1>2. q \in Pointers /\ p % BLOCK_SIZE \in 0 .. (BLOCK_SIZE - 1)
  BY <1>1, WithinPointers, Division
<1>3. q * BLOCK_SIZE \in Nat /\ p = q * BLOCK_SIZE + (p % BLOCK_SIZE)
  BY <1>1, Division
<1>. HIDE DEF q
<1>4. q * BLOCK_SIZE <= p
  BY <1>2, <1>3
<1>5. q * BLOCK_SIZE < disk.inode[f].size
  BY <1>1, <1>3, <1>4, InodeAt
<1>6. q \in Held(f)
  BY <1>2, <1>5, Shape DEF Held
<1>. QED BY <1>1, <1>2, <1>6 DEF q

\* What a request starts with: it is within the bounds, and looks for blocks behind
\* those that a file which was written straight has bytes in.
LEMMA RequestStarts ==
  ASSUME FileInv, FitsPointers, FitsInode,
         NEW f \in Files, NEW off \in Nat, NEW n \in Sizes, Write(f, off, n)
  PROVE  LET ino == disk.inode[f]
         IN  /\ n \in Nat \ {0}
             /\ off + n <= MaxBlocks * BLOCK_SIZE /\ ino.size + n <= MaxBlocks * BLOCK_SIZE
             /\ Wanted(ino, off, n) \in Seq(Words)
             /\ Straight(f) => \A i \in Elements(Wanted(ino, off, n)) : ino.size <= i * BLOCK_SIZE
<1>. DEFINE ino  == disk.inode[f]
            max  == MaxBlocks * BLOCK_SIZE
            curr == ino.size \div BLOCK_SIZE
            end  == EndBlockIdx(off, n)
            more == end - ino.word[numBlocks]
            find == Elements(Wanted(ino, off, n))
<1>1. n \in Nat \ {0} /\ max \in Nat /\ off + n <= max /\ ino.size + n <= max
  <2>1. max \in Nat /\ n \in Nat \ {0}
    BY Division
  <2>. QED BY <2>1 DEF Write
<1>2. ino \in Inode /\ ino.size \in Nat /\ ino.word[numBlocks] # 0 /\ (Straight(f) => Backed(ino))
      /\ Marked(ino) /\ 0 \notin disk.bitmap
  BY InodeAt DEF FileInv, DiskInv
<1>3. ino.size < max /\ off + n - 1 \in Nat /\ off + n - 1 < max
  BY <1>1, <1>2
<1>4. curr \in Pointers /\ end \in Pointers
  BY <1>2, <1>3, WithinPointers DEF EndBlockIdx
<1>5. /\ Wanted(ino, off, n) \in Seq(Words)
      /\ find = {i \in {curr} : ino.word[curr] = 0} \cup {curr + x : x \in 1 .. more}
  BY <1>1, <1>2, <1>4, WantedPointers
<1>6. /\ curr \in Nat
      /\ \A k \in Nat : k * BLOCK_SIZE \in Nat /\ (curr < k <=> ino.size < k * BLOCK_SIZE)
  BY <1>2, Division
<1>7. ASSUME Straight(f), NEW i \in find PROVE ino.size <= i * BLOCK_SIZE
  <2>1. CASE i = curr /\ ino.word[curr] = 0
    <3>1. curr * BLOCK_SIZE < ino.size => curr \in ino.found
      BY <1>2, <1>4, <1>7 DEF Backed
    <3>2. ~ (curr * BLOCK_SIZE < ino.size)
      BY <1>2, <1>4, <2>1, <3>1 DEF Marked
    <3>3. curr * BLOCK_SIZE \in Nat
      BY <1>6
    <3>. QED BY <1>2, <2>1, <3>2, <3>3
  <2>2. CASE \E x \in 1 .. more : i = curr + x
    <3>1. PICK x \in 1 .. more : i = curr + x
      BY <2>2
    <3>2. i \in Nat /\ curr < i
      BY <1>6, <3>1
    <3>3. ino.size < i * BLOCK_SIZE /\ i * BLOCK_SIZE \in Nat
      BY <1>6, <3>2
    <3>. QED BY <1>2, <3>3
  <2>. QED BY <1>5, <1>7, <2>1, <2>2
<1>. QED BY <1>1, <1>5, <1>7

\* The disk's invariant is about the disk and its history alone.
LEMMA DiskKept ==
  ASSUME DiskInv, disk' = disk, astray' = astray
  PROVE  DiskInv'
<1>1. 1 \in disk'.bitmap /\ 0 \notin disk'.bitmap
  BY DEF DiskInv
<1>2. ASSUME NEW g \in Files
      PROVE  /\ Marked(disk.inode[g])' /\ disk'.inode[g].word[numBlocks] # 0
             /\ Straight(g)' => Backed(disk.inode[g])'
  BY DEF DiskInv, Marked, Straight, Backed
<1>3. Apart'
  BY DEF DiskInv, Apart
<1>. QED BY <1>1, <1>2, <1>3 DEF DiskInv

\* As long as the disk, the pointers and the history are the same.
LEMMA DataKept ==
  ASSUME DataInv, disk' = disk, astray' = astray, pc' # "update inode"
  PROVE  DataInv'
<1>1. ASSUME NEW f \in Files, Kept(f)' PROVE Kept(f)
  BY <1>1 DEF Kept, Straight, Held
<1>. QED BY <1>1 DEF DataInv

\* A request that has been read in keeps the invariant.
LEMMA WriteStep ==
  ASSUME FileInv, FitsPointers, FitsInode,
         NEW f \in Files, NEW off \in Nat, NEW n \in Sizes, Write(f, off, n)
  PROVE  FileInv'
<1>. DEFINE ino  == disk.inode[f]
            grow == EndBlockIdx(off, n) >= ino.word[numBlocks]
            want == IF grow THEN Wanted(ino, off, n) ELSE <<>>
            find == Elements(want)
<1>1. /\ n \in Nat \ {0}
      /\ off + n <= MaxBlocks * BLOCK_SIZE /\ ino.size + n <= MaxBlocks * BLOCK_SIZE
  BY RequestStarts
<1>2. /\ want \in Seq(Words)
      /\ Straight(f) => \A i \in find : ino.size <= i * BLOCK_SIZE
  <2>1. CASE grow
    BY <2>1, RequestStarts
  <2>2. CASE ~ grow
    <3>1. want = <<>> /\ find = {} /\ want \in Seq(Words)
      BY <2>2, EmptySeq DEF Elements
    <3>. QED BY <3>1
  <2>. QED BY <2>1, <2>2
<1>3. /\ disk' = disk /\ crashes' = crashes /\ astray' = astray
      /\ pc' \in {"allocate", "write block"} /\ (~grow => pc' = "write block") /\ (grow => pc' = "allocate")
      /\ loc'.file = f /\ loc'.left = n /\ loc'.at = off /\ loc'.wanted = want /\ loc'.ino = ino
      /\ loc' = [file |-> f, left |-> n, at |-> off, wanted |-> want, ino |-> ino]
      /\ Len(want) <= Cardinality(FreeBlocks)
  BY DEF Write
<1>4. ToFind' = find /\ FreeBlocks' = FreeBlocks
  BY <1>3 DEF ToFind, FreeBlocks
<1>5. /\ ino \in Inode /\ Marked(ino) /\ ino.word[numBlocks] # 0 /\ (Straight(f) => Backed(ino))
      /\ disk.inode[f] = ino
  BY InodeAt DEF FileInv, DiskInv
<1>. HIDE DEF ino, want, find
<1>6. TypeOK'
  <2>1. loc' \in [file : Files \cup {0}, left : Nat, at : Nat, wanted : Seq(Words), ino : Inode]
    BY <1>1, <1>2, <1>3, <1>5
  <2>. QED BY <1>3, <2>1 DEF TypeOK, FileInv
<1>7. DiskInv'
  BY <1>3, DiskKept DEF FileInv
<1>8. RequestInv'
  BY <1>1, <1>3, <1>5 DEF RequestInv
<1>9. FindInv'
  <2>1. \A i, j \in Pointers \cap ino.found : ino.word[i] = ino.word[j] => i = j
    BY <1>5 DEF FileInv, DiskInv, Apart
  <2>2. \A g \in Files \ {f} : \A i \in Pointers \cap ino.found, j \in Pointers \cap disk.inode[g].found :
          ino.word[i] # disk.inode[g].word[j]
    BY <1>5 DEF FileInv, DiskInv, Apart
  <2>3. Marked(loc.ino)' /\ (Straight(loc.file)' <=> Straight(f)) /\ (Backed(loc.ino)' <=> Backed(ino))
    BY <1>3, <1>5 DEF Marked, Straight, Backed
  <2>. QED BY <1>2, <1>3, <1>4, <1>5, <2>1, <2>2, <2>3 DEF FindInv
<1>10. WriteInv'
  <2>1. ASSUME pc' # "allocate" PROVE want = <<>>
    BY <1>3, <2>1 DEF want
  <2>. QED BY <1>3, <1>5, <2>1 DEF WriteInv, Writing
<1>11. DataInv'
  BY <1>3, DataKept DEF FileInv
<1>. QED BY <1>6, <1>7, <1>8, <1>9, <1>10, <1>11 DEF FileInv

LEMMA ElementsOfTail ==
  ASSUME NEW S, NEW s \in Seq(S), s # <<>>
  PROVE  /\ Head(s) \in S /\ Tail(s) \in Seq(S) /\ Len(Tail(s)) = Len(s) - 1 /\ Len(s) \in Nat \ {0}
         /\ Elements(s) = {Head(s)} \cup Elements(Tail(s))
<1>. DEFINE t == Tail(s)
            m == Len(s)
<1>1. /\ Head(s) \in S /\ t \in Seq(S) /\ Len(t) = m - 1 /\ m \in Nat \ {0} /\ Head(s) = s[1]
      /\ \A i \in 1 .. (m - 1) : t[i] = s[i + 1]
  BY HeadTailProperties, EmptySeq, LenProperties
<1>. HIDE DEF t, m
<1>2. \A i \in 1 .. m : i = 1 \/ (i - 1 \in 1 .. (m - 1) /\ s[i] = t[i - 1])
  BY <1>1
<1>3. \A i \in 1 .. (m - 1) : i + 1 \in 1 .. m /\ t[i] = s[i + 1]
  BY <1>1
<1>4. 1 \in 1 .. m
  BY <1>1
<1>5. {s[i] : i \in 1 .. m} = {s[1]} \cup {t[i] : i \in 1 .. (m - 1)}
  BY <1>2, <1>3, <1>4
<1>. QED BY <1>1, <1>5 DEF Elements, m, t

\* A block that is found for a pointer is nobody's yet.
LEMMA AllocateStep ==
  ASSUME FileInv, FitsPointers, FitsInode, Allocate
  PROVE  FileInv'
<1>. DEFINE w == Head(loc.wanted)
            b == FindFreeBlock
<1>1. /\ pc = "allocate" /\ pc' = pc /\ crashes' = crashes /\ astray' = astray /\ loc.wanted # <<>>
      /\ disk' = [disk EXCEPT !.bitmap = @ \cup {b}]
      /\ loc' = [loc EXCEPT !.wanted = Tail(@), !.ino.word[w] = b, !.ino.found = @ \cup {w}]
  BY DEF Allocate
<1>t. /\ disk \in [bitmap : SUBSET Blocks,
                  inode  : [Files -> Inode],
                  data   : [Blocks -> [0 .. (BLOCK_SIZE - 1) -> Bytes]]]
      /\ loc \in [file : Files \cup {0}, left : Nat, at : Nat, wanted : Seq(Words), ino : Inode]
      /\ loc.ino.word \in [Words -> Nat] /\ loc.ino.size \in 0 .. (MaxBlocks * BLOCK_SIZE)
      /\ loc.ino.found \in SUBSET Words
      /\ \A i \in Pointers : loc.ino.word[i] \in Blocks
  BY DEF FileInv, TypeOK, Inode
<1>2. /\ w \in Words /\ Tail(loc.wanted) \in Seq(Words)
      /\ Len(Tail(loc.wanted)) = Len(loc.wanted) - 1 /\ Len(loc.wanted) \in Nat \ {0}
      /\ ToFind = {w} \cup Elements(Tail(loc.wanted))
  BY <1>1, <1>t, ElementsOfTail DEF ToFind
<1>3. b \in FreeBlocks /\ Len(loc.wanted) <= Cardinality(FreeBlocks)
  <2>1. Len(loc.wanted) <= Cardinality(FreeBlocks)
    BY <1>1 DEF FileInv, FindInv
  <2>2. Cardinality(FreeBlocks) # 0
    BY <1>2, <2>1, FreeBlocksCount
  <2>. QED BY <2>1, <2>2, FreeBlocksCount, FreeBlockFound
<1>4. b \in Blocks /\ b \in Nat \ {0} /\ b \notin disk.bitmap /\ b # 1 /\ b # 0
  <2>1. 1 \in disk.bitmap
    BY DEF FileInv, DiskInv
  <2>. QED BY <1>3, <2>1 DEF FreeBlocks, Blocks
<1>5. /\ disk'.bitmap = disk.bitmap \cup {b} /\ disk'.inode = disk.inode /\ disk'.data = disk.data
      /\ disk' = [bitmap |-> disk'.bitmap, inode |-> disk.inode, data |-> disk.data]
  BY <1>1, <1>t
<1>6. /\ loc'.file = loc.file /\ loc'.left = loc.left /\ loc'.at = loc.at
      /\ loc'.wanted = Tail(loc.wanted) /\ loc'.ino.size = loc.ino.size
      /\ loc'.ino.word = [loc.ino.word EXCEPT ![w] = b]
      /\ loc'.ino.found = loc.ino.found \cup {w}
      /\ loc'.ino = [size |-> loc.ino.size, word |-> loc'.ino.word, found |-> loc'.ino.found]
      /\ loc' = [loc EXCEPT !.wanted = Tail(@), !.ino = loc'.ino]
  <2>1. loc.ino = [size |-> loc.ino.size, word |-> loc.ino.word, found |-> loc.ino.found]
    BY <1>t DEF Inode
  <2>2. loc = [file |-> loc.file, left |-> loc.left, at |-> loc.at, wanted |-> loc.wanted, ino |-> loc.ino]
    BY <1>t
  <2>. HIDE DEF w, b
  <2>3. loc'.ino = [[loc.ino EXCEPT !.word[w] = b] EXCEPT !.found = @ \cup {w}]
    BY <1>1, <2>2
  <2>. QED BY <1>1, <2>1, <2>2, <2>3
<1>7. ToFind' = Elements(Tail(loc.wanted))
  BY <1>6 DEF ToFind
<1>8. FreeBlocks' = FreeBlocks \ {b}
  BY <1>5 DEF FreeBlocks
<1>. HIDE DEF w, b
<1>9. /\ loc'.ino.word \in [Words -> Nat] /\ loc'.ino.word[w] = b
      /\ \A i \in Words : i # w => loc'.ino.word[i] = loc.ino.word[i]
  <2>1. loc'.ino.word = [loc.ino.word EXCEPT ![w] = b] /\ w \in Words /\ b \in Nat
    BY <1>2, <1>4, <1>6
  <2>2. loc.ino.word \in [Words -> Nat]
    BY <1>t
  <2>. QED BY <2>1, <2>2, Zenon
<1>10. loc'.ino \in Inode
  <2>1. \A i \in Pointers : loc'.ino.word[i] \in Blocks
    BY <1>4, <1>9, <1>t, Shape
  <2>2. loc'.ino \in [size : 0 .. (MaxBlocks * BLOCK_SIZE), word : [Words -> Nat], found : SUBSET Words]
    BY <1>2, <1>6, <1>9, <1>t DEF Inode
  <2>. QED BY <2>1, <2>2 DEF Inode
<1>11. TypeOK'
  <2>1. disk' \in [bitmap : SUBSET Blocks,
                   inode  : [Files -> Inode],
                   data   : [Blocks -> [0 .. (BLOCK_SIZE - 1) -> Bytes]]]
    <3>1. disk'.bitmap \in SUBSET Blocks
      BY <1>4, <1>5, <1>t
    <3>. QED BY <3>1, <1>5, <1>t
  <2>2. loc' \in [file : Files \cup {0}, left : Nat, at : Nat, wanted : Seq(Words), ino : Inode]
    BY <1>2, <1>6, <1>10, <1>t
  <2>3. /\ pc' \in {"idle", "allocate", "write block", "update inode"} /\ crashes' \in 0 .. MaxCrashes
        /\ astray' \subseteq Files \X Blocks
    <3>1. astray' = astray /\ pc' = pc /\ crashes' = crashes
      BY <1>1
    <3>. QED BY <3>1 DEF FileInv, TypeOK
  <2>. QED BY <2>1, <2>2, <2>3 DEF TypeOK
<1>12. DiskInv'
  <2>1. 1 \in disk'.bitmap /\ 0 \notin disk'.bitmap
    BY <1>4, <1>5 DEF FileInv, DiskInv
  <2>2. ASSUME NEW g \in Files
        PROVE  /\ Marked(disk.inode[g])' /\ disk'.inode[g].word[numBlocks] # 0
               /\ Straight(g)' => Backed(disk.inode[g])'
    BY <1>1, <1>5 DEF FileInv, DiskInv, Marked, Straight, Backed
  <2>3. Apart'
    BY <1>5 DEF FileInv, DiskInv, Apart
  <2>. QED BY <2>1, <2>2, <2>3 DEF DiskInv
<1>r. /\ loc.file \in Files /\ loc.left \in Nat \ {0} /\ loc.at \in Nat
      /\ loc.ino.size = disk.inode[loc.file].size
      /\ loc.at + loc.left <= MaxBlocks * BLOCK_SIZE
      /\ loc.ino.size + loc.left <= MaxBlocks * BLOCK_SIZE
      /\ loc.ino.word[numBlocks] # 0
  BY <1>1 DEF FileInv, RequestInv
<1>f. /\ Marked(loc.ino)
      /\ \A i, j \in Pointers \cap loc.ino.found : loc.ino.word[i] = loc.ino.word[j] => i = j
      /\ \A g \in Files \ {loc.file} :
           \A i \in Pointers \cap loc.ino.found, j \in Pointers \cap disk.inode[g].found :
             loc.ino.word[i] # disk.inode[g].word[j]
      /\ Straight(loc.file) =>
           /\ Backed(loc.ino)
           /\ \A i \in Pointers : i * BLOCK_SIZE < loc.ino.size => loc.ino.word[i] = disk.inode[loc.file].word[i]
           /\ \A i \in ToFind : loc.ino.size <= i * BLOCK_SIZE
  BY <1>1 DEF FileInv, FindInv
<1>13. RequestInv'
  <2>1. loc'.ino.word[numBlocks] # 0
    <3>1. CASE w = numBlocks
      BY <1>4, <1>9, <3>1
    <3>2. CASE w # numBlocks
      BY <1>9, <1>r, <3>2, Shape
    <3>. QED BY <3>1, <3>2
  <2>. QED BY <1>1, <1>5, <1>6, <1>r, <2>1 DEF RequestInv
<1>14. FindInv'
  <2>1. /\ \A i \in Pointers \cap loc.ino.found : loc.ino.word[i] # b
        /\ \A g \in Files : \A i \in Pointers \cap disk.inode[g].found : disk.inode[g].word[i] # b
    BY <1>4, <1>f DEF FileInv, DiskInv, Marked
  <2>2. Marked(loc.ino)'
    BY <1>4, <1>5, <1>6, <1>9, <1>f, Shape DEF Marked
  <2>10. \A i \in Pointers \cap loc'.ino.found :
           \/ i = w /\ loc'.ino.word[i] = b
           \/ i \in Pointers \cap loc.ino.found /\ loc'.ino.word[i] = loc.ino.word[i]
    BY <1>6, <1>9, Shape
  <2>3. \A i, j \in Pointers \cap loc'.ino.found : loc'.ino.word[i] = loc'.ino.word[j] => i = j
    BY <1>f, <2>1, <2>10
  <2>4. \A g \in Files \ {loc.file} :
          \A i \in Pointers \cap loc'.ino.found, j \in Pointers \cap disk.inode[g].found :
            loc'.ino.word[i] # disk.inode[g].word[j]
    BY <1>f, <2>1, <2>10
  <2>5. ASSUME Straight(loc.file)
        PROVE  /\ Backed(loc.ino)'
               /\ \A i \in Pointers : i * BLOCK_SIZE < loc.ino.size => loc'.ino.word[i] = disk.inode[loc.file].word[i]
               /\ \A i \in ToFind' : loc.ino.size <= i * BLOCK_SIZE
    <3>1. Backed(loc.ino)'
      BY <1>6, <1>f, <2>5 DEF Backed
    <3>2. ASSUME NEW i \in Pointers, i * BLOCK_SIZE < loc.ino.size
          PROVE  loc'.ino.word[i] = disk.inode[loc.file].word[i]
      <4>1. i \in Words /\ i * BLOCK_SIZE \in Nat /\ loc.ino.size \in Nat
        <5>1. MaxBlocks * BLOCK_SIZE \in Nat
          BY Division
        <5>. QED BY <1>t, <5>1, Shape, Division
      <4>2. i # w
        BY <1>2, <1>f, <2>5, <3>2, <4>1
      <4>. QED BY <1>9, <1>f, <2>5, <3>2, <4>1, <4>2
    <3>3. \A i \in ToFind' : loc.ino.size <= i * BLOCK_SIZE
      BY <1>2, <1>7, <1>f, <2>5
    <3>. QED BY <3>1, <3>2, <3>3
  <2>6. Straight(loc.file)' <=> Straight(loc.file)
    BY <1>1, <1>6 DEF Straight
  <2>8. Len(loc.wanted)' <= Cardinality(FreeBlocks)'
    BY <1>2, <1>3, <1>6, <1>8, FreeBlocksCount
  <2>. QED BY <1>5, <1>6, <2>2, <2>3, <2>4, <2>5, <2>6, <2>8 DEF FindInv
<1>15. WriteInv'
  BY <1>1, <1>5 DEF WriteInv, Writing
<1>16. DataInv'
  <2>1. ASSUME NEW g \in Files, Kept(g)' PROVE Kept(g)
    BY <1>1, <1>5, <2>1 DEF Kept, Straight, Held
  <2>. QED BY <1>1, <1>5, <2>1 DEF FileInv, DataInv
<1>. QED BY <1>11, <1>12, <1>13, <1>14, <1>15, <1>16 DEF FileInv

\* The inode that is on the disk when its blocks have been found.
LEMMA AllocatedStep ==
  ASSUME FileInv, FitsPointers, FitsInode, Allocated
  PROVE  FileInv'
<1>. DEFINE f == loc.file
            ino == loc.ino
<1>1. /\ pc = "allocate" /\ pc' = "write block" /\ loc' = loc /\ crashes' = crashes /\ astray' = astray
      /\ loc.wanted = <<>> /\ disk' = [disk EXCEPT !.inode[f] = ino]
  BY DEF Allocated, UpdateInode
<1>r. /\ f \in Files /\ loc.left \in Nat \ {0} /\ loc.at \in Nat
      /\ ino.size = disk.inode[f].size
      /\ loc.at + loc.left <= MaxBlocks * BLOCK_SIZE
      /\ ino.size + loc.left <= MaxBlocks * BLOCK_SIZE
      /\ ino.word[numBlocks] # 0
  BY <1>1 DEF FileInv, RequestInv
<1>f. /\ Marked(ino)
      /\ \A i, j \in Pointers \cap ino.found : ino.word[i] = ino.word[j] => i = j
      /\ \A g \in Files \ {f} :
           \A i \in Pointers \cap ino.found, j \in Pointers \cap disk.inode[g].found :
             ino.word[i] # disk.inode[g].word[j]
      /\ Straight(f) =>
           /\ Backed(ino)
           /\ \A i \in Pointers : i * BLOCK_SIZE < ino.size => ino.word[i] = disk.inode[f].word[i]
  BY <1>1 DEF FileInv, FindInv
<1>t. /\ disk \in [bitmap : SUBSET Blocks,
                  inode  : [Files -> Inode],
                  data   : [Blocks -> [0 .. (BLOCK_SIZE - 1) -> Bytes]]]
      /\ ino \in Inode
  BY DEF FileInv, TypeOK
<1>3. /\ disk'.bitmap = disk.bitmap /\ disk'.data = disk.data
      /\ disk'.inode = [disk.inode EXCEPT ![f] = ino]
      /\ disk' = [bitmap |-> disk.bitmap, inode |-> disk'.inode, data |-> disk.data]
  BY <1>1, <1>t
<1>4. /\ disk'.inode \in [Files -> Inode] /\ disk'.inode[f] = ino
      /\ \A g \in Files \ {f} : disk'.inode[g] = disk.inode[g]
  BY <1>3, <1>r, <1>t
<1>. HIDE DEF f, ino
<1>5. TypeOK'
  <2>1. disk' \in [bitmap : SUBSET Blocks,
                   inode  : [Files -> Inode],
                   data   : [Blocks -> [0 .. (BLOCK_SIZE - 1) -> Bytes]]]
    BY <1>3, <1>4, <1>t
  <2>. QED BY <1>1, <2>1 DEF FileInv, TypeOK
<1>6. DiskInv'
  <2>1. 1 \in disk'.bitmap /\ 0 \notin disk'.bitmap
    BY <1>3 DEF FileInv, DiskInv
  <2>2. ASSUME NEW g \in Files
        PROVE  /\ Marked(disk.inode[g])' /\ disk'.inode[g].word[numBlocks] # 0
               /\ Straight(g)' => Backed(disk.inode[g])'
    <3>1. Marked(disk.inode[g]) /\ disk.inode[g].word[numBlocks] # 0 /\ (Straight(g) => Backed(disk.inode[g]))
      BY DEF FileInv, DiskInv
    <3>2. Straight(g)' <=> Straight(g)
      BY <1>1 DEF Straight
    <3>3. CASE g # f
      BY <1>3, <1>4, <3>1, <3>2, <3>3 DEF Marked, Backed
    <3>4. CASE g = f
      BY <1>3, <1>4, <1>r, <1>f, <3>2, <3>4 DEF Marked, Backed
    <3>. QED BY <3>3, <3>4
  <2>3. Apart'
    <3>. SUFFICES ASSUME NEW g \in Files, NEW h \in Files,
                         NEW i \in Pointers \cap disk'.inode[g].found, NEW j \in Pointers \cap disk'.inode[h].found,
                         disk'.inode[g].word[i] = disk'.inode[h].word[j]
                  PROVE  g = h /\ i = j
      BY DEF Apart
    <3>1. CASE g = f /\ h = f
      BY <1>4, <1>f, <3>1
    <3>2. CASE g = f /\ h # f
      BY <1>4, <1>f, <3>2
    <3>3. CASE g # f /\ h = f
      BY <1>4, <1>f, <3>3
    <3>4. CASE g # f /\ h # f
      BY <1>4, <3>4 DEF FileInv, DiskInv, Apart
    <3>. QED BY <3>1, <3>2, <3>3, <3>4
  <2>. QED BY <2>1, <2>2, <2>3 DEF DiskInv
<1>7. RequestInv'
  BY <1>1, <1>4, <1>r DEF RequestInv, ino, f
<1>8. FindInv' /\ WriteInv'
  BY <1>1, <1>4 DEF FindInv, WriteInv, Writing, ino, f
<1>9. ASSUME NEW g \in Files, Kept(g)'
      PROVE  Kept(g) /\ \A i \in Held(g) : disk'.inode[g].word[i] = disk.inode[g].word[i]
  <2>1. Straight(g) /\ \A x \in astray : \A i \in Held(g)' : disk'.inode[g].word[i] # x[2]
    BY <1>1, <1>9 DEF Kept, Straight
  <2>2. Held(g)' = Held(g)
    BY <1>4, <1>r DEF Held
  <2>3. \A i \in Held(g) : disk'.inode[g].word[i] = disk.inode[g].word[i]
    <3>1. CASE g # f
      BY <1>4, <3>1
    <3>2. CASE g = f
      <4>1. \A i \in Held(g) : i \in Pointers /\ i * BLOCK_SIZE < ino.size
        BY <1>r, <3>2, HeldPointers DEF FileInv
      <4>. QED BY <1>4, <1>f, <2>1, <3>2, <4>1
    <3>. QED BY <3>1, <3>2
  <2>. QED BY <2>1, <2>2, <2>3 DEF Kept
<1>10. DataInv'
  <2>1. ASSUME NEW g \in Files, Kept(g)', NEW p \in 0 .. (disk'.inode[g].size - 1)
        PROVE  disk.data[disk'.inode[g].word[p \div BLOCK_SIZE]][p % BLOCK_SIZE] = Byte(g, p)
    <3>1. p \in 0 .. (disk.inode[g].size - 1) /\ Kept(g)
      BY <1>4, <1>r, <1>9, <2>1
    <3>2. disk.data[disk.inode[g].word[p \div BLOCK_SIZE]][p % BLOCK_SIZE] = Byte(g, p)
      BY <3>1 DEF FileInv, DataInv
    <3>3. p \div BLOCK_SIZE \in Held(g)
      BY <3>1, ByteHeld DEF FileInv
    <3>. QED BY <1>9, <2>1, <3>2, <3>3
  <2>. QED BY <1>1, <1>3, <2>1 DEF DataInv
<1>. QED BY <1>5, <1>6, <1>7, <1>8, <1>10 DEF FileInv

\* The piece that goes into one block: it does not reach the next, and when there is
\* more, it fills the block and the request ends in a later one.
LEMMA PieceFits ==
  ASSUME FileInv, FitsPointers, Writing
  PROVE  LET q == loc.at \div BLOCK_SIZE
             o == loc.at % BLOCK_SIZE
         IN  /\ q \in Pointers /\ EndsAt \in Pointers /\ q <= EndsAt
             /\ o \in 0 .. (BLOCK_SIZE - 1)
             /\ Piece \in Nat \ {0} /\ Piece <= loc.left /\ o + Piece <= BLOCK_SIZE
             /\ \A p \in loc.at .. (loc.at + Piece - 1) :
                  p \in Nat /\ p \div BLOCK_SIZE = q /\ p % BLOCK_SIZE = p - loc.at + o
             /\ loc.left > Piece => /\ q < EndsAt
                                    /\ (loc.at + Piece) \div BLOCK_SIZE = q + 1
             /\ \A i \in Nat : i * BLOCK_SIZE < loc.at + Piece => i = q \/ i * BLOCK_SIZE < loc.at
<1>. DEFINE q == loc.at \div BLOCK_SIZE
            o == loc.at % BLOCK_SIZE
            at == loc.at
            left == loc.left
            B == BLOCK_SIZE
            end == EndsAt
            max == MaxBlocks * BLOCK_SIZE
            start == q * B
            next == (q + 1) * B
<1>r. left \in Nat \ {0} /\ at \in Nat /\ at + left <= max
  BY DEF Writing, FileInv, RequestInv
<1>1. /\ q \in Nat /\ o \in 0 .. (B - 1) /\ start \in Nat /\ at = start + o /\ B \in Nat \ {0} /\ max \in Nat
      /\ \A k \in Nat : k * B \in Nat /\ (q < k <=> at < k * B)
  BY <1>r, Division
<1>2. next = start + B
  BY <1>1, SMTT(30)
<1>3. /\ end \in Nat
      /\ \A k \in Nat : end < k <=> at + left - 1 < k * B
  <2>1. at + left - 1 \in Nat /\ end = (at + left - 1) \div B
    BY <1>r DEF EndsAt, EndBlockIdx
  <2>. HIDE DEF end
  <2>. QED BY <1>1, <2>1, Division
<1>4. Piece = IF left <= B - o THEN left ELSE B - o
  BY DEF Piece
<1>. HIDE DEF q, o, at, left, end, max, start, next
<1>5. end \in Pointers
  <2>1. end < MaxBlocks
    <3>1. at + left - 1 < max
      BY <1>r, <1>1
    <3>. QED BY <1>3, <3>1 DEF max
  <2>. QED BY <1>3, <2>1, Shape DEF FitsPointers
<1>6. q <= end
  <2>1. end + 1 \in Nat /\ end < end + 1
    BY <1>3
  <2>2. at + left - 1 < (end + 1) * B /\ (end + 1) * B \in Nat
    BY <1>1, <1>3, <2>1
  <2>3. at < (end + 1) * B
    BY <1>r, <2>2
  <2>. QED BY <1>1, <1>3, <2>1, <2>3
<1>7. q \in Pointers
  BY <1>1, <1>3, <1>5, <1>6, Shape
<1>8. Piece \in Nat \ {0} /\ Piece <= left /\ o + Piece <= B
  BY <1>r, <1>1, <1>4
<1>9. ASSUME NEW p \in at .. (at + Piece - 1)
      PROVE  p \in Nat /\ p \div B = q /\ p % B = p - at + o
  <2>1. p \in Nat /\ p - at + o \in 0 .. (B - 1)
    BY <1>r, <1>1, <1>8
  <2>2. p - at + (at % B) \in 0 .. (B - 1) /\ o = at % B /\ q = at \div B
    BY <2>1 DEF o, at, q
  <2>3. p \div B = at \div B /\ p % B = p - at + (at % B)
    BY <1>r, <1>1, <2>1, <2>2, SameBlock
  <2>. QED BY <2>1, <2>2, <2>3
<1>10. ASSUME left > Piece PROVE q < end /\ (at + Piece) \div B = q + 1
  <2>1. Piece = B - o /\ at + Piece = next
    BY <1>r, <1>1, <1>2, <1>4, <1>10
  <2>2. q + 1 \in Nat /\ next = (q + 1) * B /\ next \in Nat
    BY <1>1, <1>2 DEF next
  <2>3. next = (q + 1) * B + 0 /\ 0 \in 0 .. (B - 1)
    BY <1>1, <2>2
  <2>4. next \div B = q + 1
    BY <1>1, <2>2, <2>3, Division
  <2>5. ~ (at + left - 1 < next)
    BY <1>r, <1>8, <1>10, <2>1, <2>2
  <2>6. ~ (end < q + 1)
    BY <1>3, <2>2, <2>5
  <2>. QED BY <1>1, <1>3, <2>1, <2>4, <2>6
<1>11. ASSUME NEW i \in Nat, i * B < at + Piece PROVE i = q \/ i * B < at
  <2>1. at + Piece <= next /\ at + Piece \in Nat
    BY <1>r, <1>1, <1>2, <1>8
  <2>2. CASE q + 1 <= i
    <3>1. q + 1 \in Int /\ i \in Int /\ next = (q + 1) * B
      BY <1>1 DEF next
    <3>2. q + 1 < i => (q + 1) * B + B <= i * B
      BY <1>1, <3>1, Multiples
    <3>3. i * B \in Nat /\ next <= i * B
      BY <1>1, <1>2, <2>2, <3>1, <3>2
    <3>. QED BY <1>11, <1>2, <2>1, <3>3, <1>1
  <2>3. CASE i + 1 <= q
    <3>1. i * B + B <= q * B
      BY <1>1, <2>3, Multiples
    <3>2. i * B \in Nat /\ start = q * B
      BY <1>1 DEF start
    <3>. QED BY <1>1, <3>1, <3>2
  <2>. QED BY <1>1, <2>2, <2>3
<1>. QED BY <1>1, <1>5, <1>6, <1>7, <1>8, <1>9, <1>10, <1>11 DEF q, o, at, left, end

\* The block that is written has none of the bytes of a file that is kept, but those of
\* the file before the piece.
LEMMA WriteBlockStep ==
  ASSUME FileInv, FitsPointers, FitsInode, WriteBlock
  PROVE  FileInv'
<1>. DEFINE f == loc.file
            q == loc.at \div BLOCK_SIZE
            o == loc.at % BLOCK_SIZE
            b == loc.ino.word[q]
            old == disk.data[b]
            new == [i \in DOMAIN old |->
                      IF i \in o .. (o + Piece - 1) THEN Byte(f, loc.at + i - o) ELSE old[i]]
<1>1. /\ Writing /\ pc' = "update inode" /\ loc' = loc /\ crashes' = crashes
      /\ disk' = [disk EXCEPT !.data[b] = new]
      /\ astray' = IF Strays THEN astray \cup {<<f, b>>} ELSE astray
  BY DEF WriteBlock, Writing
<1>w. /\ loc.wanted = <<>> /\ loc.ino = disk.inode[f] /\ f \in Files /\ loc.at \in Nat
  BY <1>1 DEF Writing, FileInv, WriteInv, RequestInv
<1>p. /\ q \in Pointers
      /\ o \in 0 .. (BLOCK_SIZE - 1)
      /\ Piece \in Nat \ {0} /\ o + Piece <= BLOCK_SIZE
      /\ \A p \in loc.at .. (loc.at + Piece - 1) :
           p \in Nat /\ p \div BLOCK_SIZE = q /\ p % BLOCK_SIZE = p - loc.at + o
  BY <1>1, PieceFits
<1>t. /\ disk \in [bitmap : SUBSET Blocks,
                  inode  : [Files -> Inode],
                  data   : [Blocks -> [0 .. (BLOCK_SIZE - 1) -> Bytes]]]
      /\ b \in Blocks
  BY <1>p, <1>w, InodeAt DEF FileInv, TypeOK
<1>2. /\ disk'.bitmap = disk.bitmap /\ disk'.inode = disk.inode
      /\ disk'.data = [disk.data EXCEPT ![b] = new]
      /\ disk' = [bitmap |-> disk.bitmap, inode |-> disk.inode, data |-> disk'.data]
  BY <1>1, <1>t
<1>3. old \in [0 .. (BLOCK_SIZE - 1) -> Bytes]
  BY <1>t
<1>. HIDE DEF f, q, o, b, old
<1>4. new \in [0 .. (BLOCK_SIZE - 1) -> Bytes]
  <2>1. ASSUME NEW i \in o .. (o + Piece - 1) PROVE Byte(f, loc.at + i - o) \in Bytes
    <3>1. loc.at + i - o \in Nat
      BY <1>w, <1>p
    <3>. QED BY <1>w, <3>1 DEF Bytes, Byte
  <2>. QED BY <1>3, <2>1
<1>5. \A i \in 0 .. (BLOCK_SIZE - 1) :
        new[i] = IF i \in o .. (o + Piece - 1) THEN Byte(f, loc.at + i - o) ELSE old[i]
  BY <1>3
<1>. HIDE DEF new
<1>6. /\ disk'.data \in [Blocks -> [0 .. (BLOCK_SIZE - 1) -> Bytes]]
      /\ disk'.data[b] = new
      /\ \A c \in Blocks \ {b} : disk'.data[c] = disk.data[c]
  BY <1>2, <1>4, <1>t
<1>7. TypeOK'
  <2>1. disk' \in [bitmap : SUBSET Blocks,
                   inode  : [Files -> Inode],
                   data   : [Blocks -> [0 .. (BLOCK_SIZE - 1) -> Bytes]]]
    BY <1>2, <1>6, <1>t
  <2>2. astray' \subseteq Files \X Blocks
    <3>1. <<f, b>> \in Files \X Blocks /\ astray \subseteq Files \X Blocks
      BY <1>t, <1>w DEF FileInv, TypeOK
    <3>. QED BY <1>1, <3>1
  <2>. QED BY <1>1, <2>1, <2>2 DEF FileInv, TypeOK
<1>a. astray \subseteq astray' /\ (Strays => <<f, b>> \in astray')
  BY <1>1
<1>k. ASSUME NEW g \in Files PROVE (Straight(g)' => Straight(g)) /\ (Kept(g)' => Kept(g))
  BY <1>a, <1>2 DEF Kept, Straight, Held
<1>8. DiskInv'
  <2>1. 1 \in disk'.bitmap /\ 0 \notin disk'.bitmap
    BY <1>2 DEF FileInv, DiskInv
  <2>2. ASSUME NEW g \in Files
        PROVE  /\ Marked(disk.inode[g])' /\ disk'.inode[g].word[numBlocks] # 0
               /\ Straight(g)' => Backed(disk.inode[g])'
    BY <1>2, <1>k DEF FileInv, DiskInv, Marked, Backed
  <2>3. Apart'
    BY <1>2 DEF FileInv, DiskInv, Apart
  <2>. QED BY <2>1, <2>2, <2>3 DEF DiskInv
<1>9. RequestInv'
  <2>1. (Strays' <=> Strays) /\ (Strays => (~ Straight(loc.file))')
    <3>1. Strays' <=> Strays
      BY <1>1 DEF Strays
    <3>2. Strays => (~ Straight(loc.file))'
      BY <1>1, <1>a DEF Straight, f
    <3>. QED BY <3>1, <3>2
  <2>. QED BY <1>1, <1>2, <2>1 DEF FileInv, RequestInv, Writing
<1>10. FindInv' /\ WriteInv'
  BY <1>1, <1>2, <1>w DEF FindInv, WriteInv, f
<1>11. DataInv'
  <2>1. ASSUME NEW g \in Files, Kept(g)', NEW p \in 0 .. (disk.inode[g].size - 1)
        PROVE  disk'.data[disk.inode[g].word[p \div BLOCK_SIZE]][p % BLOCK_SIZE] = Byte(g, p)
    <3>. DEFINE c == disk.inode[g].word[p \div BLOCK_SIZE]
    <3>1. Kept(g) /\ disk.data[c][p % BLOCK_SIZE] = Byte(g, p)
      BY <1>k, <2>1 DEF FileInv, DataInv
    <3>2. p \in Nat /\ p < disk.inode[g].size
      BY ByteHeld DEF FileInv
    <3>3. p \div BLOCK_SIZE \in Pointers /\ p % BLOCK_SIZE \in 0 .. (BLOCK_SIZE - 1)
          /\ p \div BLOCK_SIZE \in Held(g)
      BY ByteHeld DEF FileInv
    <3>4. c \in Blocks
      BY <3>3, InodeAt DEF FileInv
    <3>5. CASE c # b
      BY <1>6, <3>1, <3>4, <3>5
    <3>6. CASE c = b
      <4>0. ~ Strays
        <5>1. \A x \in astray' : c # x[2]
          BY <1>2, <2>1, <3>3 DEF Kept, Held
        <5>2. <<f, b>>[2] = b
          OBVIOUS
        <5>. QED BY <1>a, <3>6, <5>1, <5>2
      <4>a. q \in Pointers \cap disk.inode[f].found /\ loc.at = disk.inode[f].size
        BY <1>w, <1>p, <4>0 DEF Strays, q
      <4>b. p \div BLOCK_SIZE \in Pointers \cap disk.inode[g].found
        <5>1. Backed(disk.inode[g])
          BY <3>1 DEF Kept, FileInv, DiskInv
        <5>2. (p \div BLOCK_SIZE) * BLOCK_SIZE < disk.inode[g].size
          BY <3>3, HeldPointers DEF FileInv
        <5>. QED BY <3>3, <5>1, <5>2 DEF Backed
      <4>1. g = f /\ p \div BLOCK_SIZE = q
        BY <1>w, <4>a, <4>b, <3>6 DEF FileInv, DiskInv, Apart, b
      <4>2. p < loc.at
        BY <1>w, <3>2, <4>1, <4>a
      <4>3. p % BLOCK_SIZE < o
        <5>1. p = (p \div BLOCK_SIZE) * BLOCK_SIZE + (p % BLOCK_SIZE)
              /\ loc.at = (loc.at \div BLOCK_SIZE) * BLOCK_SIZE + (loc.at % BLOCK_SIZE)
              /\ (loc.at \div BLOCK_SIZE) * BLOCK_SIZE \in Nat
              /\ loc.at % BLOCK_SIZE \in Nat
          <6>1. \A a \in Nat : /\ a = (a \div BLOCK_SIZE) * BLOCK_SIZE + (a % BLOCK_SIZE)
                               /\ (a \div BLOCK_SIZE) * BLOCK_SIZE \in Nat
                               /\ a % BLOCK_SIZE \in 0 .. (BLOCK_SIZE - 1)
            BY Division
          <6>2. \A a \in 0 .. (BLOCK_SIZE - 1) : a \in Nat
            OBVIOUS
          <6>. QED BY <1>w, <3>2, <6>1, <6>2
        <5>2. p \div BLOCK_SIZE = loc.at \div BLOCK_SIZE
          BY <4>1 DEF q
        <5>. DEFINE start == (loc.at \div BLOCK_SIZE) * BLOCK_SIZE
                    r == p % BLOCK_SIZE
                    s == loc.at % BLOCK_SIZE
        <5>3. p = start + r /\ loc.at = start + s /\ start \in Nat /\ r \in Nat /\ s \in Nat
          <6>1. r \in Nat
            BY <3>3
          <6>2. (p \div BLOCK_SIZE) * BLOCK_SIZE = start
            BY <5>2
          <6>. QED BY <5>1, <6>1, <6>2
        <5>. HIDE DEF start, r, s
        <5>4. r < s
          BY <3>2, <4>2, <5>3
        <5>. QED BY <5>4 DEF r, s, o
      <4>4. p % BLOCK_SIZE \notin o .. (o + Piece - 1)
        BY <3>3, <4>3, <1>p
      <4>5. disk'.data[c][p % BLOCK_SIZE] = old[p % BLOCK_SIZE]
        BY <1>5, <1>6, <3>3, <3>6, <4>4
      <4>. QED BY <3>1, <3>6, <4>5 DEF old
    <3>. QED BY <3>5, <3>6
  <2>2. ASSUME NEW p \in loc.at .. (loc.at + Piece - 1)
        PROVE  disk'.data[loc.ino.word[p \div BLOCK_SIZE]][p % BLOCK_SIZE] = Byte(f, p)
    <3>. DEFINE i == p % BLOCK_SIZE
    <3>1. p \in Nat /\ p \div BLOCK_SIZE = q /\ i = p - loc.at + o
      BY <1>p
    <3>2. i \in 0 .. (BLOCK_SIZE - 1)
      BY <3>1, Division
    <3>. HIDE DEF i
    <3>5. o \in Nat /\ Piece \in Nat /\ loc.at \in Nat
      BY <1>w, <1>p
    <3>3. i \in o .. (o + Piece - 1) /\ loc.at + i - o = p
      BY <3>1, <3>2, <3>5
    <3>4. new[i] = Byte(f, p)
      BY <1>5, <3>2, <3>3
    <3>. QED BY <1>6, <3>1, <3>4 DEF b, i
  <2>3. Piece' = Piece
    BY <1>1 DEF Piece
  <2>4. \A p \in loc'.at .. (loc'.at + Piece' - 1) :
          disk'.data[loc'.ino.word[p \div BLOCK_SIZE]][p % BLOCK_SIZE] = Byte(loc'.file, p)
    BY <1>1, <2>2, <2>3 DEF f
  <2>5. \A g \in Files : Kept(g)' => \A p \in 0 .. (disk'.inode[g].size - 1) :
          disk'.data[disk'.inode[g].word[p \div BLOCK_SIZE]][p % BLOCK_SIZE] = Byte(g, p)
    BY <1>2, <2>1
  <2>. QED BY <2>4, <2>5 DEF DataInv
<1>. QED BY <1>7, <1>8, <1>9, <1>10, <1>11 DEF FileInv

LEMMA NoRequestTyped == NoRequest \in [file : Files \cup {0}, left : Nat, at : Nat,
                                       wanted : Seq(Words), ino : Inode]
<1>1. 0 \in Nat /\ 0 \in Files \cup {0} /\ <<>> \in Seq(Words)
  OBVIOUS
<1>2. MaxBlocks * BLOCK_SIZE \in Nat
  BY Division
<1>3. 0 \in 0 .. (MaxBlocks * BLOCK_SIZE)
  BY <1>2
<1>4. 0 \in Blocks
  BY FilesAssumption, FilesAreNumbers DEF Blocks
<1>5. [i \in Words |-> 0] \in [Words -> Nat]
  OBVIOUS
<1>6. \A i \in Pointers : [j \in Words |-> 0][i] \in Blocks
  BY <1>4, Shape
<1>7. [size |-> 0, word |-> [i \in Words |-> 0], found |-> {}] \in Inode
  BY <1>3, <1>5, <1>6 DEF Inode
<1>. QED BY <1>1, <1>7 DEF NoRequest

\* The inode that counts what was written: its bytes are in its blocks.
LEMMA AdvanceStep ==
  ASSUME FileInv, FitsPointers, FitsInode, Advance
  PROVE  FileInv'
<1>. DEFINE f == loc.file
            q == loc.at \div BLOCK_SIZE
            more == loc.left > Piece
            num == loc.ino.word[numBlocks]
            new == num + (IF more THEN 1 ELSE 0)
            size == loc.ino.size + Piece
            ino == [loc.ino EXCEPT !.size = size, !.word[numBlocks] = new]
<1>1. /\ Writing /\ pc = "update inode" /\ crashes' = crashes /\ astray' = astray
      /\ disk' = [disk EXCEPT !.inode[f] = ino]
      /\ more => /\ pc' = "write block"
                 /\ loc' = [loc EXCEPT !.ino = ino, !.at = loc.at + Piece, !.left = loc.left - Piece]
      /\ ~more => pc' = "idle" /\ loc' = NoRequest
  <2>1. pc = "update inode" /\ Writing /\ crashes' = crashes /\ astray' = astray
    BY DEF Advance, Writing
  <2>2. ino = [loc.ino EXCEPT !.size = @ + Piece, !.word[numBlocks] = @ + (IF more THEN 1 ELSE 0)]
    <3>1. loc.ino \in Inode
      BY DEF FileInv, TypeOK
    <3>. QED BY <3>1 DEF Inode
  <2>. HIDE DEF ino
  <2>3. disk' = [disk EXCEPT !.inode[f] = ino]
    BY <2>2 DEF Advance, UpdateInode
  <2>4. pc' = (IF more THEN "write block" ELSE "idle")
    BY DEF Advance
  <2>5. loc' = IF more THEN [loc EXCEPT !.ino = ino, !.at = @ + Piece, !.left = @ - Piece] ELSE NoRequest
    BY <2>2 DEF Advance
  <2>6. [loc EXCEPT !.ino = ino, !.at = @ + Piece, !.left = @ - Piece]
          = [loc EXCEPT !.ino = ino, !.at = loc.at + Piece, !.left = loc.left - Piece]
    BY DEF FileInv, TypeOK
  <2>. QED BY <2>1, <2>3, <2>4, <2>5, <2>6
<1>w. /\ loc.wanted = <<>> /\ loc.ino = disk.inode[f]
      /\ f \in Files /\ loc.left \in Nat \ {0} /\ loc.at \in Nat
      /\ loc.at + loc.left <= MaxBlocks * BLOCK_SIZE
      /\ loc.ino.size + loc.left <= MaxBlocks * BLOCK_SIZE
      /\ Strays => ~ Straight(f)
  BY <1>1 DEF FileInv, WriteInv, RequestInv
<1>p. /\ q \in Pointers
      /\ Piece \in Nat \ {0} /\ Piece <= loc.left
      /\ \A i \in Nat : i * BLOCK_SIZE < loc.at + Piece => i = q \/ i * BLOCK_SIZE < loc.at
  BY <1>1, PieceFits
<1>t. /\ disk \in [bitmap : SUBSET Blocks,
                  inode  : [Files -> Inode],
                  data   : [Blocks -> [0 .. (BLOCK_SIZE - 1) -> Bytes]]]
      /\ loc \in [file : Files \cup {0}, left : Nat, at : Nat, wanted : Seq(Words), ino : Inode]
      /\ loc.ino \in [size : 0 .. (MaxBlocks * BLOCK_SIZE), word : [Words -> Nat], found : SUBSET Words]
      /\ \A i \in Pointers : loc.ino.word[i] \in Blocks
      /\ num \in Nat
  <2>1. num \in Nat
    BY Shape DEF FileInv, TypeOK, Inode
  <2>. QED BY <2>1 DEF FileInv, TypeOK, Inode
<1>s. /\ Piece \in Nat \ {0} /\ Piece <= loc.left /\ loc.left \in Nat /\ loc.at \in Nat
      /\ loc.ino.size \in Nat
      /\ loc.ino.size + loc.left <= MaxBlocks * BLOCK_SIZE
  BY <1>w, <1>p, InodeAt DEF FileInv
<1>r. /\ Marked(loc.ino) /\ loc.ino.word[numBlocks] # 0 /\ (Straight(f) => Backed(loc.ino))
  BY <1>w DEF FileInv, DiskInv
<1>2. /\ new \in Nat \ {0} /\ num <= new
      /\ size = loc.ino.size + Piece /\ size \in 0 .. (MaxBlocks * BLOCK_SIZE)
  <2>1. MaxBlocks * BLOCK_SIZE \in Nat
    BY Division
  <2>2. num # 0
    BY <1>r
  <2>3. new \in Nat \ {0} /\ num <= new
    BY <1>t, <2>2
  <2>4. size = loc.ino.size + Piece /\ size \in 0 .. (MaxBlocks * BLOCK_SIZE)
    BY <1>s, <2>1
  <2>. QED BY <2>3, <2>4
<1>3. /\ ino \in Inode /\ ino.size = size /\ ino.word[numBlocks] = new /\ ino.found = loc.ino.found
      /\ \A i \in Pointers : ino.word[i] = loc.ino.word[i]
  <2>. HIDE DEF size, new
  <2>1. ino.size = size /\ ino.word = [loc.ino.word EXCEPT ![numBlocks] = new]
        /\ ino = [size |-> size, word |-> ino.word, found |-> loc.ino.found] /\ ino.found = loc.ino.found
    <3>1. loc.ino \in [size : 0 .. (MaxBlocks * BLOCK_SIZE), word : [Words -> Nat], found : SUBSET Words]
      BY <1>t
    <3>. DEFINE mid == [loc.ino EXCEPT !.size = size]
    <3>2. ino = [mid EXCEPT !.word[numBlocks] = new]
      OBVIOUS
    <3>3. /\ mid.word = loc.ino.word /\ mid.size = size /\ mid.found = loc.ino.found
          /\ mid = [size |-> size, word |-> loc.ino.word, found |-> loc.ino.found]
      BY <3>1
    <3>. HIDE DEF mid
    <3>. QED BY <3>2, <3>3
  <2>. HIDE DEF ino
  <2>2. /\ ino.word \in [Words -> Nat] /\ ino.word[numBlocks] = new
        /\ \A i \in Pointers : ino.word[i] = loc.ino.word[i]
    <3>1. loc.ino.word \in [Words -> Nat] /\ new \in Nat
      BY <1>t, <1>2
    <3>2. numBlocks \in Words /\ \A i \in Pointers : i \in Words /\ i # numBlocks
      BY Shape
    <3>. QED BY <2>1, <3>1, <3>2, Zenon
  <2>3. ino \in [size : 0 .. (MaxBlocks * BLOCK_SIZE), word : [Words -> Nat], found : SUBSET Words]
    BY <1>2, <1>t, <2>1, <2>2
  <2>. QED BY <1>t, <2>1, <2>2, <2>3 DEF Inode
<1>4. /\ disk'.bitmap = disk.bitmap /\ disk'.data = disk.data
      /\ disk'.inode = [disk.inode EXCEPT ![f] = ino]
      /\ disk' = [bitmap |-> disk.bitmap, inode |-> disk'.inode, data |-> disk.data]
  BY <1>1, <1>t
<1>. HIDE DEF ino
<1>5. /\ disk'.inode \in [Files -> Inode] /\ disk'.inode[f] = ino
      /\ \A g \in Files \ {f} : disk'.inode[g] = disk.inode[g]
  BY <1>3, <1>4, <1>w, <1>t
<1>6. more => /\ loc'.file = f /\ loc'.left = loc.left - Piece /\ loc'.at = loc.at + Piece
              /\ loc'.wanted = loc.wanted /\ loc'.ino = ino
              /\ loc' \in [file : Files \cup {0}, left : Nat, at : Nat, wanted : Seq(Words), ino : Inode]
  <2>. SUFFICES ASSUME more PROVE /\ loc'.file = f /\ loc'.left = loc.left - Piece
                                  /\ loc'.at = loc.at + Piece
                                  /\ loc'.wanted = loc.wanted /\ loc'.ino = ino
                                  /\ loc' \in [file : Files \cup {0}, left : Nat, at : Nat,
                                               wanted : Seq(Words), ino : Inode]
    OBVIOUS
  <2>1. loc.at + Piece \in Nat /\ loc.left - Piece \in Nat
    BY <1>s
  <2>. QED BY <1>1, <1>3, <1>t, <2>1
<1>. HIDE DEF f, q, more, num, new, size
<1>7. TypeOK'
  <2>1. disk' \in [bitmap : SUBSET Blocks,
                   inode  : [Files -> Inode],
                   data   : [Blocks -> [0 .. (BLOCK_SIZE - 1) -> Bytes]]]
    BY <1>4, <1>5, <1>t
  <2>2. loc' \in [file : Files \cup {0}, left : Nat, at : Nat, wanted : Seq(Words), ino : Inode]
    BY <1>1, <1>6, NoRequestTyped
  <2>3. pc' \in {"idle", "allocate", "write block", "update inode"}
    BY <1>1
  <2>. QED BY <1>1, <2>1, <2>2, <2>3 DEF FileInv, TypeOK
<1>a. \A g \in Files : Straight(g)' <=> Straight(g)
  BY <1>1 DEF Straight
<1>8. Straight(f) => loc.at = loc.ino.size /\ q \in loc.ino.found
  BY <1>w DEF Strays, q
<1>9. DiskInv'
  <2>1. 1 \in disk'.bitmap /\ 0 \notin disk'.bitmap
    BY <1>4 DEF FileInv, DiskInv
  <2>2. ASSUME NEW g \in Files
        PROVE  /\ Marked(disk.inode[g])' /\ disk'.inode[g].word[numBlocks] # 0
               /\ Straight(g)' => Backed(disk.inode[g])'
    <3>1. Marked(disk.inode[g]) /\ disk.inode[g].word[numBlocks] # 0 /\ (Straight(g) => Backed(disk.inode[g]))
      BY DEF FileInv, DiskInv
    <3>2. CASE g # f
      BY <1>4, <1>5, <1>a, <3>1, <3>2 DEF Marked, Backed
    <3>3. CASE g = f
      <4>1. ASSUME Straight(f), NEW i \in Pointers, i * BLOCK_SIZE < size PROVE i \in loc.ino.found
        <5>1. i \in Nat /\ size = loc.at + Piece
          BY <1>2, <1>8, <4>1, Shape
        <5>2. i = q \/ i * BLOCK_SIZE < loc.at
          BY <1>p, <4>1, <5>1
        <5>. QED BY <1>8, <1>r, <4>1, <5>2 DEF Backed
      <4>2. Straight(g)' => Backed(disk.inode[g])'
        BY <1>3, <1>5, <1>a, <3>3, <4>1 DEF Backed
      <4>3. Marked(disk.inode[g])' /\ disk'.inode[g].word[numBlocks] # 0
        BY <1>2, <1>3, <1>4, <1>5, <1>r, <3>3 DEF Marked
      <4>. QED BY <4>2, <4>3
    <3>. QED BY <3>2, <3>3
  <2>3. \A g \in Files : /\ disk'.inode[g].found = disk.inode[g].found
                         /\ \A i \in Pointers : disk'.inode[g].word[i] = disk.inode[g].word[i]
    BY <1>3, <1>5, <1>w
  <2>4. Apart'
    BY <2>3 DEF FileInv, DiskInv, Apart
  <2>. QED BY <2>1, <2>2, <2>4 DEF DiskInv
<1>10. RequestInv'
  <2>. SUFFICES ASSUME more PROVE RequestInv'
    BY <1>1 DEF RequestInv
  <2>1. /\ loc'.left \in Nat \ {0} /\ loc'.at \in Nat
        /\ loc'.at + loc'.left = loc.at + loc.left /\ size + loc'.left = loc.ino.size + loc.left
    <3>1. loc'.left = loc.left - Piece /\ loc'.at = loc.at + Piece /\ loc.left > Piece
      BY <1>6 DEF more
    <3>. QED BY <1>2, <1>s, <3>1
  <2>2. loc'.ino.word[numBlocks] = new /\ new # 0 /\ loc'.ino.size = size /\ loc'.file \in Files
        /\ disk'.inode[loc'.file].size = size
    BY <1>2, <1>3, <1>5, <1>6, <1>w
  <2>3. pc' # "update inode"
    BY <1>1
  <2>. QED BY <1>w, <2>1, <2>2, <2>3 DEF RequestInv
<1>11. FindInv'
  BY <1>1 DEF FindInv
<1>12. WriteInv'
  <2>1. Writing' => more
    BY <1>1 DEF Writing
  <2>. QED BY <1>5, <1>6, <1>w, <2>1 DEF WriteInv
<1>13. ASSUME NEW g \in Files, Kept(g)' PROVE Kept(g)
  <2>1. Held(g) \subseteq Held(g)'
    <3>1. CASE g # f
      BY <1>5, <3>1 DEF Held
    <3>2. CASE g = f
      <4>1. disk.inode[g].size = loc.ino.size /\ disk'.inode[g].size = size
        BY <1>3, <1>5, <1>w, <3>2
      <4>2. ASSUME NEW i \in Words, i * BLOCK_SIZE < loc.ino.size PROVE i * BLOCK_SIZE < size
        <5>1. i * BLOCK_SIZE \in Nat
          BY Shape, Division
        <5>. QED BY <1>2, <1>s, <4>2, <5>1
      <4>. QED BY <4>1, <4>2 DEF Held
    <3>. QED BY <3>1, <3>2
  <2>2. \A i \in Held(g) : disk'.inode[g].word[i] = disk.inode[g].word[i]
    <3>1. \A i \in Held(g) : i \in Pointers
      BY HeldPointers DEF FileInv
    <3>. QED BY <1>3, <1>5, <1>w, <3>1
  <2>3. Straight(g)' /\ \A x \in astray : \A i \in Held(g)' : disk'.inode[g].word[i] # x[2]
    BY <1>1, <1>13 DEF Kept
  <2>. QED BY <1>a, <2>1, <2>2, <2>3 DEF Kept
<1>14. DataInv'
  <2>1. ASSUME NEW g \in Files, Kept(g)', NEW p \in 0 .. (disk'.inode[g].size - 1)
        PROVE  disk.data[disk'.inode[g].word[p \div BLOCK_SIZE]][p % BLOCK_SIZE] = Byte(g, p)
    <3>0. Kept(g)
      BY <1>13, <2>1
    <3>1. CASE g # f
      <4>1. p \in 0 .. (disk.inode[g].size - 1)
        BY <1>5, <3>1
      <4>. QED BY <1>5, <3>0, <3>1, <4>1 DEF FileInv, DataInv
    <3>2. CASE g = f
      <4>0. loc.at = loc.ino.size
        BY <1>8, <3>0, <3>2 DEF Kept
      <4>1. p \in Nat /\ p < size /\ p < MaxBlocks * BLOCK_SIZE
        <5>1. MaxBlocks * BLOCK_SIZE \in Nat
          BY Division
        <5>2. p \in 0 .. (size - 1)
          BY <1>3, <1>5, <3>2
        <5>. QED BY <1>2, <5>1, <5>2
      <4>2. disk'.inode[g].word[p \div BLOCK_SIZE] = loc.ino.word[p \div BLOCK_SIZE]
        BY <1>3, <1>5, <3>2, <4>1, WithinPointers
      <4>3. CASE p < loc.at
        <5>0. disk.inode[f].size = loc.at /\ loc.at \in Nat /\ loc.ino = disk.inode[f]
          BY <1>w, <4>0
        <5>1. p \in 0 .. (disk.inode[f].size - 1)
          BY <4>1, <4>3, <5>0
        <5>2. disk.data[disk.inode[f].word[p \div BLOCK_SIZE]][p % BLOCK_SIZE] = Byte(f, p)
          BY <1>w, <3>0, <3>2, <5>1 DEF FileInv, DataInv
        <5>. QED BY <3>2, <4>2, <5>0, <5>2
      <4>4. CASE ~ (p < loc.at)
        <5>1. p \in loc.at .. (loc.at + Piece - 1)
          <6>1. loc.at \in Nat /\ Piece \in Nat /\ p \in Nat /\ p < loc.at + Piece /\ p >= loc.at
            BY <1>s, <1>2, <4>0, <4>1, <4>4
          <6>. QED BY <6>1
        <5>2. disk.data[loc.ino.word[p \div BLOCK_SIZE]][p % BLOCK_SIZE] = Byte(f, p)
          BY <1>1, <5>1 DEF FileInv, DataInv, f
        <5>. QED BY <3>2, <4>2, <5>2
      <4>. QED BY <4>3, <4>4
    <3>. QED BY <3>1, <3>2
  <2>2. \A g \in Files : Kept(g)' => \A p \in 0 .. (disk'.inode[g].size - 1) :
          disk'.data[disk'.inode[g].word[p \div BLOCK_SIZE]][p % BLOCK_SIZE] = Byte(g, p)
    BY <1>4, <2>1
  <2>3. pc' # "update inode"
    BY <1>1
  <2>. QED BY <2>2, <2>3 DEF DataInv
<1>. QED BY <1>7, <1>9, <1>10, <1>11, <1>12, <1>14 DEF FileInv

LEMMA CrashStep ==
  ASSUME FileInv, Crash
  PROVE  FileInv'
<1>1. pc' = "idle" /\ loc' = NoRequest /\ disk' = disk /\ astray' = astray
      /\ crashes < MaxCrashes /\ crashes' = crashes + 1
  BY DEF Crash
<1>2. TypeOK'
  <2>1. loc' \in [file : Files \cup {0}, left : Nat, at : Nat, wanted : Seq(Words), ino : Inode]
    BY <1>1, NoRequestTyped
  <2>2. crashes \in 0 .. MaxCrashes
    BY DEF FileInv, TypeOK
  <2>3. crashes' \in 0 .. MaxCrashes
    BY <1>1, <2>2
  <2>. QED BY <1>1, <2>1, <2>3 DEF FileInv, TypeOK
<1>3. DiskInv'
  BY <1>1, DiskKept DEF FileInv
<1>4. RequestInv' /\ FindInv' /\ WriteInv'
  BY <1>1 DEF RequestInv, FindInv, WriteInv, Writing
<1>5. DataInv'
  BY <1>1, DataKept DEF FileInv
<1>. QED BY <1>2, <1>3, <1>4, <1>5 DEF FileInv

\* The files are empty at first, with a block each.
LEMMA FilesInit == FitsPointers /\ FitsInode /\ Init => FileInv
<1>. SUFFICES ASSUME FitsPointers, FitsInode, Init PROVE FileInv
  OBVIOUS
<1>0. PICK left \in [Files -> [Pointers \ {0} -> Leftovers]] :
        disk = [bitmap |-> 1 .. (Cardinality(Files) + 1),
                inode  |-> [f \in Files |->
                              [size  |-> 0,
                               word  |-> [i \in Words |-> CASE i = 0 -> f + 1
                                                            [] i = bitPos -> f % 2
                                                            [] i = numBlocks -> 1
                                                            [] i \in Pointers \ {0} -> left[f][i]
                                                            [] OTHER -> 0],
                               found |-> {0}]],
                data   |-> [b \in Blocks |-> ZeroBlock]]
  BY DEF Init
<1>. DEFINE first(f) == [i \in Words |-> CASE i = 0 -> f + 1
                                          [] i = bitPos -> f % 2
                                          [] i = numBlocks -> 1
                                          [] i \in Pointers \ {0} -> left[f][i]
                                          [] OTHER -> 0]
<1>1. /\ disk = [bitmap |-> 1 .. (Cardinality(Files) + 1),
                 inode  |-> [f \in Files |-> [size |-> 0, word |-> first(f), found |-> {0}]],
                 data   |-> [b \in Blocks |-> ZeroBlock]]
      /\ pc = "idle" /\ loc = NoRequest /\ crashes = 0 /\ astray = {}
  BY <1>0 DEF Init
<1>2. /\ Files = 1 .. Cardinality(Files) /\ Cardinality(Files) \in Nat /\ Cardinality(Files) + 2 < WORD
  BY FilesAssumption, FilesAreNumbers
<1>l. \A f \in Files : \A i \in Pointers \ {0} : left[f][i] \in Blocks /\ left[f][i] \in Nat
  <2>1. ASSUME NEW f \in Files, NEW i \in Pointers \ {0} PROVE left[f][i] \in Leftovers
    <3>1. left[f] \in [Pointers \ {0} -> Leftovers]
      BY <1>0
    <3>. QED BY <3>1
  <2>2. Leftovers \subseteq Blocks /\ Blocks \subseteq Nat
    BY LeftoversAssumption DEF Blocks
  <2>. QED BY <2>1, <2>2
<1>3. ASSUME NEW f \in Files
      PROVE  /\ first(f) \in [Words -> Nat] /\ first(f)[numBlocks] = 1
             /\ \A i \in Pointers : first(f)[i] = IF i = 0 THEN f + 1 ELSE left[f][i]
  <2>1. f \in Nat /\ f + 1 \in Nat /\ f % 2 \in Nat
    <3>1. f \in Nat
      BY FilesAreNumbers
    <3>2. f % 2 \in 0 .. 1
      BY <3>1, SMTT(30)
    <3>. QED BY <3>1, <3>2
  <2>2. numBlocks # 0 /\ numBlocks # bitPos /\ bitPos # 0
    BY DEF numBlocks, bitPos
  <2>3. ASSUME NEW i \in Words PROVE first(f)[i] \in Nat
    <3>1. CASE i = 0
      BY <2>1, <3>1
    <3>2. CASE i # 0 /\ i = bitPos
      BY <2>1, <2>2, <3>2, Shape
    <3>3. CASE i # 0 /\ i # bitPos
      BY <1>l, <3>3
    <3>. QED BY <3>1, <3>2, <3>3
  <2>4. first(f) \in [Words -> Nat]
    BY <2>3
  <2>5. first(f)[numBlocks] = 1
    BY <2>2, Shape
  <2>6. ASSUME NEW i \in Pointers PROVE first(f)[i] = IF i = 0 THEN f + 1 ELSE left[f][i]
    BY Shape
  <2>. QED BY <2>4, <2>5, <2>6
<1>4. ASSUME NEW f \in Files
      PROVE  /\ disk.inode[f].size = 0 /\ disk.inode[f].word \in [Words -> Nat]
             /\ disk.inode[f].word[numBlocks] = 1
             /\ disk.inode[f].word[0] = f + 1
             /\ \A i \in Pointers : i # 0 => disk.inode[f].word[i] \in Blocks
             /\ disk.inode[f].found = {0}
             /\ disk.inode[f] \in [size : {0}, word : [Words -> Nat], found : {{0}}]
             /\ f \in Nat \ {0} /\ f + 1 \in 2 .. (Cardinality(Files) + 1)
  <2>. HIDE DEF first
  <2>1. disk.inode[f] = [size |-> 0, word |-> first(f), found |-> {0}]
    BY <1>1
  <2>2. f \in Nat \ {0} /\ f + 1 \in 2 .. (Cardinality(Files) + 1)
    BY <1>2
  <2>3. first(f)[0] = f + 1 /\ \A i \in Pointers : i # 0 => first(f)[i] \in Blocks
    BY <1>3, <1>l, Shape
  <2>. QED BY <1>3, <2>1, <2>2, <2>3
<1>. HIDE DEF first
<1>5. MaxBlocks * BLOCK_SIZE \in Nat
  BY Division
<1>6. TypeOK
  <2>1. disk.bitmap \in SUBSET Blocks
    BY <1>1, <1>2 DEF Blocks
  <2>2. ASSUME NEW f \in Files PROVE disk.inode[f] \in Inode
    <3>1. \A i \in Pointers : disk.inode[f].word[i] \in Blocks
      <4>1. f + 1 \in Blocks
        BY <1>2, <1>4 DEF Blocks
      <4>. QED BY <1>4, <4>1
    <3>2. disk.inode[f] \in [size : 0 .. (MaxBlocks * BLOCK_SIZE), word : [Words -> Nat], found : SUBSET Words]
      <4>1. disk.inode[f] \in [size : {0}, word : [Words -> Nat], found : {{0}}] /\ {0} \in SUBSET Words
        BY <1>4, Shape, SMTT(30)
      <4>2. 0 \in 0 .. (MaxBlocks * BLOCK_SIZE)
        BY <1>5
      <4>. QED BY <4>1, <4>2
    <3>. QED BY <3>1, <3>2 DEF Inode
  <2>3. ZeroBlock \in [0 .. (BLOCK_SIZE - 1) -> Bytes]
    BY DEF ZeroBlock, Bytes
  <2>4. disk \in [bitmap : SUBSET Blocks,
                  inode  : [Files -> Inode],
                  data   : [Blocks -> [0 .. (BLOCK_SIZE - 1) -> Bytes]]]
    <3>1. disk.inode \in [Files -> Inode]
      <4>1. disk.inode = [f \in Files |-> disk.inode[f]]
        BY <1>1
      <4>. QED BY <2>2, <4>1
    <3>2. disk.data \in [Blocks -> [0 .. (BLOCK_SIZE - 1) -> Bytes]]
      BY <1>1, <2>3
    <3>3. disk = [bitmap |-> disk.bitmap, inode |-> disk.inode, data |-> disk.data]
      BY <1>1
    <3>. QED BY <2>1, <3>1, <3>2, <3>3
  <2>5. crashes \in 0 .. MaxCrashes /\ astray \subseteq Files \X Blocks
    BY <1>1
  <2>. QED BY <1>1, <2>4, <2>5, NoRequestTyped DEF TypeOK
<1>7. DiskInv
  <2>1. 1 \in disk.bitmap /\ 0 \notin disk.bitmap
    BY <1>1, <1>2
  <2>2. ASSUME NEW f \in Files
        PROVE  Marked(disk.inode[f]) /\ disk.inode[f].word[numBlocks] # 0 /\ Backed(disk.inode[f])
    <3>1. Marked(disk.inode[f])
      <4>1. f + 1 \in disk.bitmap \ {1}
        BY <1>1, <1>2, <1>4
      <4>. QED BY <1>4, <4>1 DEF Marked
    <3>2. Backed(disk.inode[f])
      <4>1. ASSUME NEW i \in Pointers PROVE ~ (i * BLOCK_SIZE < 0)
        BY Division, Shape
      <4>. QED BY <1>4, <4>1 DEF Backed
    <3>. QED BY <1>4, <3>1, <3>2
  <2>3. Apart
    <3>. SUFFICES ASSUME NEW f \in Files, NEW g \in Files,
                         NEW i \in Pointers \cap disk.inode[f].found, NEW j \in Pointers \cap disk.inode[g].found,
                         disk.inode[f].word[i] = disk.inode[g].word[j]
                  PROVE  f = g /\ i = j
      BY DEF Apart
    <3>1. i = 0 /\ disk.inode[f].word[i] = f + 1
      BY <1>4
    <3>2. j = 0 /\ disk.inode[g].word[j] = g + 1
      BY <1>4
    <3>3. f \in Nat /\ g \in Nat
      BY <1>4
    <3>. QED BY <3>1, <3>2, <3>3
  <2>. QED BY <2>1, <2>2, <2>3 DEF DiskInv
<1>8. RequestInv /\ FindInv /\ WriteInv
  BY <1>1 DEF RequestInv, FindInv, WriteInv, Writing
<1>9. DataInv
  <2>1. ASSUME NEW f \in Files PROVE 0 .. (disk.inode[f].size - 1) = {}
    <3>1. disk.inode[f].size = 0
      BY <1>4
    <3>. QED BY <3>1
  <2>. QED BY <1>1, <2>1 DEF DataInv
<1>. QED BY <1>6, <1>7, <1>8, <1>9 DEF FileInv

\* The invariant is inductive, whatever is asked for.
THEOREM FileInvHolds ==
  ASSUME FitsPointers, FitsInode
  PROVE  Spec => []FileInv
<1>1. Init => FileInv
  BY FilesInit
<1>2. FileInv /\ [Next]_vars => FileInv'
  <2>. SUFFICES ASSUME FileInv, [Next]_vars PROVE FileInv'
    OBVIOUS
  <2>1. CASE \E f \in Files, off \in 0 .. (MaxBlocks * BLOCK_SIZE), n \in Sizes : Write(f, off, n)
    <3>1. 0 .. (MaxBlocks * BLOCK_SIZE) \subseteq Nat
      OBVIOUS
    <3>. QED BY <2>1, <3>1, WriteStep
  <2>2. CASE Allocate
    BY <2>2, AllocateStep
  <2>3. CASE Allocated
    BY <2>3, AllocatedStep
  <2>4. CASE WriteBlock
    BY <2>4, WriteBlockStep
  <2>5. CASE Advance
    BY <2>5, AdvanceStep
  <2>6. CASE Crash
    BY <2>6, CrashStep
  <2>7. CASE UNCHANGED vars
    <3>1. disk' = disk /\ pc' = pc /\ loc' = loc /\ crashes' = crashes /\ astray' = astray
      BY <2>7 DEF vars
    <3>2. DiskInv'
      BY <3>1, DiskKept DEF FileInv
    <3>3. TypeOK'
      BY <3>1 DEF FileInv, TypeOK
    <3>4. DataInv'
      <4>1. ASSUME NEW f \in Files, Kept(f)' PROVE Kept(f)
        BY <3>1, <4>1 DEF Kept, Straight, Held
      <4>. QED BY <3>1, <4>1 DEF FileInv, DataInv, Piece
    <3>5. ToFind' = ToFind /\ FreeBlocks' = FreeBlocks /\ (Writing' <=> Writing) /\ (Strays' <=> Strays)
      BY <3>1 DEF ToFind, FreeBlocks, Writing, Strays
    <3>6. RequestInv'
      BY <3>1, <3>5 DEF FileInv, RequestInv, Straight
    <3>7. FindInv'
      BY <3>1, <3>5 DEF FileInv, FindInv, Marked, Straight, Backed
    <3>8. WriteInv'
      BY <3>1, <3>5 DEF FileInv, WriteInv
    <3>. QED BY <3>2, <3>3, <3>4, <3>6, <3>7, <3>8 DEF FileInv
  <2>. QED BY <2>1, <2>2, <2>3, <2>4, <2>5, <2>6, <2>7 DEF Next
<1>. QED BY <1>1, <1>2, PTL DEF Spec

\* Pointers are numbers of blocks, and what sfs_write keeps of a request stays
\* within its bounds.
THEOREM FilesTyped ==
  ASSUME FitsPointers, FitsInode
  PROVE  Spec => []TypeOK
<1>1. FileInv => TypeOK
  BY DEF FileInv
<1>. QED BY <1>1, FileInvHolds, PTL

\* Every block that a file has bytes in, which was only appended to and whose writes
\* found the blocks they needed, was allocated for this file alone and for this place
\* in it, whatever is asked of the other files and whenever the process has died.
THEOREM BlocksAreOwned ==
  ASSUME FitsPointers, FitsInode
  PROVE  Spec => []BlocksOwned
<1>1. FileInv => BlocksOwned
  <2>. SUFFICES ASSUME FileInv, NEW f \in Files, Straight(f), NEW i \in Held(f)
                PROVE  LET b == disk.inode[f].word[i]
                       IN  /\ b \in disk.bitmap \ {1}
                           /\ \A g \in Files : \A j \in Pointers \cap disk.inode[g].found :
                                disk.inode[g].word[j] = b => <<f, i>> = <<g, j>>
    BY DEF BlocksOwned, OwnsBlocks
  <2>1. i \in Pointers \cap disk.inode[f].found
    <3>1. i \in Pointers /\ i * BLOCK_SIZE < disk.inode[f].size
      BY HeldPointers DEF FileInv
    <3>. QED BY <3>1 DEF FileInv, DiskInv, Backed
  <2>2. disk.inode[f].word[i] \in disk.bitmap \ {1}
    BY <2>1 DEF FileInv, DiskInv, Marked
  <2>. QED BY <2>1, <2>2 DEF FileInv, DiskInv, Apart
<1>. QED BY <1>1, FileInvHolds, PTL

-----------------------------------------------------------------------------
(***************************************************************************)
(* What sfs_read returns                                                   *)
(***************************************************************************)

\* The sequence of the records of Reading, up to the m-th.
FirstLoad(f, n) ==
  [left |-> IF disk.inode[f].size < n THEN disk.inode[f].size ELSE n, buf |-> <<>>]

NextLoad(f, off, k, old) ==
  ReadBlock(disk.inode[f].word[off \div BLOCK_SIZE + k - 1],
            IF k = 1 THEN off % BLOCK_SIZE ELSE 0, old)

Loads(f, off, n, m, g) ==
  g = [k \in 0 .. m |-> IF k = 0 THEN FirstLoad(f, n) ELSE NextLoad(f, off, k, g[k - 1])]

LEMMA LoadsExists ==
  ASSUME NEW f, NEW off, NEW n, NEW m \in Nat
  PROVE  \E g : Loads(f, off, n, m, g)
<1>. DEFINE S == {x \in Nat : ~ \E g : Loads(f, off, n, x, g)}
<1>. SUFFICES S = {}
  OBVIOUS
<1>. SUFFICES ASSUME S # {} PROVE FALSE
  OBVIOUS
<1>1. PICK x \in S : \A y \in S : x <= y
  BY LeastNumber
<1>2. CASE x = 0
  <2>. DEFINE g == [k \in 0 .. 0 |-> FirstLoad(f, n)]
  <2>1. g = [k \in 0 .. 0 |-> IF k = 0 THEN FirstLoad(f, n) ELSE NextLoad(f, off, k, g[k - 1])]
    OBVIOUS
  <2>. QED BY <1>1, <1>2, <2>1 DEF Loads
<1>3. CASE x # 0
  <2>1. x - 1 \in Nat /\ x - 1 \notin S /\ x \in Nat
    BY <1>1, <1>3
  <2>2. PICK g : Loads(f, off, n, x - 1, g)
    BY <2>1
  <2>3. \A k \in 0 .. (x - 1) : g[k] = IF k = 0 THEN FirstLoad(f, n) ELSE NextLoad(f, off, k, g[k - 1])
    BY <2>2 DEF Loads
  <2>. DEFINE h == [k \in 0 .. x |-> IF k = x THEN NextLoad(f, off, x, g[x - 1]) ELSE g[k]]
  <2>4. ASSUME NEW k \in 0 .. x
        PROVE  h[k] = IF k = 0 THEN FirstLoad(f, n) ELSE NextLoad(f, off, k, h[k - 1])
    <3>1. CASE k = 0
      BY <1>3, <2>1, <2>3, <3>1
    <3>2. CASE k # 0
      <4>1. k - 1 \in 0 .. (x - 1) /\ k - 1 \in 0 .. x /\ k - 1 # x
        BY <2>1, <3>2
      <4>2. h[k - 1] = g[k - 1]
        BY <4>1
      <4>3. CASE k = x
        BY <3>2, <4>2, <4>3
      <4>4. CASE k # x
        <5>1. k \in 0 .. (x - 1)
          BY <2>1, <4>4
        <5>. QED BY <2>3, <3>2, <4>2, <4>4, <5>1
      <4>. QED BY <4>3, <4>4
    <3>. QED BY <3>1, <3>2
  <2>5. h = [k \in 0 .. x |-> h[k]]
    OBVIOUS
  <2>. HIDE DEF h
  <2>6. h = [k \in 0 .. x |-> IF k = 0 THEN FirstLoad(f, n) ELSE NextLoad(f, off, k, h[k - 1])]
    BY <2>4, <2>5
  <2>. QED BY <1>1, <2>6 DEF Loads
<1>. QED BY <1>2, <1>3

\* Reading is such a sequence.
LEMMA ReadingLoads ==
  ASSUME NEW f, NEW off, NEW n \in Nat
  PROVE  LET last == n \div BLOCK_SIZE + 2
             r    == Reading(f, off, n)
         IN  /\ last \in Nat /\ last >= 2
             /\ r[0] = FirstLoad(f, n)
             /\ \A k \in 1 .. last : r[k] = NextLoad(f, off, k, r[k - 1])
<1>. DEFINE N == n \div BLOCK_SIZE + 2
            Body(g) == [k \in 0 .. N |->
                          IF k = 0 THEN [left |-> IF disk.inode[f].size < n THEN disk.inode[f].size ELSE n,
                                         buf |-> <<>>]
                          ELSE ReadBlock(disk.inode[f].word[off \div BLOCK_SIZE + k - 1],
                                         IF k = 1 THEN off % BLOCK_SIZE ELSE 0, g[k - 1])]
            r == Reading(f, off, n)
<1>1. N \in Nat /\ N >= 2
  <2>1. n \div BLOCK_SIZE \in Nat
    BY Division
  <2>. QED BY <2>1
<1>2. PICK g : Loads(f, off, n, N, g)
  BY <1>1, LoadsExists
<1>3. g = Body(g)
  BY <1>2 DEF Loads, FirstLoad, NextLoad
<1>4. r = CHOOSE h : h = Body(h)
  BY DEF Reading
<1>. HIDE DEF Body, r
<1>5. r = Body(r)
  BY <1>3, <1>4, Zenon
<1>6. \A k \in 0 .. N : r[k] = IF k = 0 THEN FirstLoad(f, n) ELSE NextLoad(f, off, k, r[k - 1])
  BY <1>5 DEF Body, FirstLoad, NextLoad
<1>. HIDE DEF N
<1>7. r[0] = FirstLoad(f, n)
  BY <1>1, <1>6
<1>8. \A k \in 1 .. N : r[k] = NextLoad(f, off, k, r[k - 1])
  BY <1>1, <1>6
<1>. QED BY <1>1, <1>7, <1>8 DEF N, r

\* After k blocks the buffer has the bytes from off on, up to the end of a block if
\* there are more to come; all of them after two blocks, if they are in two.
LoadedTo(f, off, n, k, r) ==
  /\ r.left \in Int /\ r.buf \in Seq(Bytes)
  /\ Len(r.buf) \in 0 .. n
  /\ \A i \in 1 .. Len(r.buf) : r.buf[i] = Byte(f, off + i - 1)
  /\ r.left <= n - Len(r.buf)
  /\ k = 0 => Len(r.buf) = 0 /\ r.left = n
  /\ k = 1 => \/ r.left = 0 /\ Len(r.buf) = n
              \/ r.left = n - Len(r.buf)
  /\ k # 0 => r.left <= 0 \/ off + Len(r.buf) = (off \div BLOCK_SIZE + k) * BLOCK_SIZE
  /\ EndBlockIdx(off, n) - off \div BLOCK_SIZE <= 1 /\ k >= 2 => r.left <= 0 /\ Len(r.buf) = n

\* What a block has of the file.
LEMMA BlockHas ==
  ASSUME FileInv, FitsPointers, NEW f \in Files, Kept(f), NEW j \in Nat, NEW r \in 0 .. (BLOCK_SIZE - 1), NEW p \in Nat,
         p = j * BLOCK_SIZE + r, p < disk.inode[f].size
  PROVE  disk.data[disk.inode[f].word[j]][r] = Byte(f, p) /\ Byte(f, p) \in Bytes
<1>1. p \div BLOCK_SIZE = j /\ p % BLOCK_SIZE = r
  <2>1. \A k \in Nat, e \in 0 .. (BLOCK_SIZE - 1) :
          p = k * BLOCK_SIZE + e => p \div BLOCK_SIZE = k /\ p % BLOCK_SIZE = e
    BY Division
  <2>. QED BY <2>1
<1>2. p \in 0 .. (disk.inode[f].size - 1)
  BY InodeAt DEF FileInv
<1>. QED BY <1>1, <1>2 DEF FileInv, DataInv, Byte, Bytes

\* A block is read: old has what came before.
LEMMA LoadStep ==
  ASSUME FileInv, FitsPointers, NEW f \in Files, Kept(f), NEW off \in Nat, NEW n \in Nat \ {0},
         off + n <= disk.inode[f].size,
         NEW k \in Nat \ {0}, NEW old, LoadedTo(f, off, n, k - 1, old), old.left > 0
  PROVE  LoadedTo(f, off, n, k, NextLoad(f, off, k, old))
<1>q. PICK q \in Nat : q = off \div BLOCK_SIZE
  BY Division
<1>j. PICK j \in Nat : j = q + k - 1
  OBVIOUS
<1>o. PICK o \in 0 .. (BLOCK_SIZE - 1) : o = IF k = 1 THEN off % BLOCK_SIZE ELSE 0
  <2>1. off % BLOCK_SIZE \in 0 .. (BLOCK_SIZE - 1)
    BY Division
  <2>2. 0 \in 0 .. (BLOCK_SIZE - 1)
    OBVIOUS
  <2>. QED BY <2>1, <2>2
<1>s. PICK start \in Nat : start = j * BLOCK_SIZE
  BY Division
<1>n. PICK next \in Nat : next = (q + k) * BLOCK_SIZE
  <2>1. q + k \in Nat
    OBVIOUS
  <2>. QED BY <2>1, Division
<1>e. PICK end \in Nat : end = EndBlockIdx(off, n) /\ (\A x \in Nat : end < x => off + n - 1 < x * BLOCK_SIZE)
  <2>1. off + n - 1 \in Nat
    OBVIOUS
  <2>. QED BY <2>1, Division DEF EndBlockIdx
<1>l. PICK l \in Nat : l = Len(old.buf)
  BY LenProperties DEF LoadedTo
<1>m. PICK m \in Int : m = old.left
  BY DEF LoadedTo
<1>t. PICK take \in Int : take = IF m <= BLOCK_SIZE - o THEN m ELSE BLOCK_SIZE - o
  <2>1. BLOCK_SIZE - o \in Int
    OBVIOUS
  <2>. QED BY <2>1
<1>p. PICK piece : piece = [i \in 1 .. take |-> disk.data[disk.inode[f].word[j]][o + i - 1]]
  OBVIOUS
<1>b. PICK buf : buf = old.buf \o piece
  OBVIOUS
<1>h. PICK left : left = IF m <= BLOCK_SIZE - o THEN 0 ELSE m - Len(buf)
  OBVIOUS
<1>1. next = start + BLOCK_SIZE
  <2>1. q + k = j + 1
    BY <1>j
  <2>2. (j + 1) * BLOCK_SIZE = j * BLOCK_SIZE + BLOCK_SIZE
    BY SMTT(30)
  <2>. QED BY <1>s, <1>n, <2>1, <2>2
<1>k. k - 1 \in Nat /\ (k = 1 <=> k - 1 = 0) /\ (k = 2 <=> k - 1 = 1) /\ (k >= 3 <=> k - 1 >= 2)
  OBVIOUS
<1>2. /\ m > 0 /\ old.buf \in Seq(Bytes) /\ l <= n
      /\ \A i \in 1 .. l : old.buf[i] = Byte(f, off + i - 1)
      /\ m <= n - l
      /\ k = 1 => l = 0 /\ m = n
      /\ k = 2 => m = n - l
      /\ k # 1 => off + l = start
      /\ end - q <= 1 => k <= 2
  <2>1. old.left \in Int /\ old.buf \in Seq(Bytes) /\ Len(old.buf) \in 0 .. n /\ old.left <= n - Len(old.buf)
        /\ \A i \in 1 .. Len(old.buf) : old.buf[i] = Byte(f, off + i - 1)
    BY DEF LoadedTo
  <2>2. k - 1 = 0 => Len(old.buf) = 0 /\ old.left = n
    BY DEF LoadedTo
  <2>3. k - 1 = 1 => \/ old.left = 0 /\ Len(old.buf) = n
                     \/ old.left = n - Len(old.buf)
    BY DEF LoadedTo
  <2>4. k - 1 # 0 => old.left <= 0 \/ off + Len(old.buf) = (off \div BLOCK_SIZE + (k - 1)) * BLOCK_SIZE
    BY DEF LoadedTo
  <2>5. EndBlockIdx(off, n) - off \div BLOCK_SIZE <= 1 /\ k - 1 >= 2 => old.left <= 0
    BY DEF LoadedTo
  <2>6. k # 1 => off + l = start
    <3>1. q + (k - 1) = j
      BY <1>j
    <3>2. k - 1 # 0 => m <= 0 \/ off + l = start
      BY <1>q, <1>s, <1>l, <1>m, <2>4, <3>1
    <3>. QED BY <1>m, <1>k, <3>2
  <2>7. end - q <= 1 /\ k >= 3 => m <= 0
    BY <1>q, <1>e, <1>m, <1>k, <2>5
  <2>8. l <= n /\ m <= n - l /\ m > 0 /\ (k = 1 => l = 0 /\ m = n) /\ (k = 2 => m = n - l)
    BY <1>l, <1>m, <1>k, <2>1, <2>2, <2>3
  <2>9. end - q <= 1 => k <= 2
    BY <2>7, <2>8
  <2>. QED BY <1>l, <2>1, <2>6, <2>8, <2>9
<1>3. off + l = start + o
  <2>1. CASE k = 1
    <3>1. off = (off \div BLOCK_SIZE) * BLOCK_SIZE + (off % BLOCK_SIZE)
      BY Division
    <3>2. j = q /\ o = off % BLOCK_SIZE /\ l = 0
      BY <1>j, <1>o, <1>2, <2>1
    <3>. QED BY <1>q, <1>s, <3>1, <3>2
  <2>2. CASE k # 1
    BY <1>o, <1>2, <2>2
  <2>. QED BY <2>1, <2>2
<1>4. NextLoad(f, off, k, old) = [left |-> left, buf |-> buf]
  <2>1. off \div BLOCK_SIZE + k - 1 = j
    BY <1>q, <1>j
  <2>2. NextLoad(f, off, k, old) = ReadBlock(disk.inode[f].word[j], o, old)
    BY <1>o, <2>1 DEF NextLoad
  <2>3. ~ (m <= 0)
    BY <1>2
  <2>. QED BY <1>m, <1>t, <1>p, <1>b, <1>h, <2>2, <2>3 DEF ReadBlock
<1>5. take \in Nat \ {0} /\ take <= m /\ o + take <= BLOCK_SIZE /\ l + take <= n
  BY <1>t, <1>o, <1>2
<1>6. ASSUME NEW i \in 1 .. take
      PROVE  /\ disk.data[disk.inode[f].word[j]][o + i - 1] = Byte(f, off + l + i - 1)
             /\ Byte(f, off + l + i - 1) \in Bytes
  <2>1. o + i - 1 \in 0 .. (BLOCK_SIZE - 1)
    BY <1>5
  <2>2. off + l + i - 1 \in Nat /\ off + l + i - 1 = start + (o + i - 1)
    BY <1>3
  <2>3. off + l + i - 1 < disk.inode[f].size
    <3>1. disk.inode[f].size \in Nat
      BY InodeAt DEF FileInv
    <3>2. off + l + i - 1 < off + n
      BY <1>5
    <3>. QED BY <2>2, <3>1, <3>2
  <2>. QED BY <1>s, <2>1, <2>2, <2>3, BlockHas
<1>7. piece \in Seq(Bytes) /\ Len(piece) = take /\ \A i \in 1 .. take : piece[i] = Byte(f, off + l + i - 1)
  <2>1. piece \in [1 .. take -> Bytes]
    BY <1>p, <1>6
  <2>2. piece \in Seq(Bytes)
    BY <1>5, <2>1
  <2>3. Len(piece) = take
    BY <1>5, <1>p
  <2>4. \A i \in 1 .. take : piece[i] = Byte(f, off + l + i - 1)
    BY <1>6, <1>p
  <2>. QED BY <2>2, <2>3, <2>4
<1>8. /\ buf \in Seq(Bytes) /\ Len(buf) = l + take
      /\ \A i \in 1 .. (l + take) : buf[i] = IF i <= l THEN old.buf[i] ELSE piece[i - l]
  <2>1. old.buf \in Seq(Bytes) /\ piece \in Seq(Bytes)
    BY <1>2, <1>7
  <2>2. /\ old.buf \o piece \in Seq(Bytes)
        /\ Len(old.buf \o piece) = Len(old.buf) + Len(piece)
        /\ \A i \in 1 .. Len(old.buf) + Len(piece) : (old.buf \o piece)[i] =
              IF i <= Len(old.buf) THEN old.buf[i] ELSE piece[i - Len(old.buf)]
    BY <2>1, ConcatProperties
  <2>3. Len(old.buf) = l /\ Len(piece) = take /\ buf = old.buf \o piece
    BY <1>7, <1>l, <1>b
  <2>. QED BY <2>2, <2>3
<1>9. ASSUME NEW i \in 1 .. (l + take) PROVE buf[i] = Byte(f, off + i - 1)
  <2>1. CASE i <= l
    <3>1. i \in 1 .. l
      BY <2>1
    <3>. QED BY <1>2, <1>8, <2>1, <3>1
  <2>2. CASE ~ (i <= l)
    <3>1. i - l \in 1 .. take /\ off + l + (i - l) - 1 = off + i - 1
      BY <2>2
    <3>2. piece[i - l] = Byte(f, off + l + (i - l) - 1)
      BY <1>7, <3>1
    <3>. QED BY <1>8, <2>2, <3>1, <3>2
  <2>. QED BY <2>1, <2>2
<1>10. end - q <= 1 /\ k = 2 => m <= BLOCK_SIZE - o
  <2>. SUFFICES ASSUME end - q <= 1, k = 2 PROVE m <= BLOCK_SIZE - o
    OBVIOUS
  <2>1. off + n - 1 < next
    <3>1. q + k \in Nat /\ end < q + k
      OBVIOUS
    <3>. QED BY <1>e, <1>n, <3>1
  <2>2. off + n <= start + BLOCK_SIZE
    BY <1>1, <2>1
  <2>3. o = 0
    BY <1>o
  <2>. QED BY <1>2, <1>3, <2>2, <2>3
<1>11. /\ left \in Int /\ left <= n - (l + take)
       /\ k = 1 => (left = 0 /\ l + take = n) \/ left = n - (l + take)
       /\ left <= 0 \/ off + (l + take) = next
  <2>1. CASE m <= BLOCK_SIZE - o
    <3>1. take = m /\ left = 0
      BY <1>t, <1>h, <2>1
    <3>. QED BY <1>2, <1>5, <3>1
  <2>2. CASE ~ (m <= BLOCK_SIZE - o)
    <3>1. take = BLOCK_SIZE - o /\ left = m - (l + take)
      BY <1>t, <1>h, <1>8, <2>2
    <3>2. left \in Int /\ left <= n - (l + take)
      BY <1>2, <1>5, <3>1
    <3>3. off + (l + take) = next
      BY <1>1, <1>3, <3>1
    <3>. QED BY <1>2, <3>1, <3>2, <3>3
  <2>. QED BY <2>1, <2>2
<1>12. end - q <= 1 /\ k >= 2 => left <= 0 /\ l + take = n
  <2>. SUFFICES ASSUME end - q <= 1, k >= 2 PROVE left <= 0 /\ l + take = n
    OBVIOUS
  <2>1. k = 2 /\ m <= BLOCK_SIZE - o
    BY <1>2, <1>10
  <2>2. take = m /\ left = 0
    BY <2>1, <1>t, <1>h
  <2>. QED BY <1>2, <2>1, <2>2
<1>13. PICK new : new = [left |-> left, buf |-> buf]
  OBVIOUS
<1>14. new.left = left /\ new.buf = buf /\ Len(new.buf) = l + take /\ l + take \in 0 .. n
  BY <1>5, <1>8, <1>13
<1>15. LoadedTo(f, off, n, k, new)
  <2>1. left <= 0 \/ off + Len(new.buf) = (off \div BLOCK_SIZE + k) * BLOCK_SIZE
    BY <1>n, <1>q, <1>11, <1>14
  <2>2. EndBlockIdx(off, n) - off \div BLOCK_SIZE <= 1 /\ k >= 2 => left <= 0 /\ Len(new.buf) = n
    BY <1>e, <1>q, <1>12, <1>14
  <2>3. \A i \in 1 .. Len(new.buf) : new.buf[i] = Byte(f, off + i - 1)
    BY <1>9, <1>14
  <2>. QED BY <1>8, <1>11, <1>14, <2>1, <2>2, <2>3 DEF LoadedTo
<1>. QED BY <1>4, <1>13, <1>15

\* Every record of Reading is such a one.
LEMMA ReadingIsLoaded ==
  ASSUME FileInv, FitsPointers, NEW f \in Files, Kept(f), NEW off \in Nat, NEW n \in Nat \ {0},
         off + n <= disk.inode[f].size
  PROVE  LoadedTo(f, off, n, n \div BLOCK_SIZE + 2, Reading(f, off, n)[n \div BLOCK_SIZE + 2])
<1>. DEFINE N == n \div BLOCK_SIZE + 2
            r == Reading(f, off, n)
<1>1. /\ N \in Nat /\ N >= 2 /\ r[0] = FirstLoad(f, n)
      /\ \A k \in 1 .. N : r[k] = NextLoad(f, off, k, r[k - 1])
  BY ReadingLoads
<1>. HIDE DEF N, r
<1>2. LoadedTo(f, off, n, 0, r[0])
  <2>1. disk.inode[f].size \in Nat
    BY InodeAt DEF FileInv
  <2>2. r[0] = [left |-> n, buf |-> <<>>]
    BY <1>1, <2>1 DEF FirstLoad
  <2>3. r[0].left = n /\ r[0].buf = <<>> /\ <<>> \in Seq(Bytes) /\ Len(<<>>) = 0
    BY <2>2, EmptySeq
  <2>. HIDE DEF r
  <2>. QED BY <2>3 DEF LoadedTo
<1>3. ASSUME NEW k \in 1 .. N, LoadedTo(f, off, n, k - 1, r[k - 1]) PROVE LoadedTo(f, off, n, k, r[k])
  <2>. DEFINE old == r[k - 1]
  <2>0. k \in Nat \ {0} /\ r[k] = NextLoad(f, off, k, old) /\ LoadedTo(f, off, n, k - 1, old)
    BY <1>1, <1>3
  <2>. HIDE DEF old
  <2>1. CASE old.left > 0
    BY <2>0, <2>1, LoadStep
  <2>2. CASE ~ (old.left > 0)
    <3>1. r[k] = old
      <4>1. old.left \in Int
        BY <2>0 DEF LoadedTo
      <4>2. old.left <= 0
        BY <2>2, <4>1
      <4>. QED BY <2>0, <4>2 DEF NextLoad, ReadBlock
    <3>2. k # 1
      BY <2>0, <2>2 DEF LoadedTo
    <3>3. k >= 2 /\ k # 0 /\ k # 1 /\ k - 1 \in Nat /\ k - 1 # 0 /\ (k - 1 = 1 \/ k - 1 >= 2)
      BY <2>0, <3>2
    <3>4. old.left \in Int /\ old.left <= 0
      BY <2>0, <2>2 DEF LoadedTo
    <3>5. /\ old.buf \in Seq(Bytes) /\ Len(old.buf) \in 0 .. n
          /\ \A i \in 1 .. Len(old.buf) : old.buf[i] = Byte(f, off + i - 1)
          /\ old.left <= n - Len(old.buf)
      BY <2>0 DEF LoadedTo
    <3>6. k - 1 = 1 => Len(old.buf) = n
      BY <2>0, <3>4, <3>5 DEF LoadedTo
    <3>7. EndBlockIdx(off, n) - off \div BLOCK_SIZE <= 1 => Len(old.buf) = n
      BY <2>0, <3>3, <3>6 DEF LoadedTo
    <3>. QED BY <3>1, <3>3, <3>4, <3>5, <3>7 DEF LoadedTo
  <2>. QED BY <2>1, <2>2
<1>. DEFINE S == {k \in 0 .. N : ~ LoadedTo(f, off, n, k, r[k])}
<1>4. S = {}
  <2>. SUFFICES ASSUME S # {} PROVE FALSE
    OBVIOUS
  <2>1. S \in SUBSET Nat
    OBVIOUS
  <2>2. PICK k \in S : \A m \in S : k <= m
    BY <2>1, LeastNumber
  <2>3. k # 0 /\ k \in 1 .. N
    BY <1>1, <1>2, <2>2
  <2>4. k - 1 \in 0 .. N /\ k - 1 \notin S
    BY <1>1, <2>2, <2>3
  <2>. QED BY <1>3, <2>2, <2>3, <2>4
<1>. QED BY <1>1, <1>4 DEF N, r

\* What is read of such a file, if nothing was written astray into a block of it, is
\* what was written, from the first byte that was asked for, and all of it if it lies
\* in two blocks; a crash takes nothing of a file up to its size.
THEOREM ReadsAreRight ==
  ASSUME FitsPointers, FitsInode
  PROVE  Spec => []ReadsBack
<1>1. FileInv => ReadsBack
  <2>. SUFFICES ASSUME FileInv, NEW x \in Reads, Kept(x[1])
                PROVE  LET got == Read(x[1], x[2], x[3])
                       IN  /\ got = Whole(x[1], x[2], Len(got))
                           /\ EndBlockIdx(x[2], x[3]) - x[2] \div BLOCK_SIZE <= 1 => Len(got) = x[3]
    BY DEF ReadsBack
  <2>. DEFINE f == x[1]
              off == x[2]
              n == x[3]
              got == Read(f, off, n)
              N == n \div BLOCK_SIZE + 2
  <2>1. f \in Files /\ Kept(f) /\ off \in Nat /\ n \in Nat \ {0} /\ off + n <= disk.inode[f].size
    BY DEF Reads
  <2>2. LoadedTo(f, off, n, N, Reading(f, off, n)[N])
    BY <2>1, ReadingIsLoaded
  <2>3. got = Reading(f, off, n)[N].buf
    BY DEF Read
  <2>4. N \in Nat /\ N >= 2
    BY <2>1, ReadingLoads
  <2>. HIDE DEF f, off, n, got, N
  <2>5. /\ got \in Seq(Bytes) /\ Len(got) \in 0 .. n
        /\ \A i \in 1 .. Len(got) : got[i] = Byte(f, off + i - 1)
        /\ EndBlockIdx(off, n) - off \div BLOCK_SIZE <= 1 => Len(got) = n
    BY <2>2, <2>3, <2>4 DEF LoadedTo
  <2>6. got = Whole(f, off, Len(got))
    <3>1. got = [i \in 1 .. Len(got) |-> got[i]]
      BY <2>5, LenProperties
    <3>. QED BY <2>5, <3>1 DEF Whole
  <2>. QED BY <2>5, <2>6 DEF f, off, n, got
<1>. QED BY <1>1, FileInvHolds, PTL
=============================================================================

------------------------------- MODULE FileData -------------------------------
(***************************************************************************)
(* The contents of files in filesystemFUSE/submission: sfs_write and       *)
(* sfs_read of sfs.c, updateInode of inode.c and the blocks they are made  *)
(* of.  Files exist already, as sfs_create leaves them (FileSystem).       *)
(*                                                                         *)
(* As in FileSystem everything durable is on the disk, each write of a     *)
(* block is a step and the process may die between two of them.  One       *)
(* request at a time: what two do to one bitmap is in FileSystem.          *)
(*                                                                         *)
(* The pointers of an inode are an array of words in a struct, and the     *)
(* code indexes them past their end: word[i] is directBlockPtr[i], the     *)
(* words after the direct pointers are indirectBlockPtr, bitPos, numBlocks *)
(* and the padding.                                                        *)
(*                                                                         *)
(* Two parts of the state are history, which no step looks at: found, in   *)
(* an inode, tells for which of its words a block was found; astray tells  *)
(* which file wrote to which block through a pointer that none was found   *)
(* for, or elsewhere than at its end.  Both do happen (sfs_write counts    *)
(* blocks wrongly, and adds what overwrites to the size), and the          *)
(* properties are about the files that they did not happen to.             *)
(***************************************************************************)
EXTENDS Integers, Sequences, FiniteSets

CONSTANTS
  Files,          \* inode numbers of the files, in the order of their creation
  BLOCK_SIZE,
  NDBLOCK_PTRS,   \* direct pointers in an inode
  PADDING,        \* words of padding behind numBlocks
  WORD,           \* bits of the bitmap that are looked at
  Sizes,          \* bytes in a request to write
  AnyWrite,       \* whether requests may write elsewhere than at the end
  Leftovers,      \* what a word of an inode may hold that nobody has set
  MaxBlocks,      \* bound: blocks of a file
  MaxCrashes      \* bound: crashes

Blocks == 0 .. (WORD - 1)
Words  == 0 .. (NDBLOCK_PTRS + 2 + PADDING)
bitPos    == NDBLOCK_PTRS + 1
numBlocks == NDBLOCK_PTRS + 2

ASSUME SizesAssumption ==
  /\ BLOCK_SIZE \in Nat \ {0} /\ NDBLOCK_PTRS \in Nat \ {0}
  /\ PADDING \in Nat /\ WORD \in Nat
  /\ Sizes \subseteq Nat \ {0} /\ MaxBlocks \in Nat /\ MaxCrashes \in Nat
ASSUME FilesAssumption ==
  /\ IsFiniteSet(Files) /\ Files = 1 .. Cardinality(Files)
  /\ Cardinality(Files) + 2 < WORD
ASSUME AnyWriteAssumption == AnyWrite \in BOOLEAN
ASSUME LeftoversAssumption == Leftovers \subseteq Blocks

VARIABLES
  disk,    \* the bitmap, the inodes and the data blocks
  pc,      \* what sfs_write does next, "idle" between requests
  loc,     \* its parameters and locals
  crashes, \* crashes so far
  astray   \* history: who wrote which block that was not to be his

vars == <<disk, pc, loc, crashes, astray>>

\* The words up to indirectBlockPtr are used as pointers to blocks.
Pointers == 0 .. NDBLOCK_PTRS

\* The byte of file f at position p, whoever writes it; a block of zeroes.
Byte(f, p) == <<f, p>>
ZeroBlock  == [o \in 0 .. (BLOCK_SIZE - 1) |-> <<>>]

NoRequest == [file |-> 0, left |-> 0, at |-> 0, wanted |-> <<>>,
              ino |-> [size |-> 0, word |-> [i \in Words |-> 0], found |-> {}]]

\* Block 1 is the root directory's, block n + 1 that of the n-th file.  createInode
\* sets the first pointer, bitPos and numBlocks; the other pointers are what the
\* memory held that sfs_init wrote as the inode table (0 if the inode was in use
\* before).  Nobody reads the padding.
Init ==
  /\ \E left \in [Files -> [Pointers \ {0} -> Leftovers]] :
       disk = [bitmap |-> 1 .. (Cardinality(Files) + 1),
               inode  |-> [f \in Files |->
                             [size  |-> 0,
                              word  |-> [i \in Words |-> CASE i = 0 -> f + 1
                                                           [] i = bitPos -> f % 2
                                                           [] i = numBlocks -> 1
                                                           [] i \in Pointers \ {0} -> left[f][i]
                                                           [] OTHER -> 0],
                              found |-> {0}]],
               data   |-> [b \in Blocks |-> ZeroBlock]]
  /\ pc = "idle"
  /\ loc = NoRequest
  /\ crashes = 0
  /\ astray = {}

FreeBlocks == (1 .. (WORD - 1)) \ disk.bitmap

\* findFreeBlock(), of the first bitmap.
FindFreeBlock == CHOOSE b \in FreeBlocks : \A c \in FreeBlocks : b <= c

-----------------------------------------------------------------------------
(***************************************************************************)
(* sfs_write                                                               *)
(***************************************************************************)

\* The block the request ends in.
EndBlockIdx(off, n) == (off + n - 1) \div BLOCK_SIZE

TooBig(off, n) == EndBlockIdx(off, n) > NDBLOCK_PTRS /\ (off + n) % BLOCK_SIZE # 0

\* Mutant: the blocks that are needed are counted from the one the file ends in.
Wanted_again(ino, off, n) ==
  LET end  == EndBlockIdx(off, n)
      curr == ino.size \div BLOCK_SIZE
  IN  (IF ino.word[curr] = 0 THEN <<curr>> ELSE <<>>)
        \o [x \in 1 .. (end - ino.word[numBlocks]) |-> curr + x - 1]

\* The pointers a block is found for: the one the file ends at, if it has none,
\* and as many after it as the last block is ahead of the count of blocks.
Wanted(ino, off, n) ==
  LET end  == EndBlockIdx(off, n)
      curr == ino.size \div BLOCK_SIZE
  IN  (IF ino.word[curr] = 0 THEN <<curr>> ELSE <<>>)
        \o [x \in 1 .. (end - ino.word[numBlocks]) |-> curr + x]

\* A request of any size, at the end of the file or (AnyWrite) anywhere.  One that
\* is too big is refused and changes nothing.  Bounds: the size of a file, and
\* requests that the blocks left suffice for (FileSystem goes to the last block).
Write(f, off, n) ==
  LET ino  == disk.inode[f]
      grow == EndBlockIdx(off, n) >= ino.word[numBlocks]
      want == IF grow THEN Wanted(ino, off, n) ELSE <<>>
  IN  /\ pc = "idle"
      /\ off = ino.size \/ AnyWrite
      /\ ~TooBig(off, n)
      /\ off + n <= MaxBlocks * BLOCK_SIZE /\ ino.size + n <= MaxBlocks * BLOCK_SIZE
      /\ Len(want) <= Cardinality(FreeBlocks)
      /\ pc' = IF grow THEN "allocate" ELSE "write block"
      /\ loc' = [file |-> f, left |-> n, at |-> off, wanted |-> want, ino |-> ino]
      /\ UNCHANGED <<disk, crashes, astray>>

\* Mutant: the bitmap is not written back.
Allocate_unmarked ==
  /\ pc = "allocate"
  /\ loc.wanted # <<>>
  /\ loc' = [loc EXCEPT !.wanted = Tail(@), !.ino.word[Head(loc.wanted)] = FindFreeBlock,
                        !.ino.found = @ \cup {Head(loc.wanted)}]
  /\ UNCHANGED <<disk, pc, crashes, astray>>

\* A block found is marked in the bitmap, and its number kept in the copy of the
\* inode.
Allocate ==
  /\ pc = "allocate"
  /\ loc.wanted # <<>>
  /\ disk' = [disk EXCEPT !.bitmap = @ \cup {FindFreeBlock}]
  /\ loc' = [loc EXCEPT !.wanted = Tail(@), !.ino.word[Head(loc.wanted)] = FindFreeBlock,
                        !.ino.found = @ \cup {Head(loc.wanted)}]
  /\ UNCHANGED <<pc, crashes, astray>>

UpdateInode(ino) == disk' = [disk EXCEPT !.inode[loc.file] = ino]

Allocated ==
  /\ pc = "allocate"
  /\ loc.wanted = <<>>
  /\ UpdateInode(loc.ino)
  /\ pc' = "write block"
  /\ UNCHANGED <<loc, crashes, astray>>

\* What of the request goes into the block it is at.
Piece ==
  LET room == BLOCK_SIZE - (loc.at % BLOCK_SIZE)
  IN  IF loc.left <= room THEN loc.left ELSE room

\* History: the piece does not go to the end of the file, or goes to a block that
\* was not found for it.
Strays == loc.at # loc.ino.size \/ loc.at \div BLOCK_SIZE \notin loc.ino.found

WriteBlock ==
  LET b == loc.ino.word[loc.at \div BLOCK_SIZE]
      o == loc.at % BLOCK_SIZE
  IN  /\ pc = "write block"
      /\ disk' = [disk EXCEPT !.data[b] = [i \in DOMAIN @ |->
                    IF i \in o .. (o + Piece - 1) THEN Byte(loc.file, loc.at + i - o) ELSE disk.data[b][i]]]
      /\ astray' = IF Strays THEN astray \cup {<<loc.file, b>>} ELSE astray
      /\ pc' = "update inode"
      /\ UNCHANGED <<loc, crashes>>

\* Mutant: the size grows by what is left to write.
Advance_left ==
  LET more == loc.left > Piece
      ino  == [loc.ino EXCEPT !.size = @ + loc.left,
                              !.word[numBlocks] = @ + (IF more THEN 1 ELSE 0)]
  IN  /\ pc = "update inode"
      /\ UpdateInode(ino)
      /\ pc' = IF more THEN "write block" ELSE "idle"
      /\ loc' = IF more THEN [loc EXCEPT !.ino = ino, !.at = @ + Piece, !.left = @ - Piece]
                         ELSE NoRequest
      /\ UNCHANGED <<crashes, astray>>

\* The size grows by what was written, wherever it was; the count of blocks by
\* one if the request goes on in the next.
Advance ==
  LET more == loc.left > Piece
      ino  == [loc.ino EXCEPT !.size = @ + Piece,
                              !.word[numBlocks] = @ + (IF more THEN 1 ELSE 0)]
  IN  /\ pc = "update inode"
      /\ UpdateInode(ino)
      /\ pc' = IF more THEN "write block" ELSE "idle"
      /\ loc' = IF more THEN [loc EXCEPT !.ino = ino, !.at = @ + Piece, !.left = @ - Piece]
                         ELSE NoRequest
      /\ UNCHANGED <<crashes, astray>>

\* The process dies and is started again.
Crash ==
  /\ crashes < MaxCrashes
  /\ pc # "idle"
  /\ pc' = "idle"
  /\ loc' = NoRequest
  /\ crashes' = crashes + 1
  /\ UNCHANGED <<disk, astray>>

Next ==
  \/ \E f \in Files, off \in 0 .. (MaxBlocks * BLOCK_SIZE), n \in Sizes : Write(f, off, n)
  \/ Allocate \/ Allocated \/ WriteBlock \/ Advance
  \/ Crash

Spec == Init /\ [][Next]_vars

-----------------------------------------------------------------------------
(***************************************************************************)
(* sfs_read: what is in the buffer after k blocks, and the bytes it takes  *)
(* to be left, from which it subtracts all that were read so far.          *)
(***************************************************************************)
ReadBlock(b, o, old) ==
  LET last == old.left <= BLOCK_SIZE - o
      take == IF last THEN old.left ELSE BLOCK_SIZE - o
      buf  == old.buf \o [i \in 1 .. take |-> disk.data[b][o + i - 1]]
  IN  IF old.left <= 0 THEN old
      ELSE [left |-> IF last THEN 0 ELSE old.left - Len(buf), buf |-> buf]

Reading(f, off, n) ==
  LET ino == disk.inode[f]
      reading[k \in 0 .. (n \div BLOCK_SIZE + 2)] ==
        IF k = 0 THEN [left |-> IF ino.size < n THEN ino.size ELSE n, buf |-> <<>>]
        ELSE ReadBlock(ino.word[off \div BLOCK_SIZE + k - 1],
                       IF k = 1 THEN off % BLOCK_SIZE ELSE 0, reading[k - 1])
  IN  reading

Read(f, off, n) == Reading(f, off, n)[n \div BLOCK_SIZE + 2].buf

-----------------------------------------------------------------------------
Inode == {ino \in [size : 0 .. (MaxBlocks * BLOCK_SIZE), word : [Words -> Nat], found : SUBSET Words] :
            \A i \in Pointers : ino.word[i] \in Blocks}

\* What the bytes of a block can be.
Bytes == {<<>>} \cup (Files \X Nat)

\* Pointers are numbers of blocks and requests are within their bounds.
TypeOK ==
  /\ disk \in [bitmap : SUBSET Blocks,
               inode  : [Files -> Inode],
               data   : [Blocks -> [0 .. (BLOCK_SIZE - 1) -> Bytes]]]
  /\ pc \in {"idle", "allocate", "write block", "update inode"}
  /\ loc \in [file : Files \cup {0}, left : Nat, at : Nat, wanted : Seq(Words), ino : Inode]
  /\ crashes \in 0 .. MaxCrashes
  /\ astray \subseteq Files \X Blocks

\* The blocks in which a file has bytes.
Held(f) == {i \in Words : i * BLOCK_SIZE < disk.inode[f].size}

\* The file was only appended to, and only into blocks that were found for it.
Straight(f) == \A s \in astray : s[1] # f

\* And no other file has written astray into a block of it.
Kept(f) == Straight(f) /\ \A s \in astray : \A i \in Held(f) : disk.inode[f].word[i] # s[2]

\* Every block in which the file has bytes was allocated, after the root's, and for
\* no other place in this or in another file.
OwnsBlocks(f) ==
  \A i \in Held(f) :
    LET b == disk.inode[f].word[i]
    IN  /\ b \in disk.bitmap \ {1}
        /\ \A g \in Files : \A j \in Pointers \cap disk.inode[g].found :
             disk.inode[g].word[j] = b => <<f, i>> = <<g, j>>

\* A file whose writes found the blocks they needed owns its blocks, whatever other
\* files do and whenever the process dies between the writes of the bitmap, of the
\* inode and of the data (sfs_write, sfs.c:482-625).
BlocksOwned == \A f \in Files : Straight(f) => OwnsBlocks(f)

\* The requests to read bytes a file has.
Reads == {r \in Files \X (0 .. (MaxBlocks * BLOCK_SIZE)) \X (1 .. (MaxBlocks * BLOCK_SIZE)) :
            r[2] + r[3] <= disk.inode[r[1]].size}

Whole(f, off, n) == [i \in 1 .. n |-> Byte(f, off + i - 1)]

\* A read of a file that was written so, and that nobody else wrote astray into,
\* returns the bytes that were written, from the first that was asked for, and all
\* of them if they lie in two blocks; so does one after a crash, up to the size that
\* was on the disk (sfs_read, sfs.c:364-448).
ReadsBack ==
  \A r \in Reads :
    LET f == r[1]  off == r[2]  n == r[3]
        got == Read(f, off, n)
    IN  Kept(f) => /\ got = Whole(f, off, Len(got))
                   /\ EndBlockIdx(off, n) - off \div BLOCK_SIZE <= 1 => Len(got) = n

=============================================================================

------------------------------ MODULE Allocator ------------------------------
(***************************************************************************)
(* myallocate() and mydeallocate() of                                      *)
(* scheduler+virtualMemoryManager/submission/myallocate.c over the pager,  *)
(* called by threads that a scheduler switches.  A thread's chain of Meta  *)
(* headers is a sequence of records in the order of the next pointers;     *)
(* addresses count units of which a header takes META, from the thread's   *)
(* page 0, and no header lies across two pages.                            *)
(***************************************************************************)
EXTENDS Paging, Sequences, SequencesExt

CONSTANTS
  Library,       \* the owner of the OS region, for req = LIBRARYREQ
  NULL,
  Unset,         \* a prev pointer read from bytes a client may have written
  PAGE_SIZE, META, OS_SIZE,
  Sizes,         \* the sizes clients ask for
  Interruptible, \* may a thread be switched out between two steps of myallocate()
  MaxBlocks      \* bound: headers in one chain

ASSUME SizesAssumption ==
  /\ META \in Nat \ {0}
  /\ PAGE_SIZE \in Nat /\ PAGE_SIZE > META
  /\ OS_SIZE \in Nat /\ OS_SIZE > META
  /\ Sizes \subseteq Nat \ {0}

ASSUME LibraryAssumption == Library \notin Threads
ASSUME NullAssumption == NULL \notin Nat
ASSUME InterruptibleAssumption == Interruptible \in BOOLEAN

Owners == Threads \cup {Library}

VARIABLES
  pt,           \* the page table and the counters of free pages
  fr,           \* what the pages hold, and which may be accessed
  current_tid,
  heap,         \* heap[o]: o's chain of headers, <<>> before the first request
  written,      \* written[o]: no client was handed an address of o at or above it
  pending       \* pending[t]: a myallocate() of t that is getting pages

vars == <<pt, fr, current_tid, heap, written, pending>>

\* curr: the block myallocate() stopped at; n: numPagesNeeded; page: freePage.
NoRequest == [size |-> 0, curr |-> 0, n |-> 0, page |-> NULL]

Meta(at, size, free, prev) == [at |-> at, size |-> size, is_free |-> free, prev |-> prev]

PageOf(at) == at \div PAGE_SIZE
After(b) == b.at + META + b.size
Free(b) == b.is_free = 1

\* initMem().  The OS region, OS_SIZE bytes from page 1 on, ends in the page that
\* is the first of the users' (page 1000); the regions are kept apart here, and
\* so the model says nothing of an OS region that is filled to that page.
InitMem(req, size) == <<Meta(0, size - META, 1, NULL)>>

Init ==
  /\ pt = InitTable
  /\ fr = InitFrames
  /\ current_tid \in Threads
  /\ heap = [o \in Owners |-> IF o = Library THEN InitMem(o, OS_SIZE) ELSE <<>>]
  /\ written = [o \in Owners |-> 0]
  /\ pending = [t \in Threads |-> NoRequest]

-----------------------------------------------------------------------------
(***************************************************************************)
(* The chain of headers.                                                   *)
(***************************************************************************)

\* Where the traversal of myallocate() stops.
Found(h, size) ==
  LET fits == {i \in 1 .. Len(h) : Free(h[i]) /\ h[i].size >= size}
  IN  First(fits \cup {Len(h)})

\* Mutant: the rest is as large as if it needed no header.
OrganizeMem_noHeader(h, i, size, w) ==
  LET at == h[i].at + META + size
      new == Meta(at, h[i].size - size, 1, IF at < w THEN Unset ELSE NULL)
  IN  InsertAt([h EXCEPT ![i].size = size, ![i].is_free = 0], i + 1, new)

\* organizeMem(): block i is cut to size and the rest gets a header, whose prev
\* is not set.
OrganizeMem(h, i, size, w) ==
  LET at == h[i].at + META + size
      new == Meta(at, h[i].size - META - size, 1, IF at < w THEN Unset ELSE NULL)
  IN  InsertAt([h EXCEPT ![i].size = size, ![i].is_free = 0], i + 1, new)

\* Mutant: the block is cut whatever its size.
Take_always(h, i, size, w) == OrganizeMem(h, i, size, w)

\* Block i is handed out, cut when the rest has room for more than a header.
Take(h, i, size, w) == IF h[i].size > size + META
                       THEN OrganizeMem(h, i, size, w)
                       ELSE [h EXCEPT ![i].is_free = 0]

\* Block b is not free, or not large enough, and the free pages of neither
\* region could help.
Insufficient(b, size) ==
  \/ /\ ~Free(b)
     /\ size + META > pt.numFreePagesMem * PAGE_SIZE
     /\ size + META > pt.numFreePagesSF * PAGE_SIZE
  \/ /\ b.size < size
     /\ size > b.size + pt.numFreePagesMem * PAGE_SIZE
     /\ size > b.size + pt.numFreePagesSF * PAGE_SIZE

\* The header of b lies in the last page in memory.
AtEndOfMemory(b) == b.at + PAGE_SIZE >= MEMORY_PAGES * PAGE_SIZE

\* Thread t accesses the pages ps, in this order.
AccessPages(p, s, t, ps) ==
  LET accessed[k \in 0 .. Len(ps)] ==
        IF k = 0 THEN s ELSE Access(p, accessed[k - 1], t, ps[k])
  IN  accessed[Len(ps)]

\* Thread t reads the headers is, in order, of its chain.
AccessHeaders(p, s, t, h, is) ==
  AccessPages(p, s, t, [k \in 1 .. Len(is) |-> PageOf(h[is[k]].at)])

Upto(i) == [k \in 1 .. i |-> k]

-----------------------------------------------------------------------------
(***************************************************************************)
(* getHead(THREADREQ, _), the same for MALLOC_FLAG and FREE_FLAG: neither  *)
(* is 0.  It leaves the page table, the pages and the chain; NoHead: it is *)
(* NULL.                                                                   *)
(***************************************************************************)
HasHead(t) == HeadFrames(pt, t) # {}

NoHead(t) == ~HasHead(t) /\ Unused(pt) = {}

HeadTable(t) == IF HasHead(t) THEN MoveHead(pt, First(HeadFrames(pt, t)))
                              ELSE NewHead(pt, t, First(Unused(pt)))

HeadBytes(t) ==
  IF HasHead(t) THEN MoveHeadBytes(HeadTable(t), fr, t, First(HeadFrames(pt, t)))
                ELSE SwapEmptyPage(fr, First(Unused(pt)), 0, <<t, 0>>)

HeadChain(t) == IF HasHead(t) THEN heap[t] ELSE InitMem(t, PAGE_SIZE)

Running(t) == /\ fr.status = "ok"
              /\ current_tid = t
              /\ pending[t] = NoRequest

Handed(o, b) == written' = [written EXCEPT ![o] = IF After(b) > @ THEN After(b) ELSE @]

\* The pages after block i of g has been taken in the chain h.
TakeBytes(p, s, t, h, g, i) ==
  IF Len(g) > Len(h) THEN Access(p, s, t, PageOf(g[i + 1].at)) ELSE s

\* myallocate(size, THREADREQ) up to the loop that gets pages.
Malloc(t, size) ==
  /\ Running(t)
  /\ Len(heap[t]) < MaxBlocks
  /\ ~NoHead(t)
  /\ pt' = HeadTable(t)
  /\ LET h == HeadChain(t)
         i == Found(h, size)
         s == AccessHeaders(HeadTable(t), HeadBytes(t), t, h, Upto(i))
         g == Take(h, i, size, written[t])
     IN  IF s.status = "ok" /\ Free(h[i]) /\ h[i].size >= size
         THEN /\ heap' = [heap EXCEPT ![t] = g]
              /\ fr' = TakeBytes(HeadTable(t), s, t, h, g, i)
              /\ Handed(t, g[i])
              /\ UNCHANGED pending
         ELSE /\ heap' = [heap EXCEPT ![t] = h]
              /\ fr' = s
              /\ pending' = IF s.status = "ok" /\ ~Insufficient(h[i], size) /\ ~AtEndOfMemory(h[i])
                            THEN [pending EXCEPT ![t] = [NoRequest EXCEPT !.size = size,
                                                                          !.curr = i]]
                            ELSE pending
              /\ UNCHANGED written
  /\ UNCHANGED current_tid

Getting(t) == /\ fr.status = "ok"
              /\ current_tid = t
              /\ pending[t] # NoRequest

\* An iteration of the loop gets a free page.
GetPage(t) ==
  /\ Getting(t)
  /\ pending[t].page = NULL
  /\ Unused(pt) # {}
  /\ LET f == First(Unused(pt))
     IN  /\ pt' = RequestPage(pt, t, f)
         /\ fr' = [fr EXCEPT !.open = @ \cup {f}]
         /\ pending' = [pending EXCEPT ![t].page = f, ![t].n = @ + 1]
  /\ UNCHANGED <<current_tid, heap, written>>

\* There is none: myallocate() returns NULL and keeps what it got.
NoPage(t) ==
  /\ Getting(t)
  /\ pending[t].page = NULL
  /\ Unused(pt) = {}
  /\ pending' = [pending EXCEPT ![t] = NoRequest]
  /\ UNCHANGED <<pt, fr, current_tid, heap, written>>

\* The chain after the n-th page beyond the page of block i has been got.
Extended(h, i, n) ==
  CASE Free(h[i])           -> [h EXCEPT ![i].size = @ + PAGE_SIZE]
    [] ~Free(h[i]) /\ n = 1 -> Append(h, Meta((PageOf(h[i].at) + 1) * PAGE_SIZE,
                                              PAGE_SIZE - META, 1, h[i].at))
    [] ~Free(h[i]) /\ n > 1 -> [h EXCEPT ![i + 1].size = @ + PAGE_SIZE]

\* Mutant: the next iteration uses the page that this one has used.
Again_samePage(r) == r

\* The next iteration asks for a page of its own.
Again(r) == [r EXCEPT !.page = NULL]

\* The rest of the iteration: the n-th page after the page that curr lies in
\* becomes t's and the last block grows; when it is large enough it is taken.
UsePage(t) ==
  /\ Getting(t)
  /\ pending[t].page # NULL
  /\ LET p == pending[t]
         h == Extended(heap[t], p.curr, p.n)
         j == IF Free(heap[t][p.curr]) THEN p.curr ELSE p.curr + 1
         next == PageOf(heap[t][p.curr].at) + p.n
         moved == SwapEmptyPage(fr, p.page, next, <<t, NextNumber(pt, next)>>)
         s == AccessHeaders(pt', moved, t, h, <<p.curr, j>>)
         g == Take(h, j, p.size, written[t])
     IN  /\ pt' = TakeNext(pt, t, p.page, next)
         /\ IF p.size > h[j].size
            THEN /\ heap' = [heap EXCEPT ![t] = h]
                 /\ fr' = s
                 /\ pending' = [pending EXCEPT ![t] = Again(pending[t])]
                 /\ UNCHANGED written
            ELSE /\ heap' = [heap EXCEPT ![t] = g]
                 /\ fr' = TakeBytes(pt', s, t, h, g, j)
                 /\ pending' = [pending EXCEPT ![t] = NoRequest]
                 /\ Handed(t, g[j])
  /\ UNCHANGED current_tid

-----------------------------------------------------------------------------
(***************************************************************************)
(* mydeallocate().                                                         *)
(***************************************************************************)

\* The pointer passes the bounds test, which adds PAGE_SIZE, or OS_SIZE, to a
\* pointer to Meta.
InBounds(b, limit) == b.at + META <= limit * META

\* Block i with the block after it.
MergeNext(h, i) ==
  LET g == RemoveAt([h EXCEPT ![i].size = @ + META + h[i + 1].size, ![i].is_free = 1], i + 1)
  IN  IF i < Len(g) THEN [g EXCEPT ![i + 1].prev = h[i].at] ELSE g

\* A block that a block in use follows is left as it is, not free.
Release(h, i) ==
  CASE i = Len(h)                    -> [h EXCEPT ![i].is_free = 1]
    [] i < Len(h) /\ Free(h[i + 1])  -> MergeNext(h, i)
    [] i < Len(h) /\ ~Free(h[i + 1]) -> h

\* prev points to a free block of the chain.
PrevIsFree(h, i) == \E j \in 1 .. Len(h) : h[j].at = h[i].prev /\ Free(h[j])

\* Block i with the block before it: toFree->next->prev is written, and the
\* program exits when there is no next block.
MergePrev(h, i) ==
  LET j == CHOOSE k \in 1 .. Len(h) : h[k].at = h[i].prev
  IN  RemoveAt([h EXCEPT ![j].size = @ + META + h[i].size, ![i + 1].prev = h[j].at], i)

\* Block i of owner o is freed, with the pager left as r.  A prev pointer that
\* was never set may lead anywhere.
FreeBlock(o, h, i, r) ==
  LET g == Release(h, i)
  IN  \/ /\ h[i].prev = Unset
         /\ heap' = [heap EXCEPT ![o] = g]
         /\ \E end \in {r.status, "wild"} : fr' = [r EXCEPT !.status = end]
      \/ /\ h[i].prev # Unset
         /\ heap' = [heap EXCEPT ![o] = IF PrevIsFree(g, i) /\ i < Len(g)
                                        THEN MergePrev(g, i) ELSE g]
         /\ fr' = [r EXCEPT !.status = IF PrevIsFree(g, i) /\ i = Len(g)
                                      THEN "exit" ELSE @]

\* The headers mydeallocate() reads and writes after it found block i.
Neighbours(h, i) ==
  CASE i = Len(h) -> <<>>
    [] i < Len(h) -> IF Free(h[i + 1]) /\ i + 1 < Len(h) THEN <<i + 1, i + 2>> ELSE <<i + 1>>

\* mydeallocate(p, THREADREQ), p the address of block i of the chain, or NULL
\* for i = 0.
Dealloc(t, i) ==
  /\ Running(t)
  /\ ~NoHead(t)
  /\ pt' = HeadTable(t)
  /\ LET h == HeadChain(t)
         valid == i \in 1 .. Len(h) /\ InBounds(h[i], PAGE_SIZE)
         s == IF valid THEN AccessHeaders(HeadTable(t), HeadBytes(t), t, h, Upto(i))
                       ELSE HeadBytes(t)
     IN  IF valid /\ s.status = "ok" /\ ~Free(h[i])
         THEN FreeBlock(t, h, i, AccessHeaders(HeadTable(t), s, t, h, Neighbours(h, i)))
         ELSE heap' = [heap EXCEPT ![t] = h] /\ fr' = s
  /\ UNCHANGED <<current_tid, written, pending>>

-----------------------------------------------------------------------------
(***************************************************************************)
(* The OS region: my_pthread_create() asks for the stacks, schedule()      *)
(* frees them.  Its pages are never protected nor moved.  A request it has *)
(* no room for takes pages of the users for pages of the OS region.        *)
(***************************************************************************)
LibraryMalloc(t, size) ==
  /\ Running(t)
  /\ Len(heap[Library]) < MaxBlocks
  /\ LET h == heap[Library]
         i == Found(h, size)
         g == Take(h, i, size, written[Library])
     IN  IF Free(h[i]) /\ h[i].size >= size
         THEN /\ heap' = [heap EXCEPT ![Library] = g]
              /\ Handed(Library, g[i])
              /\ UNCHANGED fr
         ELSE /\ fr' = [fr EXCEPT !.status = IF Insufficient(h[i], size) THEN "ok" ELSE "wild"]
              /\ UNCHANGED <<heap, written>>
  /\ UNCHANGED <<pt, current_tid, pending>>

LibraryFree(t, i) ==
  /\ Running(t)
  /\ i \in 1 .. Len(heap[Library])
  /\ ~Free(heap[Library][i])
  /\ FreeBlock(Library, heap[Library], i, fr)
  /\ UNCHANGED <<pt, current_tid, written, pending>>

-----------------------------------------------------------------------------
\* Thread t reads or writes the bytes of a block it was handed.
Touch(t, i) ==
  /\ Running(t)
  /\ i \in 1 .. Len(heap[t])
  /\ ~Free(heap[t][i])
  /\ LET b == heap[t][i]
         first == PageOf(b.at + META)
         last == PageOf(After(b) - 1)
     IN  fr' = AccessPages(pt, fr, t, [k \in 1 .. (last - first + 1) |-> first + k - 1])
  /\ UNCHANGED <<pt, current_tid, heap, written, pending>>

\* schedule() switches to thread u; it may be the thread that was running.
Switch(u) ==
  /\ fr.status = "ok"
  /\ Interruptible \/ pending[current_tid] = NoRequest
  /\ fr' = MprotectSetter(pt, fr, u, current_tid)
  /\ current_tid' = u
  /\ UNCHANGED <<pt, heap, written, pending>>

Next == \/ \E t \in Threads, size \in Sizes : Malloc(t, size)
        \/ \E t \in Threads : GetPage(t)
        \/ \E t \in Threads : NoPage(t)
        \/ \E t \in Threads : UsePage(t)
        \/ \E t \in Threads : \E i \in 0 .. Len(heap[t]) : Dealloc(t, i)
        \/ \E t \in Threads, size \in Sizes : LibraryMalloc(t, size)
        \/ \E t \in Threads : \E i \in 1 .. Len(heap[Library]) : LibraryFree(t, i)
        \/ \E t \in Threads : \E i \in 1 .. Len(heap[t]) : Touch(t, i)
        \/ \E u \in Threads : Switch(u)

Spec == Init /\ [][Next]_vars

-----------------------------------------------------------------------------
Block == [at : Nat, size : Nat \ {0}, is_free : {0, 1}, prev : Nat \cup {NULL, Unset}]

TypeOK ==
  /\ TableOK(pt)
  /\ FramesOK(fr)
  /\ current_tid \in Threads
  /\ heap \in [Owners -> Seq(Block)]
  /\ written \in [Owners -> Nat]
  /\ pending \in [Threads -> [size : Nat, curr : Nat, n : Nat, page : Frames \cup {NULL}]]

\* The two counters that the insufficient-memory tests read say how many pages
\* of memory and of the swap file are free, through every move of a page.
CountersMatch ==
  /\ pt.numFreePagesMem = Cardinality(Unused(pt) \cap Memory)
  /\ pt.numFreePagesSF = Cardinality(Unused(pt) \cap Swap)

\* However its pages have been moved, a thread's pages are numbered from 0
\* without a gap, and a frame that a thread has grown into keeps its number.
PagesNumbered ==
  /\ \A t \in Threads :
       LET pages == {y \in Frames : pt.table[y].tid = t}
       IN  \A y \in pages : \A p \in 0 .. pt.table[y].page_num : Holding(pt, t, p) # {}
  /\ \A y \in Frames : pt.table[pt.table[y].page_num].page_num = pt.table[y].page_num

\* No request, fault or switch destroys a page: the bytes of every page that was
\* handed out are in some frame afterwards.
DataKept ==
  [][\A y \in Frames :
       LET with(s) == {z \in Frames : s[z] = fr.data[y]}
       IN  fr.data[y] # Blank => Cardinality(with(fr.data)) <= Cardinality(with(fr'.data))]_vars

\* The frames that the page table says are t's.
Owned(t) == {y \in Frames : pt.table[y].tid = t}

\* t's last block ends in the last of its pages, and not beyond.
EndsInLastPage(t) ==
  heap[t] # <<>> =>
    After(Last(heap[t])) = PAGE_SIZE * Cardinality({pt.table[y].page_num : y \in Owned(t)})

\* The header of the last block lies in the last page of the chain.
StartsInLastPage(t) ==
  heap[t] # <<>> => PageOf(Last(heap[t]).at) = PageOf(After(Last(heap[t])) - 1)

\* A chain tiles its owner's pages: its blocks follow each other without a gap
\* or an overlap, from the start of page 0 to the end of the last page.
Tiled(t) ==
  /\ heap[t] # <<>> => heap[t][1].at = 0
  /\ \A i \in 1 .. Len(heap[t]) - 1 : heap[t][i + 1].at = After(heap[t][i])
  /\ EndsInLastPage(t)

\* The first page of a thread that has a chain is in memory.
HeadInMemory(t) == heap[t] # <<>> => HeadFrames(pt, t) # {}

\* The frame that requestPage() found is empty when the page after the block is
\* moved to it.
FreePageIsEmpty == \A t \in Threads : pending[t].page # NULL => fr.data[pending[t].page] = Blank

\* A chain that tiles its pages goes on to, through every request, as long as
\* the first page is in memory and a last block that has to grow begins in the
\* last page.
TilingKept ==
  [][\A t \in Threads :
       /\ Tiled(t)
       /\ HeadInMemory(t)
       /\ pending[t] # NoRequest => StartsInLastPage(t)
       => Tiled(t)']_vars

\* The page table tells the truth about the frames, and the running thread can
\* read and write its pages in memory: it cannot after a fault, nor when
\* schedule() chose the thread that was running.
Truthful == /\ fr.status = "ok"
            /\ TableMatches(pt, fr)
            /\ Owned(current_tid) \cap Memory \subseteq fr.open

\* From a truthful state a thread cannot read or write a page in memory that is
\* another's.
Isolated ==
  Truthful => \A y \in fr.open \cap Memory : fr.data[y] # Blank => fr.data[y][1] = current_tid

\* No thread has grown beyond the memory: the pages of the swap file follow it in
\* the same block and a switch protects none of them, so that a thread with more
\* pages reads and writes them where they lie, whoever has them.
WithinMemory == \A y \in Frames : pt.table[y].page_num \in Memory

\* From a truthful state, with chains that tile their pages and lie in the
\* memory, no access ends in the error exit of swapPage(), in a fault that never
\* stops or in bytes that are not the caller's.
TruthIsSafe ==
  [][Truthful /\ WithinMemory /\ (\A t \in Threads : Tiled(t))
       => fr'.status \notin {"exit", "hang", "alien"}]_vars

=============================================================================

---------------------------- MODULE OlderAllocator ----------------------------
(***************************************************************************)
(* The allocator and pager that the older library of                       *)
(* scheduler+virtualMemoryManager is built with: myallocate.c and paging.c *)
(* beside my_pthread.c.  What they do as the submitted files do is in      *)
(* Paging; what differs:                                                   *)
(*   - getHead() looks for a page with number 1, and new first pages get   *)
(*     number 0: each request of a thread starts with a new first page,    *)
(*     unless one of them has grown and left a page 1 in memory;           *)
(*   - a fault is served from memory only, and leaves the page table alone;*)
(*   - a switch protects every page of memory that is not the next         *)
(*     thread's;                                                           *)
(*   - organizeMem() sets the prev pointer.                                *)
(* So the chain of a thread is one free block when a request meets it, and *)
(* only the OS region has a chain to keep.  Addresses are as in Allocator. *)
(* A thread is not switched out within a request.                          *)
(***************************************************************************)
EXTENDS Paging, Sequences, SequencesExt

CONSTANTS
  NULL,
  PAGE_SIZE, META, OS_SIZE,
  Sizes,         \* the sizes that are asked for
  MaxBlocks      \* bound: headers in the OS region

ASSUME SizesAssumption ==
  /\ META \in Nat \ {0}
  /\ PAGE_SIZE \in Nat /\ PAGE_SIZE > META
  /\ OS_SIZE \in Nat /\ OS_SIZE > META
  /\ Sizes \subseteq Nat \ {0}

ASSUME NullAssumption == NULL \notin Frames

VARIABLES
  pt, fr, current_tid,
  os,        \* the chain of headers of the OS region
  top,       \* top[t]: the highest page t was handed bytes of, -1 for none
  pending    \* the request of current_tid that is getting pages

vars == <<pt, fr, current_tid, os, top, pending>>

\* n: numPagesNeeded; page: freePage.
NoRequest == [size |-> 0, n |-> 0, page |-> NULL]

Meta(at, size, free, prev) == [at |-> at, size |-> size, is_free |-> free, prev |-> prev]

After(b) == b.at + META + b.size
Free(b) == b.is_free = 1

InitMem(size) == <<Meta(0, size - META, 1, NULL)>>

Init ==
  /\ pt = InitTable
  /\ fr = InitFrames
  /\ current_tid \in Threads
  /\ os = InitMem(OS_SIZE)
  /\ top = [t \in Threads |-> -1]
  /\ pending = NoRequest

-----------------------------------------------------------------------------
(***************************************************************************)
(* The pager.                                                              *)
(***************************************************************************)

\* swapPage(), as the handler of a fault on frame p calls it: the bytes of the
\* two frames are exchanged.  No frame in memory: exit(0).
SwapInMemory(t, p) ==
  LET held == Holding(pt, t, p) \cap Memory
      y    == First(held)
  IN  IF held = {}
      THEN [fr EXCEPT !.status = "exit"]
      ELSE [fr EXCEPT !.data[y] = fr.data[p],
                      !.data[p] = fr.data[y],
                      !.open = (@ \cup {p}) \ {y}]

\* A page that was protected last, its own frame: the access faults for ever.
Served(s, t, p) ==
  CASE s.status # "ok" -> s
    [] s.status = "ok" /\ p \notin s.open -> [s EXCEPT !.status = "hang"]
    [] s.status = "ok" /\ p \in s.open ->
         IF s.data[p] = <<t, p>> THEN s ELSE [s EXCEPT !.status = "alien"]

\* mprotect_setter(): it does not look at prev_tid.
ProtectOthers(u) ==
  [fr EXCEPT !.open = (@ \cap Swap) \cup {y \in Memory : pt.table[y].tid = u}]

\* getHead() finds page 1 of t, and the head it returns is the middle of a block
\* that grew into it.
FindsPageOne(t) == Holding(pt, t, 1) \cap Memory # {}

\* It finds no page 1, and a free page: f.
FindsFree(t) == ~FindsPageOne(t) /\ Unused(pt) # {}

NewHeadTable(t) == NewHead(pt, t, First(Unused(pt)))

\* Mutant: the page that is moved away can still be accessed.
NewHeadBytes_open(t) ==
  LET f == First(Unused(pt))
  IN  [fr EXCEPT !.data[f] = fr.data[0], !.data[0] = <<t, 0>>, !.open = @ \cup {0, f}]

NewHeadBytes(t) == SwapEmptyPage(fr, First(Unused(pt)), 0, <<t, 0>>)

-----------------------------------------------------------------------------
(***************************************************************************)
(* Requests of threads.                                                    *)
(***************************************************************************)
Running(t) == fr.status = "ok" /\ current_tid = t /\ pending = NoRequest

\* myallocate() or mydeallocate() reads bytes of a client for a header.
Astray(t) ==
  /\ Running(t)
  /\ FindsPageOne(t)
  /\ fr' = [fr EXCEPT !.status = "wild"]
  /\ UNCHANGED <<pt, current_tid, os, top, pending>>

HeadSize == PAGE_SIZE - META

\* Mutant: a page for the header is forgotten, and the end of memory.
Insufficient_onePageShort(size) ==
  /\ size > HeadSize + (NewHeadTable(current_tid).numFreePagesMem + 1) * PAGE_SIZE
  /\ size > HeadSize + (NewHeadTable(current_tid).numFreePagesSF + 1) * PAGE_SIZE

\* The tests for insufficient memory, after the head was taken: the block at the
\* head is free.
Insufficient(size) ==
  \/ /\ size > HeadSize + NewHeadTable(current_tid).numFreePagesMem * PAGE_SIZE
     /\ size > HeadSize + NewHeadTable(current_tid).numFreePagesSF * PAGE_SIZE
  \/ PAGE_SIZE >= MEMORY_PAGES * PAGE_SIZE

Reached(t, p) == top' = [top EXCEPT ![t] = IF p > @ THEN p ELSE @]

\* myallocate() up to the loop that gets pages.
Malloc(t, size) ==
  /\ Running(t)
  /\ FindsFree(t)
  /\ pt' = NewHeadTable(t)
  /\ fr' = NewHeadBytes(t)
  /\ IF size <= HeadSize
     THEN Reached(t, 0) /\ UNCHANGED pending
     ELSE /\ pending' = IF Insufficient(size) THEN pending ELSE [NoRequest EXCEPT !.size = size]
          /\ UNCHANGED top
  /\ UNCHANGED <<current_tid, os>>

\* mydeallocate(): FREE_FLAG is not 0, so a head is taken for it as well, and in
\* the new chain of one free block whatever it is given is not in use.
Dealloc(t) ==
  /\ Running(t)
  /\ FindsFree(t)
  /\ pt' = NewHeadTable(t)
  /\ fr' = NewHeadBytes(t)
  /\ UNCHANGED <<current_tid, os, top, pending>>

Getting == fr.status = "ok" /\ pending # NoRequest

\* requestPage(), which finds a page (PagesSuffice).
GetPage ==
  /\ Getting
  /\ pending.page = NULL
  /\ LET f == First(Unused(pt))
     IN  /\ pt' = RequestPage(pt, current_tid, f)
         /\ fr' = [fr EXCEPT !.open = @ \cup {f}]
         /\ pending' = [pending EXCEPT !.page = f, !.n = @ + 1]
  /\ UNCHANGED <<current_tid, os, top>>

\* The rest of the iteration: frame n becomes the caller's n-th page.
UsePage ==
  /\ Getting
  /\ pending.page # NULL
  /\ pt' = TakeNext(pt, current_tid, pending.page, pending.n)
  /\ fr' = SwapEmptyPage(fr, pending.page, pending.n, <<current_tid, NextNumber(pt, pending.n)>>)
  /\ IF pending.size > HeadSize + pending.n * PAGE_SIZE
     THEN pending' = [pending EXCEPT !.page = NULL] /\ UNCHANGED top
     ELSE pending' = NoRequest /\ Reached(current_tid, pending.n)
  /\ UNCHANGED <<current_tid, os>>

\* Thread t reads or writes a page that it was handed bytes of.
Touch(t, p) ==
  /\ Running(t)
  /\ p <= top[t]
  /\ fr' = Served(IF p \in fr.open THEN fr ELSE SwapInMemory(t, p), t, p)
  /\ UNCHANGED <<pt, current_tid, os, top, pending>>

\* my_pthread.c switches to thread u.
Switch(u) ==
  /\ fr.status = "ok"
  /\ pending = NoRequest
  /\ fr' = ProtectOthers(u)
  /\ current_tid' = u
  /\ UNCHANGED <<pt, os, top, pending>>

-----------------------------------------------------------------------------
(***************************************************************************)
(* The OS region.                                                          *)
(***************************************************************************)

\* Where the traversal of myallocate() stops.
Found(h, size) == First({i \in 1 .. Len(h) : Free(h[i]) /\ h[i].size >= size} \cup {Len(h)})

\* Mutant: the rest is not linked to the block it was cut from.
OrganizeMem_noPrev(h, i, size) ==
  LET new == Meta(h[i].at + META + size, h[i].size - META - size, 1, NULL)
  IN  InsertAt([h EXCEPT ![i].size = size, ![i].is_free = 0], i + 1, new)

OrganizeMem(h, i, size) ==
  LET new == Meta(h[i].at + META + size, h[i].size - META - size, 1, h[i].at)
  IN  InsertAt([h EXCEPT ![i].size = size, ![i].is_free = 0], i + 1, new)

\* Mutant: a block is cut also when the rest has no room for a header.
Take_always(h, i, size) == OrganizeMem(h, i, size)

Take(h, i, size) == IF h[i].size > size + META
                    THEN OrganizeMem(h, i, size)
                    ELSE [h EXCEPT ![i].is_free = 0]

\* What the free pages of the users could not provide either; a request that they
\* could goes on to take them and is not followed.
OutOfMemory(b, size) ==
  \/ /\ ~Free(b)
     /\ size + META > pt.numFreePagesMem * PAGE_SIZE
     /\ size + META > pt.numFreePagesSF * PAGE_SIZE
  \/ /\ b.size < size
     /\ size > b.size + pt.numFreePagesMem * PAGE_SIZE
     /\ size > b.size + pt.numFreePagesSF * PAGE_SIZE

LibraryMalloc(t, size) ==
  /\ Running(t)
  /\ Len(os) < MaxBlocks
  /\ LET i == Found(os, size)
     IN  IF Free(os[i]) /\ os[i].size >= size
         THEN os' = Take(os, i, size) /\ UNCHANGED fr
         ELSE /\ fr' = [fr EXCEPT !.status = IF OutOfMemory(os[i], size) THEN "ok" ELSE "wild"]
              /\ UNCHANGED os
  /\ UNCHANGED <<pt, current_tid, top, pending>>

\* The block with the block after it, which is free.
MergeNext(h, i) ==
  LET g == RemoveAt([h EXCEPT ![i].size = @ + META + h[i + 1].size, ![i].is_free = 1], i + 1)
  IN  IF i < Len(g) THEN [g EXCEPT ![i + 1].prev = h[i].at] ELSE g

\* A block that a block in use follows stays in use.
Release(h, i) ==
  CASE i = Len(h)                   -> [h EXCEPT ![i].is_free = 1]
    [] i < Len(h) /\ Free(h[i + 1]) -> MergeNext(h, i)
    [] i < Len(h) /\ ~Free(h[i + 1]) -> h

\* The block with the block before it, which is free: toFree->next->prev is
\* written, and the program ends when there is no next block.
MergePrev(h, i) ==
  RemoveAt([h EXCEPT ![i - 1].size = @ + META + h[i].size, ![i + 1].prev = h[i - 1].at], i)

LibraryFree(t, i) ==
  /\ Running(t)
  /\ ~Free(os[i])
  /\ LET g == Release(os, i)
         joins == g[i].prev # NULL /\ Free(g[i - 1])
     IN  /\ os' = IF joins /\ i < Len(g) THEN MergePrev(g, i) ELSE g
         /\ fr' = IF joins /\ i = Len(g) THEN [fr EXCEPT !.status = "exit"] ELSE fr
  /\ UNCHANGED <<pt, current_tid, top, pending>>

Next == \/ \E t \in Threads : Astray(t) \/ Dealloc(t)
        \/ \E t \in Threads, size \in Sizes : Malloc(t, size) \/ LibraryMalloc(t, size)
        \/ GetPage \/ UsePage
        \/ \E t \in Threads : \E p \in 0 .. top[t] : Touch(t, p)
        \/ \E t \in Threads : \E i \in 1 .. Len(os) : LibraryFree(t, i)
        \/ \E u \in Threads : Switch(u)

Spec == Init /\ [][Next]_vars

-----------------------------------------------------------------------------
TypeOK ==
  /\ TableOK(pt)
  /\ FramesOK(fr)
  /\ current_tid \in Threads
  /\ os \in Seq([at : Nat, size : Nat \ {0}, is_free : {0, 1}, prev : Nat \cup {NULL}])
  /\ top \in [Threads -> Frames \cup {-1}]
  /\ pending \in [size : Nat, n : Nat, page : Frames \cup {NULL}]

\* A request that the tests for insufficient memory let pass never finds that
\* there is no page for it.
PagesSuffice == pending # NoRequest /\ pending.page = NULL => Unused(pt) # {}

\* The chain of the OS region tiles it, both ways: every block begins where the
\* one before it ends, which its prev pointer leads to.
ChainLinked ==
  /\ os[1].at = 0 /\ os[1].prev = NULL
  /\ \A i \in 2 .. Len(os) : os[i].at = After(os[i - 1]) /\ os[i].prev = os[i - 1].at
  /\ After(os[Len(os)]) = OS_SIZE

\* As long as no fault has moved bytes behind the page table's back, a thread can
\* access no page in memory that is another's, whatever was moved for a new head
\* or to let a block grow.
Isolated ==
  fr.status = "ok" /\ TableMatches(pt, fr)
    => \A y \in fr.open \cap Memory : fr.data[y] # Blank => fr.data[y][1] = current_tid
=============================================================================

------------------------------- MODULE Paging -------------------------------
(***************************************************************************)
(* The page table, the page protections and the swap of                    *)
(* scheduler+virtualMemoryManager/submission/paging.c.  The module has no  *)
(* variables: pt is the page table with its counters, fr is what the pages *)
(* hold and which of them may be accessed, and every function of the file  *)
(* is an operator that gives the next of one or of both; Allocator puts    *)
(* them together.  Frames are the page numbers of the code counted from    *)
(* FIRST_USER_PAGE, so that page p of a thread is meant to sit in frame p. *)
(* A page's bytes are abstracted to the page they are, <<thread, number>>. *)
(***************************************************************************)
EXTENDS Integers, FiniteSets

CONSTANTS
  Threads,       \* the thread ids
  Nobody,        \* the tid -69 of a page nobody has
  Blank,         \* the bytes of a zeroed page
  MEMORY_PAGES,  \* FIRST_SWAP_PAGE - FIRST_USER_PAGE
  SWAP_PAGES     \* LAST_SWAP_PAGE - FIRST_SWAP_PAGE

ASSUME PagesAssumption == /\ MEMORY_PAGES \in Nat \ {0}
                          /\ SWAP_PAGES \in Nat

ASSUME NobodyAssumption == Nobody \notin Threads

ASSUME BlankAssumption == Blank \notin Threads \X Nat

Memory == 0 .. (MEMORY_PAGES - 1)
Swap == MEMORY_PAGES .. (MEMORY_PAGES + SWAP_PAGES - 1)
Frames == 0 .. (MEMORY_PAGES + SWAP_PAGES - 1)

First(S) == CHOOSE y \in S : \A z \in S : y <= z

\* page_meta.  entryNum and isOsRegion are written and never read.
Entry(t, n) == [tid |-> t, page_num |-> n, inUse |-> 1]
FreeEntry == [tid |-> Nobody, page_num |-> 0, inUse |-> 0]

\* initAll(): memalign leaves every page readable and writable.
InitTable == [table |-> [y \in Frames |-> FreeEntry],
              numFreePagesMem |-> MEMORY_PAGES,
              numFreePagesSF  |-> SWAP_PAGES]
InitFrames == [data |-> [y \in Frames |-> Blank], open |-> Frames, status |-> "ok"]

Unused(pt) == {y \in Frames : pt.table[y].inUse = 0}

\* The frames whose entry says they hold page p of thread t.
Holding(pt, t, p) == {y \in Frames : pt.table[y].tid = t /\ pt.table[y].page_num = p}

-----------------------------------------------------------------------------
(***************************************************************************)
(* The page table.                                                         *)
(***************************************************************************)

\* Mutant: a page taken from the swap file is not counted.
Spend_memoryOnly(pt, f) ==
  IF f \in Memory THEN [pt EXCEPT !.numFreePagesMem = @ - 1] ELSE pt

\* The free-page counter of the region that frame f lies in goes down.
Spend(pt, f) == IF f \in Memory THEN [pt EXCEPT !.numFreePagesMem = @ - 1]
                                ELSE [pt EXCEPT !.numFreePagesSF = @ - 1]

\* requestPage() finds frame f free: page_num is left as it was.
RequestPage(pt, t, f) ==
  [Spend(pt, f) EXCEPT !.table[f].inUse = 1, !.table[f].tid = t]

\* getHead(): page 0 of t is looked for in memory only.
HeadFrames(pt, t) == Holding(pt, t, 0) \cap Memory

\* getHead() found page 0 of the caller in frame y.
MoveHead(pt, y) == [pt EXCEPT !.table[0] = pt.table[y], !.table[y] = pt.table[0]]

\* getHead() gives frame 0 to t, which has no page 0 in memory: the page that
\* was there moves to the free frame f.
NewHead(pt, t, f) ==
  [Spend(pt, f) EXCEPT !.table[f] = pt.table[0], !.table[0] = Entry(t, 0)]

\* Mutant: the number follows that of the page that is moved away.
NextNumber_ofMoved(pt, next) == pt.table[next].page_num + 1

\* pageCounter + 1 in myallocate().
NextNumber(pt, next) == pt.table[next - 1].page_num + 1

\* myallocate() makes frame next t's: the page that was there moves to the
\* frame f that requestPage() found, which may be frame next itself.
TakeNext(pt, t, f, next) ==
  [pt EXCEPT !.table[f] = pt.table[next], !.table[next] = Entry(t, NextNumber(pt, next))]

-----------------------------------------------------------------------------
(***************************************************************************)
(* The pages and their protection.                                         *)
(***************************************************************************)

\* Mutant: the page is looked for in memory only.
SwapPage_memoryOnly(pt, fr, t, p) ==
  LET held == Holding(pt, t, p) \cap Memory
      y    == First(held)
  IN  IF held = {}
      THEN [fr EXCEPT !.status = "exit"]
      ELSE [fr EXCEPT !.data[y] = fr.data[p],
                      !.data[p] = fr.data[y],
                      !.open = (@ \cup {p}) \ {y}]

\* swapPage(): the first frame y that holds page p of t and frame p exchange
\* their bytes.  The index of the evicted entry is computed from curr_page, so
\* the entries that are "exchanged" are y and y: the page table stays as it is.
\* Frame y is protected last, even when it is frame p.  No frame: exit(0).
SwapPage(pt, fr, t, p) ==
  LET y == First(Holding(pt, t, p))
  IN  IF Holding(pt, t, p) = {}
      THEN [fr EXCEPT !.status = "exit"]
      ELSE [fr EXCEPT !.data[y] = fr.data[p],
                      !.data[p] = fr.data[y],
                      !.open = (@ \cup {p}) \ {y}]

\* Thread t reads or writes page p.  A protected page faults and handler()
\* swaps (its own mprotect is of an address that is no page: no effect); when
\* that leaves the page protected, the access faults for ever.  What the
\* program does with bytes that are not its page p is not followed further.
Access(pt, fr, t, p) ==
  LET s == IF p \in fr.open THEN fr ELSE SwapPage(pt, fr, t, p)
  IN  CASE fr.status # "ok" -> fr
        [] fr.status = "ok" /\ s.status # "ok" -> s
        [] fr.status = "ok" /\ s.status = "ok" /\ p \notin s.open ->
             [s EXCEPT !.status = "hang"]
        [] fr.status = "ok" /\ s.status = "ok" /\ p \in s.open ->
             IF s.data[p] = <<t, p>> THEN s ELSE [s EXCEPT !.status = "alien"]

\* mprotect_setter(): pages in memory only, and protecting comes second.
MprotectSetter(pt, fr, current, prev) ==
  LET Of(t) == {y \in Memory : pt.table[y].tid = t}
  IN  [fr EXCEPT !.open = (@ \cup Of(current)) \ Of(prev)]

\* Mutant: frame y is not protected after it has been copied from.
MoveHeadBytes_leavesOpen(pt, fr, t, y) ==
  [fr EXCEPT !.data[0] = fr.data[y], !.data[y] = fr.data[0], !.open = @ \cup {0}]

\* The bytes of MoveHead, whose entries pt has already been exchanged: a fault
\* on the copy out of frame y goes through the handler, which also zeroes the
\* buffer that holds the bytes of frame 0.
MoveHeadBytes(pt, fr, t, y) ==
  LET s == [fr EXCEPT !.open = @ \cup {0}]
      r == SwapPage(pt, s, t, y)
  IN  CASE y = 0 -> fr
        [] y # 0 /\ y \in fr.open ->
             [s EXCEPT !.data[0] = fr.data[y], !.data[y] = fr.data[0], !.open = @ \ {y}]
        [] y # 0 /\ y \notin fr.open /\ r.status # "ok" -> r
        [] y # 0 /\ y \notin fr.open /\ r.status = "ok" ->
             [r EXCEPT !.data[0] = r.data[y], !.data[y] = Blank, !.open = @ \ {y}]

\* Mutant: the page is zeroed before it is copied.
SwapEmptyPage_zeroesFirst(fr, f, y, bytes) ==
  [fr EXCEPT !.data[f] = Blank, !.data[y] = bytes, !.open = (@ \ {f}) \cup {y}]

\* swapEmptyPage() and the calls of mprotect around it: the bytes of frame y
\* move to frame f, which is then protected, and y is used for a new page.
SwapEmptyPage(fr, f, y, bytes) ==
  [fr EXCEPT !.data[f] = fr.data[y], !.data[y] = bytes, !.open = (@ \ {f}) \cup {y}]

-----------------------------------------------------------------------------
PageMeta == [tid : Threads \cup {Nobody}, page_num : Nat, inUse : {0, 1}]

TableOK(pt) == pt \in [table : [Frames -> PageMeta],
                       numFreePagesMem : Int, numFreePagesSF : Int]

FramesOK(fr) == fr \in [data   : [Frames -> (Threads \X Nat) \cup {Blank}],
                        open   : SUBSET Frames,
                        status : {"ok", "exit", "hang", "alien", "wild"}]

\* Every entry tells what its frame holds.
TableMatches(pt, fr) ==
  \A y \in Frames :
    fr.data[y] = IF pt.table[y].inUse = 1 THEN <<pt.table[y].tid, pt.table[y].page_num>>
                                          ELSE Blank
=============================================================================

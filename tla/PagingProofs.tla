---------------------------- MODULE PagingProofs ----------------------------
(***************************************************************************)
(* What the functions of paging.c keep of the page table, for any number   *)
(* of threads and of pages of memory and of the swap file: the frames in   *)
(* use are the first ones, the counters say how many are left, and the     *)
(* pages of a thread are numbered from 0 without a gap.  The proofs about  *)
(* both allocators rest on these lemmas.                                   *)
(***************************************************************************)
EXTENDS Paging, Sequences, SequencesExt, SequenceTheorems, FiniteSetTheorems,
        WellFoundedInduction, TLAPS

Total == MEMORY_PAGES + SWAP_PAGES

\* The first u frames are in use, and no others.
UsedUpto(p, u) ==
  /\ \A y \in Frames : y < u => p.table[y].inUse = 1 /\ p.table[y].tid \in Threads
  /\ \A y \in Frames : y >= u => p.table[y] = FreeEntry

\* Memory is used up before the swap file.
Counted(p, u) ==
  /\ p.numFreePagesMem = IF u <= MEMORY_PAGES THEN MEMORY_PAGES - u ELSE 0
  /\ p.numFreePagesSF = IF u <= MEMORY_PAGES THEN SWAP_PAGES ELSE Total - u

Filled(p) == \E u \in 0 .. Total : UsedUpto(p, u) /\ Counted(p, u)

\* Some entry is t's page n, and frame n has its own number.
Known(p, t, n) == n \in Frames /\ p.table[n].page_num = n /\ Holding(p, t, n) # {}

\* The numbers that are given are those of frames that have been grown into.
Numbered(p) ==
  /\ p.table[0].page_num = 0
  /\ \A y \in Frames : LET n == p.table[y].page_num
                       IN  n \in Frames /\ p.table[n].page_num = n

Gapless(p) ==
  \A y \in Frames : p.table[y].tid \in Threads =>
    \A n \in 0 .. p.table[y].page_num : Holding(p, p.table[y].tid, n) # {}

TableInv(p) == TableOK(p) /\ Filled(p) /\ Numbered(p) /\ Gapless(p)

-----------------------------------------------------------------------------
(***************************************************************************)
(* Frames                                                                  *)
(***************************************************************************)

LEMMA FrameNumbers ==
  /\ Total \in Nat \ {0} /\ MEMORY_PAGES \in Nat \ {0} /\ SWAP_PAGES \in Nat
  /\ Frames = 0 .. (Total - 1) /\ Frames \subseteq Nat /\ 0 \in Frames
  /\ \A y \in Frames : y \in Memory <=> y < MEMORY_PAGES
  /\ \A y \in Frames : y \in Swap <=> y >= MEMORY_PAGES
  /\ Memory \subseteq Frames /\ Swap \subseteq Frames
BY PagesAssumption DEF Total, Frames, Memory, Swap

\* A set of numbers has a least one.
LEMMA LeastNat ==
  ASSUME NEW S \in SUBSET Nat, S # {}
  PROVE  \E m \in S : \A n \in S : m <= n
<1>. DEFINE T == {0 .. n : n \in S}
<1>1. T \subseteq FiniteSubsetsOf(Nat) /\ T # {}
  <2>1. ASSUME NEW n \in S PROVE 0 .. n \in FiniteSubsetsOf(Nat)
    <3>1. n \in Int /\ 0 \in Int
      OBVIOUS
    <3>2. IsFiniteSet(0 .. n)
      BY <3>1, FS_Interval
    <3>3. 0 .. n \in SUBSET Nat
      OBVIOUS
    <3>. QED BY <3>2, <3>3 DEF FiniteSubsetsOf
  <2>. QED BY <2>1
<1>2. PICK x \in T : \A y \in T : ~ (<<y, x>> \in StrictSubsetOrdering(Nat))
  BY <1>1, FS_StrictSubsetOrderingWellFounded, WFMin
<1>3. PICK m \in S : x = 0 .. m
  OBVIOUS
<1>4. ASSUME NEW n \in S, n < m PROVE FALSE
  <2>1. <<0 .. n, 0 .. m>> \in StrictSubsetOrdering(Nat)
    BY <1>4 DEF StrictSubsetOrdering
  <2>. QED BY <1>2, <1>3, <2>1
<1>. QED BY <1>4

LEMMA LeastFrame ==
  ASSUME NEW S \in SUBSET Frames, S # {}
  PROVE  First(S) \in S /\ \A z \in S : First(S) <= z
<1>1. S \in SUBSET Nat
  BY FrameNumbers
<1>2. PICK m \in S : \A z \in S : m <= z
  BY <1>1, LeastNat
<1>. QED BY <1>2 DEF First

LEMMA EntryAt ==
  ASSUME NEW p, TableOK(p), NEW y \in Frames
  PROVE  /\ p.table[y] \in PageMeta /\ p.table[y].tid \in Threads \cup {Nobody}
         /\ p.table[y].page_num \in Nat /\ p.table[y].inUse \in {0, 1}
BY DEF TableOK, PageMeta

\* requestPage() finds the frame behind those in use.
LEMMA UnusedIs ==
  ASSUME NEW p, NEW u \in 0 .. Total, UsedUpto(p, u)
  PROVE  /\ Unused(p) = {y \in Frames : y >= u}
         /\ Unused(p) # {} <=> u < Total
         /\ Unused(p) # {} => u \in Frames /\ First(Unused(p)) = u
<1>1. \A y \in Frames : y < u \/ y >= u
  BY FrameNumbers
<1>2. Unused(p) = {y \in Frames : y >= u}
  BY <1>1 DEF Unused, UsedUpto, FreeEntry
<1>3. Unused(p) # {} <=> u < Total
  BY <1>2, FrameNumbers
<1>4. ASSUME Unused(p) # {} PROVE u \in Frames /\ First(Unused(p)) = u
  <2>1. u \in Frames /\ u \in Unused(p)
    BY <1>2, <1>3, <1>4, FrameNumbers
  <2>2. First(Unused(p)) \in Unused(p) /\ First(Unused(p)) <= u
    BY <1>2, <2>1, LeastFrame
  <2>. QED BY <1>2, <2>1, <2>2, FrameNumbers
<1>. QED BY <1>2, <1>3, <1>4

\* The two counters say how many pages are free (CountersMatch).
LEMMA CountersCount ==
  ASSUME NEW p, Filled(p)
  PROVE  /\ p.numFreePagesMem = Cardinality(Unused(p) \cap Memory)
         /\ p.numFreePagesSF = Cardinality(Unused(p) \cap Swap)
<1>1. PICK u \in 0 .. Total : UsedUpto(p, u) /\ Counted(p, u)
  BY DEF Filled
<1>2. Unused(p) = {y \in Frames : y >= u}
  BY <1>1, UnusedIs
<1>3. \A a, b \in Int : Cardinality(a .. b) = IF a > b THEN 0 ELSE b - a + 1
  BY FS_Interval
<1>4. CASE u <= MEMORY_PAGES
  <2>1. Unused(p) \cap Memory = u .. (MEMORY_PAGES - 1)
    BY <1>2, <1>4, FrameNumbers DEF Memory
  <2>2. Unused(p) \cap Swap = MEMORY_PAGES .. (Total - 1)
    BY <1>2, <1>4, FrameNumbers DEF Swap, Total
  <2>3. u \in Int /\ MEMORY_PAGES - 1 \in Int /\ MEMORY_PAGES \in Int /\ Total - 1 \in Int
    BY FrameNumbers
  <2>4. /\ Cardinality(u .. (MEMORY_PAGES - 1)) = MEMORY_PAGES - u
        /\ Cardinality(MEMORY_PAGES .. (Total - 1)) = SWAP_PAGES
    <3>1. Cardinality(u .. (MEMORY_PAGES - 1)) = IF u > MEMORY_PAGES - 1 THEN 0 ELSE (MEMORY_PAGES - 1) - u + 1
      BY <1>3, <2>3
    <3>2. Cardinality(MEMORY_PAGES .. (Total - 1))
            = IF MEMORY_PAGES > Total - 1 THEN 0 ELSE (Total - 1) - MEMORY_PAGES + 1
      BY <1>3, <2>3
    <3>3. Total = MEMORY_PAGES + SWAP_PAGES
      BY DEF Total
    <3>. QED BY <1>4, <3>1, <3>2, <3>3, FrameNumbers
  <2>. QED BY <1>1, <1>4, <2>1, <2>2, <2>4 DEF Counted
<1>5. CASE u > MEMORY_PAGES
  <2>1. Unused(p) \cap Memory = {}
    BY <1>2, <1>5, FrameNumbers DEF Memory
  <2>2. Unused(p) \cap Swap = u .. (Total - 1)
    BY <1>2, <1>5, FrameNumbers DEF Swap, Total
  <2>3. u \in Int /\ Total - 1 \in Int
    BY FrameNumbers
  <2>4. Cardinality(u .. (Total - 1)) = Total - u
    <3>1. Cardinality(u .. (Total - 1)) = IF u > Total - 1 THEN 0 ELSE (Total - 1) - u + 1
      BY <1>3, <2>3
    <3>. QED BY <3>1, FrameNumbers
  <2>6. p.numFreePagesMem = 0 /\ p.numFreePagesSF = Total - u
    BY <1>1, <1>5, FrameNumbers DEF Counted
  <2>5. Cardinality({}) = 0
    BY FS_EmptySet
  <2>. QED BY <2>1, <2>2, <2>4, <2>5, <2>6
<1>. QED BY <1>4, <1>5, FrameNumbers

-----------------------------------------------------------------------------
(***************************************************************************)
(* What each function does to an entry                                     *)
(***************************************************************************)

LEMMA SpendIs ==
  ASSUME NEW p, TableOK(p), NEW f \in Frames
  PROVE  /\ TableOK(Spend(p, f)) /\ Spend(p, f).table = p.table
         /\ Spend(p, f).numFreePagesMem = p.numFreePagesMem - (IF f \in Memory THEN 1 ELSE 0)
         /\ Spend(p, f).numFreePagesSF = p.numFreePagesSF - (IF f \in Memory THEN 0 ELSE 1)
BY DEF Spend, TableOK

LEMMA MoveHeadIs ==
  ASSUME NEW p, TableOK(p), NEW y \in Frames
  PROVE  LET q == MoveHead(p, y)
         IN  /\ TableOK(q)
             /\ \A z \in Frames : q.table[z] = IF z = y THEN p.table[0]
                                               ELSE IF z = 0 THEN p.table[y] ELSE p.table[z]
             /\ q.numFreePagesMem = p.numFreePagesMem /\ q.numFreePagesSF = p.numFreePagesSF
BY FrameNumbers DEF MoveHead, TableOK

LEMMA EntryIs ==
  ASSUME NEW t \in Threads, NEW n \in Nat
  PROVE  /\ Entry(t, n) \in PageMeta /\ Entry(t, n).tid = t
         /\ Entry(t, n).page_num = n /\ Entry(t, n).inUse = 1
BY DEF Entry, PageMeta

LEMMA NewHeadIs ==
  ASSUME NEW p, TableOK(p), NEW t \in Threads, NEW f \in Frames
  PROVE  LET q == NewHead(p, t, f)
         IN  /\ TableOK(q)
             /\ \A z \in Frames : q.table[z] = IF z = 0 THEN Entry(t, 0)
                                               ELSE IF z = f THEN p.table[0] ELSE p.table[z]
             /\ q.numFreePagesMem = p.numFreePagesMem - (IF f \in Memory THEN 1 ELSE 0)
             /\ q.numFreePagesSF = p.numFreePagesSF - (IF f \in Memory THEN 0 ELSE 1)
<1>. DEFINE s == Spend(p, f)
<1>1. /\ TableOK(s) /\ s.table = p.table
      /\ s.numFreePagesMem = p.numFreePagesMem - (IF f \in Memory THEN 1 ELSE 0)
      /\ s.numFreePagesSF = p.numFreePagesSF - (IF f \in Memory THEN 0 ELSE 1)
  BY SpendIs
<1>2. NewHead(p, t, f) = [s EXCEPT !.table[f] = p.table[0], !.table[0] = Entry(t, 0)]
  BY DEF NewHead
<1>. HIDE DEF s
<1>3. p.table[0] \in PageMeta /\ Entry(t, 0) \in PageMeta /\ 0 \in Frames
  BY EntryAt, EntryIs, FrameNumbers
<1>. DEFINE mid == [s EXCEPT !.table[f] = p.table[0]]
<1>4. /\ TableOK(mid) /\ mid.numFreePagesMem = s.numFreePagesMem /\ mid.numFreePagesSF = s.numFreePagesSF
      /\ \A z \in Frames : mid.table[z] = IF z = f THEN p.table[0] ELSE p.table[z]
  BY <1>1, <1>3 DEF TableOK
<1>5. NewHead(p, t, f) = [mid EXCEPT !.table[0] = Entry(t, 0)]
  BY <1>1, <1>2, <1>3 DEF TableOK
<1>. HIDE DEF mid
<1>. QED BY <1>1, <1>3, <1>4, <1>5 DEF TableOK

LEMMA RequestPageIs ==
  ASSUME NEW p, TableOK(p), NEW t \in Threads, NEW f \in Frames, p.table[f] = FreeEntry
  PROVE  LET q == RequestPage(p, t, f)
         IN  /\ TableOK(q)
             /\ \A z \in Frames : q.table[z] = IF z = f THEN Entry(t, 0) ELSE p.table[z]
             /\ q.numFreePagesMem = p.numFreePagesMem - (IF f \in Memory THEN 1 ELSE 0)
             /\ q.numFreePagesSF = p.numFreePagesSF - (IF f \in Memory THEN 0 ELSE 1)
<1>. DEFINE s == Spend(p, f)
<1>1. /\ TableOK(s) /\ s.table = p.table
      /\ s.numFreePagesMem = p.numFreePagesMem - (IF f \in Memory THEN 1 ELSE 0)
      /\ s.numFreePagesSF = p.numFreePagesSF - (IF f \in Memory THEN 0 ELSE 1)
  BY SpendIs
<1>2. RequestPage(p, t, f) = [s EXCEPT !.table[f].inUse = 1, !.table[f].tid = t]
  BY DEF RequestPage
<1>3. [[s.table[f] EXCEPT !.inUse = 1] EXCEPT !.tid = t] = Entry(t, 0)
  <2>1. s.table[f] = [tid |-> Nobody, page_num |-> 0, inUse |-> 0]
    BY <1>1 DEF FreeEntry
  <2>2. [s.table[f] EXCEPT !.inUse = 1] = [tid |-> Nobody, page_num |-> 0, inUse |-> 1]
    BY <2>1
  <2>3. \A r : r = [tid |-> Nobody, page_num |-> 0, inUse |-> 1]
               => [r EXCEPT !.tid = t] = [tid |-> t, page_num |-> 0, inUse |-> 1]
    OBVIOUS
  <2>. QED BY <2>2, <2>3 DEF Entry
<1>. HIDE DEF s
<1>4. RequestPage(p, t, f) = [s EXCEPT !.table[f] = Entry(t, 0)]
  <2>. DEFINE mid == [s EXCEPT !.table[f].inUse = 1]
  <2>1. mid.table[f] = [s.table[f] EXCEPT !.inUse = 1] /\ mid = [s EXCEPT !.table[f] = mid.table[f]]
    BY <1>1 DEF TableOK
  <2>2. RequestPage(p, t, f) = [mid EXCEPT !.table[f] = Entry(t, 0)]
    BY <1>2, <1>3, <1>1, <2>1 DEF TableOK
  <2>. QED BY <1>1, <2>1, <2>2 DEF TableOK
<1>5. Entry(t, 0) \in PageMeta
  BY EntryIs
<1>. QED BY <1>1, <1>4, <1>5 DEF TableOK

LEMMA TakeNextIs ==
  ASSUME NEW p, TableOK(p), NEW t \in Threads, NEW f \in Frames, NEW next \in Frames,
         NextNumber(p, next) \in Nat
  PROVE  LET q == TakeNext(p, t, f, next)
         IN  /\ TableOK(q)
             /\ \A z \in Frames : q.table[z] = IF z = next THEN Entry(t, NextNumber(p, next))
                                               ELSE IF z = f THEN p.table[next] ELSE p.table[z]
             /\ q.numFreePagesMem = p.numFreePagesMem /\ q.numFreePagesSF = p.numFreePagesSF
<1>1. Entry(t, NextNumber(p, next)) \in PageMeta
  BY EntryIs
<1>. QED BY <1>1 DEF TakeNext, TableOK

-----------------------------------------------------------------------------
(***************************************************************************)
(* What each function keeps                                                *)
(***************************************************************************)

\* Entries only move: t's page n is still in some frame.
Kept(p, q) == \A t \in Threads : \A n \in Nat : Holding(p, t, n) # {} => Holding(q, t, n) # {}

\* And the numbers of the frames that were grown into stay.
Settled(p, q) == \A n \in Frames : p.table[n].page_num = n => q.table[n].page_num = n

LEMMA KnownKept ==
  ASSUME NEW p, NEW q, Kept(p, q), Settled(p, q), NEW t \in Threads, NEW n, Known(p, t, n)
  PROVE  Known(q, t, n)
BY FrameNumbers DEF Known, Kept, Settled

LEMMA HoldingIs ==
  ASSUME NEW p, NEW t, NEW n, NEW y \in Frames, p.table[y].tid = t, p.table[y].page_num = n
  PROVE  Holding(p, t, n) # {}
BY DEF Holding

\* An entry that is moved is one that was there.
LEMMA GaplessKept ==
  ASSUME NEW p, NEW q, TableOK(p), Gapless(p), Kept(p, q),
         \A y \in Frames : q.table[y].tid \in Threads =>
           \/ \E z \in Frames : q.table[y] = p.table[z]
           \/ /\ q.table[y].page_num \in Nat
              /\ \A n \in 0 .. q.table[y].page_num : Holding(q, q.table[y].tid, n) # {}
  PROVE  Gapless(q)
<1>. SUFFICES ASSUME NEW y \in Frames, q.table[y].tid \in Threads,
                     NEW n \in 0 .. q.table[y].page_num
              PROVE  Holding(q, q.table[y].tid, n) # {}
  BY DEF Gapless
<1>1. CASE \E z \in Frames : q.table[y] = p.table[z]
  <2>1. PICK z \in Frames : q.table[y] = p.table[z]
    BY <1>1
  <2>2. Holding(p, p.table[z].tid, n) # {}
    BY <2>1 DEF Gapless
  <2>3. n \in Nat
    OBVIOUS
  <2>. QED BY <2>1, <2>2, <2>3 DEF Kept
<1>. QED BY <1>1

LEMMA UsedTids ==
  ASSUME NEW p, TableOK(p), Filled(p), NEW y \in Frames
  PROVE  /\ p.table[y].tid \in Threads <=> p.table[y].inUse = 1
         /\ p.table[y].tid \notin Threads => p.table[y] = FreeEntry
<1>1. PICK u \in 0 .. Total : UsedUpto(p, u)
  BY DEF Filled
<1>2. y < u \/ y >= u
  BY FrameNumbers
<1>. QED BY <1>1, <1>2, NobodyAssumption DEF UsedUpto, FreeEntry

\* getHead() moves the caller's first page to frame 0.
LEMMA MoveHeadKeeps ==
  ASSUME NEW p, TableInv(p), NEW t \in Threads, NEW y \in HeadFrames(p, t)
  PROVE  LET q == MoveHead(p, y)
         IN  /\ TableInv(q) /\ Kept(p, q) /\ Settled(p, q)
             /\ q.table[0].tid = t /\ Known(q, t, 0)
<1>. DEFINE q == MoveHead(p, y)
<1>0. y \in Frames /\ 0 \in Frames /\ p.table[y].tid = t /\ p.table[y].page_num = 0
  BY FrameNumbers DEF HeadFrames, Holding
<1>1. /\ TableOK(q)
      /\ \A z \in Frames : q.table[z] = IF z = y THEN p.table[0]
                                        ELSE IF z = 0 THEN p.table[y] ELSE p.table[z]
      /\ q.numFreePagesMem = p.numFreePagesMem /\ q.numFreePagesSF = p.numFreePagesSF
  BY <1>0, MoveHeadIs DEF TableInv
<1>. HIDE DEF q
<1>2. q.table[0] = p.table[y] /\ q.table[y] = p.table[0]
  BY <1>0, <1>1
<1>3. Filled(q)
  <2>1. PICK u \in 0 .. Total : UsedUpto(p, u) /\ Counted(p, u)
    BY DEF TableInv, Filled
  <2>2. y < u /\ 0 < u
    BY <1>0, <2>1, FrameNumbers, NobodyAssumption DEF UsedUpto, FreeEntry
  <2>3. UsedUpto(q, u)
    BY <1>0, <1>1, <2>1, <2>2, FrameNumbers DEF UsedUpto
  <2>4. Counted(q, u)
    BY <1>1, <2>1 DEF Counted
  <2>. QED BY <2>3, <2>4 DEF Filled
<1>4. \A z \in Frames : q.table[z].page_num = p.table[z].page_num
  BY <1>0, <1>1 DEF TableInv, Numbered
<1>5. Kept(p, q)
  <2>. SUFFICES ASSUME NEW s \in Threads, NEW n \in Nat, Holding(p, s, n) # {} PROVE Holding(q, s, n) # {}
    BY DEF Kept
  <2>1. PICK z \in Frames : p.table[z].tid = s /\ p.table[z].page_num = n
    BY DEF Holding
  <2>2. \E x \in Frames : q.table[x] = p.table[z]
    BY <1>0, <1>1
  <2>. QED BY <2>1, <2>2, HoldingIs
<1>6. Numbered(q) /\ Settled(p, q)
  BY <1>0, <1>4 DEF TableInv, Numbered, Settled
<1>7. Gapless(q)
  <2>1. \A z \in Frames : \E x \in Frames : q.table[z] = p.table[x]
    BY <1>0, <1>1
  <2>. QED BY <1>5, <2>1, GaplessKept DEF TableInv
<1>8. Known(q, t, 0)
  BY <1>0, <1>2, HoldingIs DEF Known
<1>. QED BY <1>0, <1>1, <1>2, <1>3, <1>5, <1>6, <1>7, <1>8 DEF q, TableInv

\* A page that is counted is one less.
LEMMA CountedOne ==
  ASSUME NEW p, NEW q, NEW u \in 0 .. Total, Counted(p, u), u \in Frames,
         q.numFreePagesMem = p.numFreePagesMem - (IF u \in Memory THEN 1 ELSE 0),
         q.numFreePagesSF = p.numFreePagesSF - (IF u \in Memory THEN 0 ELSE 1)
  PROVE  u + 1 \in 0 .. Total /\ Counted(q, u + 1)
<1>1. u \in Nat /\ u < Total /\ (u \in Memory <=> u < MEMORY_PAGES) /\ Total = MEMORY_PAGES + SWAP_PAGES
  BY FrameNumbers DEF Total
<1>2. CASE u < MEMORY_PAGES
  <2>1. q.numFreePagesMem = MEMORY_PAGES - u - 1 /\ q.numFreePagesSF = SWAP_PAGES
    BY <1>1, <1>2, FrameNumbers DEF Counted
  <2>. QED BY <1>1, <1>2, <2>1, FrameNumbers DEF Counted
<1>3. CASE u >= MEMORY_PAGES
  <2>1. q.numFreePagesMem = 0 /\ q.numFreePagesSF = Total - u - 1
    BY <1>1, <1>3, FrameNumbers DEF Counted
  <2>. QED BY <1>1, <1>3, <2>1, FrameNumbers DEF Counted
<1>. QED BY <1>1, <1>2, <1>3, FrameNumbers

\* getHead() makes a first page of frame 0.
LEMMA NewHeadKeeps ==
  ASSUME NEW p, TableInv(p), NEW t \in Threads, Unused(p) # {}
  PROVE  LET f == First(Unused(p))
             q == NewHead(p, t, f)
         IN  /\ f \in Frames
             /\ TableInv(q) /\ Kept(p, q) /\ Settled(p, q)
             /\ q.table[0].tid = t /\ Known(q, t, 0)
<1>1. PICK u \in 0 .. Total : UsedUpto(p, u) /\ Counted(p, u)
  BY DEF TableInv, Filled
<1>2. First(Unused(p)) = u /\ u \in Frames
  BY <1>1, UnusedIs
<1>. DEFINE q == NewHead(p, t, u)
<1>3. /\ TableOK(q)
      /\ \A z \in Frames : q.table[z] = IF z = 0 THEN Entry(t, 0)
                                        ELSE IF z = u THEN p.table[0] ELSE p.table[z]
      /\ q.numFreePagesMem = p.numFreePagesMem - (IF u \in Memory THEN 1 ELSE 0)
      /\ q.numFreePagesSF = p.numFreePagesSF - (IF u \in Memory THEN 0 ELSE 1)
  BY <1>2, NewHeadIs DEF TableInv
<1>. HIDE DEF q
<1>4. p.table[u] = FreeEntry /\ p.table[u].page_num = 0 /\ p.table[u].tid = Nobody
  BY <1>1, <1>2, FrameNumbers DEF UsedUpto, FreeEntry
<1>5. /\ Entry(t, 0).tid = t /\ Entry(t, 0).page_num = 0 /\ Entry(t, 0).inUse = 1
      /\ 0 \in Frames /\ q.table[0] = Entry(t, 0)
  BY <1>3, EntryIs, FrameNumbers
<1>6. Filled(q)
  <2>1. u + 1 \in 0 .. Total /\ Counted(q, u + 1)
    BY <1>1, <1>2, <1>3, CountedOne
  <2>2. ASSUME NEW y \in Frames, y < u + 1 PROVE q.table[y].inUse = 1 /\ q.table[y].tid \in Threads
    <3>1. CASE y = 0
      BY <1>5, <3>1
    <3>2. CASE y # 0 /\ y = u
      <4>1. 0 < u
        BY <3>2, <1>2, FrameNumbers
      <4>. QED BY <1>1, <1>3, <1>5, <3>2, <4>1 DEF UsedUpto
    <3>3. CASE y # 0 /\ y # u
      <4>1. y < u
        BY <1>2, <2>2, <3>3, FrameNumbers
      <4>. QED BY <1>1, <1>3, <3>3, <4>1 DEF UsedUpto
    <3>. QED BY <3>1, <3>2, <3>3
  <2>3. ASSUME NEW y \in Frames, y >= u + 1 PROVE q.table[y] = FreeEntry
    <3>1. y # 0 /\ y # u /\ y >= u
      BY <1>2, <2>3, FrameNumbers
    <3>. QED BY <1>1, <1>3, <3>1 DEF UsedUpto
  <2>. QED BY <2>1, <2>2, <2>3 DEF Filled, UsedUpto
<1>7. \A z \in Frames : q.table[z].page_num = p.table[z].page_num
  BY <1>2, <1>3, <1>4, <1>5 DEF TableInv, Numbered
<1>8. Kept(p, q)
  <2>. SUFFICES ASSUME NEW s \in Threads, NEW n \in Nat, Holding(p, s, n) # {} PROVE Holding(q, s, n) # {}
    BY DEF Kept
  <2>1. PICK z \in Frames : p.table[z].tid = s /\ p.table[z].page_num = n
    BY DEF Holding
  <2>2. z # u
    BY <1>4, <2>1, NobodyAssumption
  <2>3. CASE z = 0
    <3>1. u # 0 /\ q.table[u] = p.table[0]
      BY <1>2, <1>3, <2>2, <2>3
    <3>. QED BY <1>2, <2>1, <2>3, <3>1, HoldingIs
  <2>4. CASE z # 0
    <3>1. q.table[z] = p.table[z]
      BY <1>3, <2>2, <2>4
    <3>. QED BY <2>1, <3>1, HoldingIs
  <2>. QED BY <2>3, <2>4
<1>9. Numbered(q) /\ Settled(p, q)
  BY <1>5, <1>7 DEF TableInv, Numbered, Settled
<1>10. Known(q, t, 0)
  BY <1>5, HoldingIs DEF Known
<1>11. Gapless(q)
  <2>1. ASSUME NEW y \in Frames
        PROVE  \/ \E z \in Frames : q.table[y] = p.table[z]
               \/ /\ q.table[y].page_num \in Nat
                  /\ \A n \in 0 .. q.table[y].page_num : Holding(q, q.table[y].tid, n) # {}
    <3>1. CASE y = 0
      <4>1. \A n \in 0 .. 0 : n = 0
        OBVIOUS
      <4>. QED BY <1>5, <1>10, <3>1, <4>1 DEF Known
    <3>2. CASE y # 0
      BY <1>3, <1>5, <3>2
    <3>. QED BY <3>1, <3>2
  <2>. QED BY <1>8, <2>1, GaplessKept DEF TableInv
<1>. QED BY <1>2, <1>3, <1>5, <1>6, <1>8, <1>9, <1>10, <1>11 DEF q, TableInv

\* A frame that was grown into is in use.
LEMMA KnownIsUsed ==
  ASSUME NEW p, TableInv(p), p.table[0].tid \in Threads, NEW t, NEW n, Known(p, t, n), Unused(p) # {}
  PROVE  n < First(Unused(p))
<1>1. PICK u \in 0 .. Total : UsedUpto(p, u)
  BY DEF TableInv, Filled
<1>2. First(Unused(p)) = u /\ u \in Frames
  BY <1>1, UnusedIs
<1>3. n \in Frames /\ p.table[n].page_num = n
  BY DEF Known
<1>4. p.table[n] # FreeEntry
  BY <1>3, NobodyAssumption, FrameNumbers DEF FreeEntry
<1>5. ~ (n >= u)
  BY <1>1, <1>3, <1>4 DEF UsedUpto
<1>. QED BY <1>2, <1>3, <1>5, FrameNumbers

\* requestPage() makes the first free frame the caller's, with the number 0.
LEMMA RequestPageKeeps ==
  ASSUME NEW p, TableInv(p), NEW t \in Threads, Unused(p) # {}
  PROVE  LET f == First(Unused(p))
             q == RequestPage(p, t, f)
         IN  /\ f \in Frames
             /\ TableInv(q) /\ Kept(p, q) /\ Settled(p, q)
             /\ q.table[f] = Entry(t, 0)
             /\ \A z \in Frames \ {f} : q.table[z] = p.table[z]
<1>1. PICK u \in 0 .. Total : UsedUpto(p, u) /\ Counted(p, u)
  BY DEF TableInv, Filled
<1>2. First(Unused(p)) = u /\ u \in Frames
  BY <1>1, UnusedIs
<1>4. p.table[u] = FreeEntry /\ p.table[u].page_num = 0 /\ p.table[u].tid = Nobody
  BY <1>1, <1>2, FrameNumbers DEF UsedUpto, FreeEntry
<1>. DEFINE q == RequestPage(p, t, u)
<1>3. /\ TableOK(q)
      /\ \A z \in Frames : q.table[z] = IF z = u THEN Entry(t, 0) ELSE p.table[z]
      /\ q.numFreePagesMem = p.numFreePagesMem - (IF u \in Memory THEN 1 ELSE 0)
      /\ q.numFreePagesSF = p.numFreePagesSF - (IF u \in Memory THEN 0 ELSE 1)
  BY <1>2, <1>4, RequestPageIs DEF TableInv
<1>. HIDE DEF q
<1>5. /\ Entry(t, 0).tid = t /\ Entry(t, 0).page_num = 0 /\ Entry(t, 0).inUse = 1
      /\ q.table[u] = Entry(t, 0)
  BY <1>2, <1>3, EntryIs, FrameNumbers
<1>6. Filled(q)
  <2>1. u + 1 \in 0 .. Total /\ Counted(q, u + 1)
    BY <1>1, <1>2, <1>3, CountedOne
  <2>2. ASSUME NEW y \in Frames, y < u + 1 PROVE q.table[y].inUse = 1 /\ q.table[y].tid \in Threads
    <3>1. CASE y = u
      BY <1>5, <3>1
    <3>2. CASE y # u
      <4>1. y < u
        BY <1>2, <2>2, <3>2, FrameNumbers
      <4>. QED BY <1>1, <1>3, <3>2, <4>1 DEF UsedUpto
    <3>. QED BY <3>1, <3>2
  <2>3. ASSUME NEW y \in Frames, y >= u + 1 PROVE q.table[y] = FreeEntry
    <3>1. y # u /\ y >= u
      BY <1>2, <2>3, FrameNumbers
    <3>. QED BY <1>1, <1>3, <3>1 DEF UsedUpto
  <2>. QED BY <2>1, <2>2, <2>3 DEF Filled, UsedUpto
<1>7. \A z \in Frames : q.table[z].page_num = p.table[z].page_num
  BY <1>2, <1>3, <1>4, <1>5
<1>8. Kept(p, q)
  <2>. SUFFICES ASSUME NEW s \in Threads, NEW n \in Nat, Holding(p, s, n) # {} PROVE Holding(q, s, n) # {}
    BY DEF Kept
  <2>1. PICK z \in Frames : p.table[z].tid = s /\ p.table[z].page_num = n
    BY DEF Holding
  <2>2. z # u
    BY <1>4, <2>1, NobodyAssumption
  <2>3. q.table[z] = p.table[z]
    BY <1>3, <2>2
  <2>. QED BY <2>1, <2>3, HoldingIs
<1>9. Numbered(q) /\ Settled(p, q)
  BY <1>7, FrameNumbers DEF TableInv, Numbered, Settled
<1>10. Gapless(q)
  <2>1. ASSUME NEW y \in Frames
        PROVE  \/ \E z \in Frames : q.table[y] = p.table[z]
               \/ /\ q.table[y].page_num \in Nat
                  /\ \A n \in 0 .. q.table[y].page_num : Holding(q, q.table[y].tid, n) # {}
    <3>1. CASE y = u
      <4>1. \A n \in 0 .. 0 : n = 0
        OBVIOUS
      <4>2. Holding(q, t, 0) # {}
        BY <1>2, <1>5, HoldingIs
      <4>. QED BY <1>5, <3>1, <4>1, <4>2
    <3>2. CASE y # u
      BY <1>3, <3>2
    <3>. QED BY <3>1, <3>2
  <2>. QED BY <1>8, <2>1, GaplessKept DEF TableInv
<1>. QED BY <1>2, <1>3, <1>5, <1>6, <1>8, <1>9, <1>10 DEF q, TableInv

\* Frame next becomes the caller's page after the one whose number is next - 1,
\* and what it held moves to the frame that was requested.
LEMMA TakeNextKeeps ==
  ASSUME NEW p, TableInv(p), NEW t \in Threads, NEW f \in Frames \ {0}, NEW next \in Nat \ {0},
         p.table[f] = Entry(t, 0), p.table[0].tid = t, Known(p, t, next - 1), next <= f
  PROVE  LET q == TakeNext(p, t, f, next)
         IN  /\ next \in Frames /\ NextNumber(p, next) = next
             /\ TableInv(q) /\ Kept(p, q) /\ Settled(p, q)
             /\ q.table[0] = p.table[0] /\ Known(q, t, next)
<1>1. next \in Frames /\ next - 1 \in Frames /\ NextNumber(p, next) = next
  BY FrameNumbers DEF Known, NextNumber
<1>. DEFINE q == TakeNext(p, t, f, next)
<1>2. /\ TableOK(q)
      /\ \A z \in Frames : q.table[z] = IF z = next THEN Entry(t, next)
                                        ELSE IF z = f THEN p.table[next] ELSE p.table[z]
      /\ q.numFreePagesMem = p.numFreePagesMem /\ q.numFreePagesSF = p.numFreePagesSF
  BY <1>1, TakeNextIs DEF TableInv
<1>. HIDE DEF q
<1>3. /\ Entry(t, next).tid = t /\ Entry(t, next).page_num = next /\ Entry(t, next).inUse = 1
      /\ q.table[next] = Entry(t, next)
      /\ p.table[f].tid = t /\ p.table[f].page_num = 0 /\ p.table[f].inUse = 1
  BY <1>1, <1>2, EntryIs
<1>4. 0 \in Frames /\ q.table[0] = p.table[0] /\ p.table[0].page_num = 0
  BY <1>2, FrameNumbers DEF TableInv, Numbered
<1>5. Filled(q)
  <2>1. PICK u \in 0 .. Total : UsedUpto(p, u) /\ Counted(p, u)
    BY DEF TableInv, Filled
  <2>2. f < u /\ next < u
    <3>1. ~ (f >= u)
      BY <1>3, <2>1, NobodyAssumption DEF UsedUpto, FreeEntry
    <3>. QED BY <3>1, FrameNumbers
  <2>3. ASSUME NEW y \in Frames, y < u PROVE q.table[y].inUse = 1 /\ q.table[y].tid \in Threads
    BY <1>1, <1>2, <1>3, <2>1, <2>2, <2>3 DEF UsedUpto
  <2>4. ASSUME NEW y \in Frames, y >= u PROVE q.table[y] = FreeEntry
    <3>1. y # f /\ y # next
      BY <2>2, <2>4, FrameNumbers
    <3>. QED BY <1>2, <2>1, <2>4, <3>1 DEF UsedUpto
  <2>5. Counted(q, u)
    BY <1>2, <2>1 DEF Counted
  <2>. QED BY <2>3, <2>4, <2>5 DEF Filled, UsedUpto
<1>6. Settled(p, q)
  <2>. SUFFICES ASSUME NEW n \in Frames, p.table[n].page_num = n PROVE q.table[n].page_num = n
    BY DEF Settled
  <2>1. n # f
    BY <1>3
  <2>. QED BY <1>2, <1>3, <2>1
<1>7. Kept(p, q)
  <2>. SUFFICES ASSUME NEW s \in Threads, NEW n \in Nat, Holding(p, s, n) # {} PROVE Holding(q, s, n) # {}
    BY DEF Kept
  <2>1. PICK z \in Frames : p.table[z].tid = s /\ p.table[z].page_num = n
    BY DEF Holding
  <2>2. CASE z = f
    BY <1>3, <1>4, <2>1, <2>2, HoldingIs
  <2>3. CASE z # f /\ z = next
    <3>1. q.table[f] = p.table[z]
      BY <1>2, <2>3
    <3>. QED BY <2>1, <3>1, HoldingIs
  <2>4. CASE z # f /\ z # next
    <3>1. q.table[z] = p.table[z]
      BY <1>2, <2>4
    <3>. QED BY <2>1, <3>1, HoldingIs
  <2>. QED BY <2>2, <2>3, <2>4
<1>8. Numbered(q)
  <2>. SUFFICES ASSUME NEW y \in Frames
                PROVE  q.table[y].page_num \in Frames /\ q.table[q.table[y].page_num].page_num = q.table[y].page_num
    BY <1>4 DEF Numbered
  <2>1. CASE y = next
    BY <1>1, <1>3, <2>1
  <2>2. CASE y # next
    <3>1. PICK z \in Frames : q.table[y] = p.table[z]
      BY <1>1, <1>2, <2>2
    <3>2. p.table[z].page_num \in Frames /\ p.table[p.table[z].page_num].page_num = p.table[z].page_num
      BY DEF TableInv, Numbered
    <3>. QED BY <1>6, <3>1, <3>2 DEF Settled
  <2>. QED BY <2>1, <2>2
<1>9. Holding(q, t, next) # {}
  BY <1>1, <1>3, HoldingIs
<1>10. Gapless(q)
  <2>1. ASSUME NEW y \in Frames
        PROVE  \/ \E z \in Frames : q.table[y] = p.table[z]
               \/ /\ q.table[y].page_num \in Nat
                  /\ \A n \in 0 .. q.table[y].page_num : Holding(q, q.table[y].tid, n) # {}
    <3>1. CASE y = next
      <4>1. PICK z \in Frames : p.table[z].tid = t /\ p.table[z].page_num = next - 1
        BY DEF Known, Holding
      <4>2. \A n \in 0 .. (next - 1) : Holding(p, t, n) # {}
        BY <4>1 DEF TableInv, Gapless
      <4>3. \A n \in 0 .. next : n \in Nat /\ (n = next \/ n \in 0 .. (next - 1))
        OBVIOUS
      <4>4. \A n \in 0 .. next : Holding(q, t, n) # {}
        BY <1>7, <1>9, <4>2, <4>3 DEF Kept
      <4>. QED BY <1>3, <3>1, <4>4
    <3>2. CASE y # next
      BY <1>1, <1>2, <3>2
    <3>. QED BY <3>1, <3>2
  <2>. QED BY <1>7, <2>1, GaplessKept DEF TableInv
<1>11. Known(q, t, next)
  BY <1>1, <1>3, <1>9 DEF Known
<1>. QED BY <1>1, <1>2, <1>4, <1>5, <1>6, <1>7, <1>8, <1>10, <1>11 DEF q, TableInv

-----------------------------------------------------------------------------
(***************************************************************************)
(* The bytes                                                               *)
(***************************************************************************)

\* The bytes of a page are somewhere only if it is in the table and its frame
\* was grown into.
DataInv(p, fr) ==
  \A y \in Frames : \A t \in Threads, n \in Nat : fr.data[y] = <<t, n>> => Known(p, t, n)

PagesInv(p, fr) == TableInv(p) /\ FramesOK(fr) /\ DataInv(p, fr)

LEMMA DataFollows ==
  ASSUME NEW p, NEW q, NEW fr, DataInv(p, fr), Kept(p, q), Settled(p, q)
  PROVE  DataInv(q, fr)
BY KnownKept DEF DataInv

\* Bytes that are only moved, or zeroed, are those of pages as before.
LEMMA DataMoves ==
  ASSUME NEW p, NEW fr, NEW gr, DataInv(p, fr),
         \A y \in Frames : \/ gr.data[y] = Blank
                           \/ \E z \in Frames : gr.data[y] = fr.data[z]
                           \/ \E t \in Threads, n \in Nat : gr.data[y] = <<t, n>> /\ Known(p, t, n)
  PROVE  DataInv(p, gr)
<1>. SUFFICES ASSUME NEW y \in Frames, NEW t \in Threads, NEW n \in Nat, gr.data[y] = <<t, n>>
              PROVE  Known(p, t, n)
  BY DEF DataInv
<1>1. CASE gr.data[y] = Blank
  <2>1. <<t, n>> \in Threads \X Nat
    OBVIOUS
  <2>. QED BY <1>1, <2>1, BlankAssumption
<1>2. CASE \E z \in Frames : gr.data[y] = fr.data[z]
  BY <1>2 DEF DataInv
<1>3. CASE \E s \in Threads, m \in Nat : gr.data[y] = <<s, m>> /\ Known(p, s, m)
  <2>1. PICK s \in Threads, m \in Nat : gr.data[y] = <<s, m>> /\ Known(p, s, m)
    BY <1>3
  <2>2. s = t /\ m = n
    BY <2>1
  <2>. QED BY <2>1, <2>2
<1>. QED BY <1>1, <1>2, <1>3

LEMMA HoldingFrames ==
  ASSUME NEW p, TableInv(p), NEW t, NEW n, Holding(p, t, n) # {}
  PROVE  n \in Frames /\ First(Holding(p, t, n)) \in Frames
<1>1. n \in Frames
  BY DEF Holding, TableInv, Numbered
<1>2. Holding(p, t, n) \in SUBSET Frames
  BY DEF Holding
<1>. QED BY <1>1, <1>2, LeastFrame

Statuses == {"ok", "exit", "hang", "alien", "wild"}
Bytes    == (Threads \X Nat) \cup {Blank}
Data     == [Frames -> Bytes]

LEMMA FrameFields ==
  ASSUME NEW fr
  PROVE  FramesOK(fr) <=> fr \in [data : Data, open : SUBSET Frames, status : Statuses]
BY DEF FramesOK, Data, Bytes, Statuses

LEMMA NewStatus ==
  ASSUME NEW fr, FramesOK(fr), NEW e \in Statuses
  PROVE  LET g == [fr EXCEPT !.status = e]
         IN  FramesOK(g) /\ g.data = fr.data /\ g.open = fr.open /\ g.status = e
BY FrameFields

\* Two frames exchange their bytes, or the first gets new ones.
Rewritten(fr, g, y, a, z, b, o) == g = [fr EXCEPT !.data[y] = a, !.data[z] = b, !.open = o]

LEMMA NewData ==
  ASSUME NEW fr, FramesOK(fr), NEW y \in Frames, NEW z \in Frames,
         NEW a \in Bytes, NEW b \in Bytes,
         NEW o \in SUBSET Frames, NEW g, Rewritten(fr, g, y, a, z, b, o)
  PROVE  /\ FramesOK(g) /\ g.status = fr.status /\ g.open = o
         /\ \A x \in Frames : g.data[x] = IF x = z THEN b ELSE IF x = y THEN a ELSE fr.data[x]
<1>. DEFINE one == [fr EXCEPT !.data[y] = a]
            two == [one EXCEPT !.data[z] = b]
<1>1. fr \in [data : Data, open : SUBSET Frames, status : Statuses]
  BY FrameFields
<1>2. /\ one \in [data : Data, open : SUBSET Frames, status : Statuses]
      /\ one.status = fr.status /\ one.open = fr.open
      /\ \A x \in Frames : one.data[x] = IF x = y THEN a ELSE fr.data[x]
  BY <1>1 DEF Data
<1>. HIDE DEF one
<1>3. /\ two \in [data : Data, open : SUBSET Frames, status : Statuses]
      /\ two.status = one.status /\ two.open = one.open
      /\ \A x \in Frames : two.data[x] = IF x = z THEN b ELSE one.data[x]
  BY <1>2 DEF Data
<1>4. [fr EXCEPT !.data[y] = a, !.data[z] = b, !.open = o] = [two EXCEPT !.open = o]
  BY DEF one
<1>. HIDE DEF two
<1>5. g = [two EXCEPT !.open = o]
  BY <1>4 DEF Rewritten
<1>. QED BY <1>2, <1>3, <1>5, FrameFields

LEMMA DataAt ==
  ASSUME NEW fr, FramesOK(fr), NEW y \in Frames
  PROVE  fr.data[y] \in Bytes /\ fr.open \in SUBSET Frames /\ fr.status \in Statuses
BY DEF FramesOK, Bytes, Statuses

\* The handler's swap: no page is lost or made up.
LEMMA SwapPageKeeps ==
  ASSUME NEW p, NEW fr, PagesInv(p, fr), NEW t, NEW n
  PROVE  LET s == SwapPage(p, fr, t, n)
         IN  /\ PagesInv(p, s)
             /\ s.status = "ok" => fr.status = "ok" /\ n \in Frames
<1>. DEFINE s == SwapPage(p, fr, t, n)
<1>0. TableInv(p) /\ FramesOK(fr) /\ DataInv(p, fr) /\ fr.status \in Statuses
  BY DataAt, FrameNumbers DEF PagesInv
<1>1. CASE Holding(p, t, n) = {}
  <2>1. s = [fr EXCEPT !.status = "exit"]
    BY <1>1 DEF SwapPage
  <2>2. "exit" \in Statuses
    BY DEF Statuses
  <2>3. FramesOK(s) /\ s.data = fr.data /\ s.status = "exit"
    BY <1>0, <2>1, <2>2, NewStatus
  <2>4. DataInv(p, s)
    BY <1>0, <2>3 DEF DataInv
  <2>. QED BY <1>0, <2>3, <2>4 DEF PagesInv
<1>2. CASE Holding(p, t, n) # {}
  <2>. DEFINE y == First(Holding(p, t, n))
              o == (fr.open \cup {n}) \ {y}
  <2>1. y \in Frames /\ n \in Frames
    BY <1>0, <1>2, HoldingFrames
  <2>2. s = [fr EXCEPT !.data[y] = fr.data[n], !.data[n] = fr.data[y], !.open = (@ \cup {n}) \ {y}]
    BY <1>2 DEF SwapPage
  <2>. HIDE DEF y
  <2>3. /\ fr.data[n] \in Bytes /\ fr.data[y] \in Bytes
        /\ o \in SUBSET Frames
    BY <1>0, <2>1, DataAt
  <2>4. Rewritten(fr, s, y, fr.data[n], n, fr.data[y], o)
    BY <1>0, <2>2 DEF FramesOK, Rewritten
  <2>. HIDE DEF o, s
  <2>5. /\ FramesOK(s) /\ s.status = fr.status
        /\ \A x \in Frames : s.data[x] = IF x = n THEN fr.data[y] ELSE IF x = y THEN fr.data[n] ELSE fr.data[x]
    <3>1. PICK a \in Bytes, b \in Bytes : a = fr.data[n] /\ b = fr.data[y]
      BY <2>3
    <3>2. Rewritten(fr, s, y, a, n, b, o) /\ FramesOK(fr) /\ o \in SUBSET Frames
      BY <1>0, <2>3, <2>4, <3>1
    <3>3. /\ FramesOK(s) /\ s.status = fr.status
          /\ \A x \in Frames : s.data[x] = IF x = n THEN b ELSE IF x = y THEN a ELSE fr.data[x]
      BY <2>1, <3>2, NewData
    <3>. QED BY <3>1, <3>3
  <2>6. \A x \in Frames : \E z \in Frames : s.data[x] = fr.data[z]
    BY <2>1, <2>5
  <2>7. DataInv(p, s)
    BY <1>0, <2>6, DataMoves
  <2>. QED BY <1>0, <2>1, <2>5, <2>7 DEF PagesInv, s
<1>. QED BY <1>1, <1>2

LEMMA StatusKeeps ==
  ASSUME NEW p, NEW fr, PagesInv(p, fr), NEW e \in Statuses
  PROVE  LET g == [fr EXCEPT !.status = e]
         IN  PagesInv(p, g) /\ g.status = e
<1>. DEFINE g == [fr EXCEPT !.status = e]
<1>1. FramesOK(g) /\ g.data = fr.data /\ g.status = e
  BY NewStatus DEF PagesInv
<1>2. DataInv(p, g)
  BY <1>1 DEF PagesInv, DataInv
<1>. QED BY <1>1, <1>2 DEF PagesInv

\* Whoever reads or writes page n of t and is not stopped has found it.
LEMMA AccessKeeps ==
  ASSUME NEW p, NEW fr, PagesInv(p, fr), NEW t \in Threads, NEW n \in Nat
  PROVE  LET s == Access(p, fr, t, n)
         IN  /\ PagesInv(p, s)
             /\ s.status = "ok" => fr.status = "ok" /\ Known(p, t, n)
<1>. DEFINE s == IF n \in fr.open THEN fr ELSE SwapPage(p, fr, t, n)
            a == Access(p, fr, t, n)
<1>1. PagesInv(p, s) /\ (s.status = "ok" => fr.status = "ok")
  BY SwapPageKeeps
<1>2. /\ fr.status # "ok" => a = fr
      /\ fr.status = "ok" /\ s.status # "ok" => a = s
      /\ fr.status = "ok" /\ s.status = "ok" /\ n \notin s.open => a = [s EXCEPT !.status = "hang"]
      /\ fr.status = "ok" /\ s.status = "ok" /\ n \in s.open =>
           a = IF s.data[n] = <<t, n>> THEN s ELSE [s EXCEPT !.status = "alien"]
  BY DEF Access
<1>. HIDE DEF s, a
<1>3. \A e \in Statuses : LET g == [s EXCEPT !.status = e] IN PagesInv(p, g) /\ g.status = e
  BY <1>1, StatusKeeps
<1>4. "hang" \in Statuses /\ "alien" \in Statuses
  BY DEF Statuses
<1>5. CASE fr.status # "ok"
  BY <1>2, <1>5 DEF a
<1>6. CASE fr.status = "ok" /\ s.status # "ok"
  BY <1>1, <1>2, <1>6 DEF a
<1>7. CASE fr.status = "ok" /\ s.status = "ok" /\ n \notin s.open
  <2>1. PagesInv(p, a) /\ a.status = "hang"
    BY <1>2, <1>3, <1>4, <1>7
  <2>. QED BY <2>1 DEF a
<1>8. CASE fr.status = "ok" /\ s.status = "ok" /\ n \in s.open
  <2>1. CASE s.data[n] = <<t, n>>
    <3>1. a = s
      BY <1>2, <1>8, <2>1
    <3>2. n \in Frames
      BY <1>1, <1>8 DEF PagesInv, FramesOK
    <3>3. Known(p, t, n)
      BY <1>1, <2>1, <3>2 DEF PagesInv, DataInv
    <3>. QED BY <1>1, <1>8, <3>1, <3>3 DEF a
  <2>2. CASE s.data[n] # <<t, n>>
    <3>1. PagesInv(p, a) /\ a.status = "alien"
      BY <1>2, <1>3, <1>4, <1>8, <2>2
    <3>. QED BY <3>1 DEF a
  <2>. QED BY <2>1, <2>2
<1>. QED BY <1>5, <1>6, <1>7, <1>8

\* A page's bytes go to a free frame, and its own frame gets another page's.
LEMMA SwapEmptyPageKeeps ==
  ASSUME NEW p, NEW fr, PagesInv(p, fr), NEW f \in Frames, NEW y \in Frames,
         NEW t \in Threads, NEW n \in Nat, Known(p, t, n)
  PROVE  LET s == SwapEmptyPage(fr, f, y, <<t, n>>)
         IN  PagesInv(p, s) /\ s.status = fr.status
<1>. DEFINE s == SwapEmptyPage(fr, f, y, <<t, n>>)
            o == (fr.open \ {f}) \cup {y}
<1>0. TableInv(p) /\ FramesOK(fr) /\ DataInv(p, fr)
  BY DEF PagesInv
<1>1. /\ fr.data[y] \in Bytes /\ <<t, n>> \in Bytes
      /\ o \in SUBSET Frames
  <2>1. <<t, n>> \in Bytes
    BY DEF Bytes
  <2>. QED BY <1>0, <2>1, DataAt
<1>2. Rewritten(fr, s, f, fr.data[y], y, <<t, n>>, o)
  BY <1>0 DEF SwapEmptyPage, FramesOK, Rewritten
<1>. HIDE DEF s, o
<1>3. /\ FramesOK(s) /\ s.status = fr.status
      /\ \A x \in Frames : s.data[x] = IF x = y THEN <<t, n>> ELSE IF x = f THEN fr.data[y] ELSE fr.data[x]
  <2>1. PICK a \in Bytes, b \in Bytes : a = fr.data[y] /\ b = <<t, n>>
    BY <1>1
  <2>2. Rewritten(fr, s, f, a, y, b, o) /\ FramesOK(fr) /\ o \in SUBSET Frames
    BY <1>0, <1>1, <1>2, <2>1
  <2>3. PICK g, e : g = s /\ e = o
    OBVIOUS
  <2>4. /\ FramesOK(g) /\ g.status = fr.status
        /\ \A x \in Frames : g.data[x] = IF x = y THEN b ELSE IF x = f THEN a ELSE fr.data[x]
    <3>1. Rewritten(fr, g, f, a, y, b, e) /\ FramesOK(fr) /\ e \in SUBSET Frames
      BY <2>2, <2>3
    <3>. QED BY <3>1, NewData
  <2>. QED BY <2>1, <2>3, <2>4
<1>4. DataInv(p, s)
  <2>1. \A x \in Frames : \/ \E z \in Frames : s.data[x] = fr.data[z]
                          \/ \E r \in Threads, m \in Nat : s.data[x] = <<r, m>> /\ Known(p, r, m)
    BY <1>3
  <2>. QED BY <1>0, <2>1, DataMoves
<1>. QED BY <1>0, <1>3, <1>4 DEF s, PagesInv

\* getHead()'s exchange of frames 0 and y, with a fault on the way or without.
LEMMA MoveHeadBytesKeeps ==
  ASSUME NEW p, NEW fr, PagesInv(p, fr), NEW t \in Threads, NEW y \in Frames
  PROVE  PagesInv(p, MoveHeadBytes(p, fr, t, y))
<1>. DEFINE m == MoveHeadBytes(p, fr, t, y)
            s == [fr EXCEPT !.open = @ \cup {0}]
            r == SwapPage(p, s, t, y)
<1>0. TableInv(p) /\ FramesOK(fr) /\ DataInv(p, fr) /\ 0 \in Frames /\ y \in Nat
  BY FrameNumbers DEF PagesInv
<1>1. /\ y = 0 => m = fr
      /\ y # 0 /\ y \in fr.open => m = [s EXCEPT !.data[0] = fr.data[y], !.data[y] = fr.data[0], !.open = @ \ {y}]
      /\ y # 0 /\ y \notin fr.open /\ r.status # "ok" => m = r
      /\ y # 0 /\ y \notin fr.open /\ r.status = "ok" =>
           m = [r EXCEPT !.data[0] = r.data[y], !.data[y] = Blank, !.open = @ \ {y}]
  BY DEF MoveHeadBytes
<1>2. /\ FramesOK(s) /\ s.data = fr.data
      /\ s.open = fr.open \cup {0}
  BY <1>0 DEF FramesOK
<1>3. PagesInv(p, s)
  BY <1>0, <1>2 DEF PagesInv, DataInv
<1>. HIDE DEF s
<1>4. PagesInv(p, r)
  BY <1>3, SwapPageKeeps
<1>. HIDE DEF r, m
<1>5. ASSUME NEW g, PagesInv(p, g), NEW a, NEW b,
             a = Blank \/ \E z \in Frames : a = g.data[z],
             b = Blank \/ \E z \in Frames : b = g.data[z],
             NEW h, h = [g EXCEPT !.data[0] = a, !.data[y] = b, !.open = @ \ {y}]
      PROVE  PagesInv(p, h)
  <2>. DEFINE o == g.open \ {y}
  <2>1. FramesOK(g) /\ o \in SUBSET Frames /\ Rewritten(g, h, 0, a, y, b, o)
    BY <1>5 DEF PagesInv, FramesOK, Rewritten
  <2>. HIDE DEF o
  <2>2. a \in Bytes /\ b \in Bytes
    BY <1>5, <2>1, DataAt DEF Bytes
  <2>3. /\ FramesOK(h)
        /\ \A x \in Frames : h.data[x] = IF x = y THEN b ELSE IF x = 0 THEN a ELSE g.data[x]
    BY <1>0, <2>1, <2>2, NewData
  <2>4. \A x \in Frames : \/ h.data[x] = Blank
                          \/ \E z \in Frames : h.data[x] = g.data[z]
                          \/ \E u \in Threads, k \in Nat : h.data[x] = <<u, k>> /\ Known(p, u, k)
    BY <1>5, <2>3
  <2>5. DataInv(p, h)
    <3>1. DataInv(p, g)
      BY <1>5 DEF PagesInv
    <3>. QED BY <2>4, <3>1, DataMoves
  <2>. QED BY <1>0, <2>3, <2>5 DEF PagesInv
<1>6. CASE y = 0
  BY <1>1, <1>6 DEF m
<1>7. CASE y # 0 /\ y \in fr.open
  <2>1. m = [s EXCEPT !.data[0] = s.data[y], !.data[y] = s.data[0], !.open = @ \ {y}]
    BY <1>1, <1>2, <1>7
  <2>. QED BY <1>0, <1>3, <1>5, <2>1 DEF m
<1>8. CASE y # 0 /\ y \notin fr.open /\ r.status # "ok"
  BY <1>1, <1>4, <1>8 DEF m
<1>9. CASE y # 0 /\ y \notin fr.open /\ r.status = "ok"
  <2>1. m = [r EXCEPT !.data[0] = r.data[y], !.data[y] = Blank, !.open = @ \ {y}]
    BY <1>1, <1>9
  <2>. QED BY <1>0, <1>4, <1>5, <2>1 DEF m
<1>. QED BY <1>6, <1>7, <1>8, <1>9

\* Opening and protecting pages leaves their bytes.
LEMMA OpenKeeps ==
  ASSUME NEW p, NEW fr, PagesInv(p, fr), NEW o \in SUBSET Frames
  PROVE  LET g == [fr EXCEPT !.open = o]
         IN  PagesInv(p, g) /\ g.status = fr.status
<1>. DEFINE g == [fr EXCEPT !.open = o]
<1>1. FramesOK(g) /\ g.data = fr.data /\ g.status = fr.status
  BY DEF PagesInv, FramesOK
<1>. QED BY <1>1 DEF PagesInv, DataInv

\* initAll(): nothing is in use, and nothing holds bytes.
LEMMA InitPages ==
  /\ TableInv(InitTable) /\ \A y \in Frames : InitTable.table[y] = FreeEntry
  /\ FramesOK(InitFrames) /\ \A y \in Frames : InitFrames.data[y] = Blank
<1>. PICK p : p = InitTable
  OBVIOUS
<1>1. FreeEntry \in PageMeta /\ FreeEntry.tid = Nobody /\ FreeEntry.inUse = 0 /\ FreeEntry.page_num = 0
  BY DEF FreeEntry, PageMeta
<1>2. /\ \A y \in Frames : p.table[y] = FreeEntry
      /\ p.numFreePagesMem = MEMORY_PAGES /\ p.numFreePagesSF = SWAP_PAGES
      /\ TableOK(p)
  BY <1>1, FrameNumbers DEF InitTable, TableOK
<1>3. Filled(p)
  <2>1. 0 \in 0 .. Total /\ 0 <= MEMORY_PAGES
    BY FrameNumbers
  <2>2. UsedUpto(p, 0)
    BY <1>2, FrameNumbers DEF UsedUpto
  <2>3. Counted(p, 0)
    BY <1>2, FrameNumbers DEF Counted
  <2>. QED BY <2>1, <2>2, <2>3 DEF Filled
<1>4. TableInv(p)
  <2>1. Numbered(p)
    BY <1>1, <1>2, FrameNumbers DEF Numbered
  <2>2. Gapless(p)
    BY <1>1, <1>2, NobodyAssumption DEF Gapless
  <2>. QED BY <1>2, <1>3, <2>1, <2>2 DEF TableInv
<1>5. FramesOK(InitFrames) /\ \A y \in Frames : InitFrames.data[y] = Blank
  BY DEF InitFrames, FramesOK
<1>. QED BY <1>2, <1>4, <1>5

-----------------------------------------------------------------------------
(***************************************************************************)
(* The headers of the allocators                                           *)
(***************************************************************************)

\* Meta: what prev can be differs.
Headers(Q) == [at : Nat, size : Nat \ {0}, is_free : {0, 1}, prev : Q]

Header(at, size, e, q) == [at |-> at, size |-> size, is_free |-> e, prev |-> q]

LEMMA HeaderIs ==
  ASSUME NEW Q, NEW at \in Nat, NEW size \in Nat \ {0}, NEW e \in {0, 1}, NEW q \in Q
  PROVE  Header(at, size, e, q) \in Headers(Q)
BY DEF Header, Headers

LEMMA HeaderAt ==
  ASSUME NEW Q, NEW h \in Seq(Headers(Q)), NEW i \in 1 .. Len(h)
  PROVE  /\ h[i] \in Headers(Q)
         /\ h[i].at \in Nat /\ h[i].size \in Nat \ {0}
         /\ h[i].is_free \in {0, 1} /\ h[i].prev \in Q
<1>1. h[i] \in Headers(Q)
  BY ElementOfSeq
<1>. QED BY <1>1 DEF Headers

\* The fields of header i are written.
Resized(h, i, size, e) == [h EXCEPT ![i].size = size, ![i].is_free = e]

LEMMA ResizeHeader ==
  ASSUME NEW Q, NEW h \in Seq(Headers(Q)), NEW i \in 1 .. Len(h), NEW size \in Nat \ {0}, NEW e \in {0, 1},
         NEW g, g = Resized(h, i, size, e)
  PROVE  /\ g \in Seq(Headers(Q)) /\ Len(g) = Len(h)
         /\ \A j \in 1 .. Len(h) : g[j] = IF j = i THEN Header(h[i].at, size, e, h[i].prev) ELSE h[j]
<1>. DEFINE b == Header(h[i].at, size, e, h[i].prev)
<1>1. h[i] \in Headers(Q) /\ b \in Headers(Q)
  BY HeaderAt, HeaderIs
<1>2. [[h[i] EXCEPT !.size = size] EXCEPT !.is_free = e] = b
  <2>1. \A r \in Headers(Q) : [[r EXCEPT !.size = size] EXCEPT !.is_free = e]
                          = [at |-> r.at, size |-> size, is_free |-> e, prev |-> r.prev]
    <3>1. \A r \in Headers(Q) : r = [at |-> r.at, size |-> r.size, is_free |-> r.is_free, prev |-> r.prev]
      BY DEF Headers
    <3>2. \A x, y, z, w, r : r = [at |-> x, size |-> y, is_free |-> z, prev |-> w] =>
            [r EXCEPT !.size = size] = [at |-> x, size |-> size, is_free |-> z, prev |-> w]
      OBVIOUS
    <3>3. \A x, y, z, w, r : r = [at |-> x, size |-> y, is_free |-> z, prev |-> w] =>
            [r EXCEPT !.is_free = e] = [at |-> x, size |-> y, is_free |-> e, prev |-> w]
      OBVIOUS
    <3>4. ASSUME NEW r \in Headers(Q)
          PROVE  [[r EXCEPT !.size = size] EXCEPT !.is_free = e]
                   = [at |-> r.at, size |-> size, is_free |-> e, prev |-> r.prev]
      <4>1. [r EXCEPT !.size = size] = [at |-> r.at, size |-> size, is_free |-> r.is_free, prev |-> r.prev]
        BY <3>1, <3>2
      <4>2. PICK m : m = [r EXCEPT !.size = size]
        OBVIOUS
      <4>3. m = [at |-> r.at, size |-> size, is_free |-> r.is_free, prev |-> r.prev]
        BY <4>1, <4>2
      <4>4. [m EXCEPT !.is_free = e] = [at |-> r.at, size |-> size, is_free |-> e, prev |-> r.prev]
        BY <3>3, <4>3
      <4>. QED BY <4>2, <4>4, Zenon
    <3>. QED BY <3>4
  <2>. QED BY <1>1, <2>1 DEF Header
<1>3. h \in [1 .. Len(h) -> Headers(Q)]
  BY LenProperties
<1>4. [h EXCEPT ![i].size = size, ![i].is_free = e] = [h EXCEPT ![i] = b]
  <2>. DEFINE m == [h EXCEPT ![i].size = size]
  <2>1. m[i] = [h[i] EXCEPT !.size = size] /\ m = [h EXCEPT ![i] = m[i]]
    BY <1>3
  <2>2. [h EXCEPT ![i].size = size, ![i].is_free = e] = [m EXCEPT ![i] = b]
    BY <1>2, <2>1
  <2>3. [m EXCEPT ![i] = b] = [h EXCEPT ![i] = b]
    BY <1>3, <2>1
  <2>. QED BY <2>2, <2>3
<1>. HIDE DEF b
<1>5. g = [h EXCEPT ![i] = b]
  BY <1>4 DEF Resized
<1>6. /\ [h EXCEPT ![i] = b] \in Seq(Headers(Q)) /\ Len([h EXCEPT ![i] = b]) = Len(h)
      /\ \A j \in 1 .. Len(h) : [h EXCEPT ![i] = b][j] = IF j = i THEN b ELSE h[j]
  BY <1>1, ExceptSeq
<1>. QED BY <1>5, <1>6 DEF b

\* Nothing else of a block that is free changes when it grows, nor of one that is
\* handed out or given back as it is.
Grown(h, i, n) == [h EXCEPT ![i].size = @ + n]
Marked(h, i, e) == [h EXCEPT ![i].is_free = e]

LEMMA RefitHeader ==
  ASSUME NEW Q, NEW h \in Seq(Headers(Q)), NEW i \in 1 .. Len(h)
  PROVE  /\ \A n : Grown(h, i, n) = Resized(h, i, h[i].size + n, h[i].is_free)
         /\ \A e : Marked(h, i, e) = Resized(h, i, h[i].size, e)
<1>1. h \in [1 .. Len(h) -> Headers(Q)] /\ h[i] \in Headers(Q)
  BY LenProperties, HeaderAt
<1>2. \A a, b : [h EXCEPT ![i].size = a, ![i].is_free = b] = [h EXCEPT ![i] = [[h[i] EXCEPT !.size = a] EXCEPT !.is_free = b]]
  BY <1>1
<1>3. \A a : [h EXCEPT ![i].size = a] = [h EXCEPT ![i] = [h[i] EXCEPT !.size = a]]
  BY <1>1
<1>4. \A b : [h EXCEPT ![i].is_free = b] = [h EXCEPT ![i] = [h[i] EXCEPT !.is_free = b]]
  BY <1>1
<1>5. /\ \A a : [[h[i] EXCEPT !.size = a] EXCEPT !.is_free = h[i].is_free] = [h[i] EXCEPT !.size = a]
      /\ \A b : [[h[i] EXCEPT !.size = h[i].size] EXCEPT !.is_free = b] = [h[i] EXCEPT !.is_free = b]
  BY <1>1 DEF Headers
<1>6. \A n : [h EXCEPT ![i].size = @ + n] = [h EXCEPT ![i] = [h[i] EXCEPT !.size = h[i].size + n]]
  BY <1>1
<1>7. \A n : Grown(h, i, n) = Resized(h, i, h[i].size + n, h[i].is_free)
  <2>. SUFFICES ASSUME NEW n, NEW a, a = h[i].size + n
                PROVE  [h EXCEPT ![i].size = @ + n] = [h EXCEPT ![i].size = a, ![i].is_free = h[i].is_free]
    BY DEF Resized, Grown
  <2>1. [h EXCEPT ![i].size = @ + n] = [h EXCEPT ![i] = [h[i] EXCEPT !.size = a]]
    BY <1>6
  <2>2. [h EXCEPT ![i].size = a, ![i].is_free = h[i].is_free]
          = [h EXCEPT ![i] = [[h[i] EXCEPT !.size = a] EXCEPT !.is_free = h[i].is_free]]
    BY <1>2, Zenon
  <2>3. [[h[i] EXCEPT !.size = a] EXCEPT !.is_free = h[i].is_free] = [h[i] EXCEPT !.size = a]
    BY <1>5, Zenon
  <2>. QED BY <2>1, <2>2, <2>3, Zenon
<1>8. \A e : Marked(h, i, e) = Resized(h, i, h[i].size, e)
  <2>. SUFFICES ASSUME NEW e
                PROVE  [h EXCEPT ![i].is_free = e] = [h EXCEPT ![i].size = h[i].size, ![i].is_free = e]
    BY DEF Resized, Marked
  <2>1. [h EXCEPT ![i].is_free = e] = [h EXCEPT ![i] = [h[i] EXCEPT !.is_free = e]]
    BY <1>4, Zenon
  <2>2. [h EXCEPT ![i].size = h[i].size, ![i].is_free = e]
          = [h EXCEPT ![i] = [[h[i] EXCEPT !.size = h[i].size] EXCEPT !.is_free = e]]
    BY <1>2, Zenon
  <2>3. [[h[i] EXCEPT !.size = h[i].size] EXCEPT !.is_free = e] = [h[i] EXCEPT !.is_free = e]
    BY <1>5, Zenon
  <2>. QED BY <2>1, <2>2, <2>3, Zenon
<1>. QED BY <1>7, <1>8

LEMMA AppendIs ==
  ASSUME NEW S, NEW h \in Seq(S), NEW b \in S, NEW g, g = Append(h, b) \/ g = InsertAt(h, Len(h) + 1, b)
  PROVE  /\ g \in Seq(S) /\ Len(g) = Len(h) + 1 /\ Len(h) \in Nat
         /\ \A j \in 1 .. Len(g) : g[j] = IF j = Len(h) + 1 THEN b ELSE h[j]
<1>0. Len(h) \in Nat /\ h \in [1 .. Len(h) -> S]
  BY LenProperties
<1>1. InsertAt(h, Len(h) + 1, b) = h \o <<b>>
  <2>1. SubSeq(h, 1, Len(h) + 1 - 1) = h
    BY <1>0, SubSeqFull
  <2>2. SubSeq(h, Len(h) + 1, Len(h)) = <<>>
    BY <1>0, SubSeqEmpty
  <2>3. h \o <<b>> \in Seq(S)
    BY ConcatProperties
  <2>4. (h \o <<b>>) \o <<>> = h \o <<b>>
    BY <2>3, ConcatEmptySeq
  <2>5. InsertAt(h, Len(h) + 1, b) = SubSeq(h, 1, Len(h) + 1 - 1) \o <<b>> \o SubSeq(h, Len(h) + 1, Len(h))
    BY DEF InsertAt
  <2>. QED BY <2>1, <2>2, <2>4, <2>5
<1>2. CASE g = Append(h, b)
  BY <1>0, <1>2
<1>3. CASE g = h \o <<b>>
  <2>1. <<b>> \in Seq(S) /\ Len(<<b>>) = 1 /\ <<b>>[1] = b
    OBVIOUS
  <2>. QED BY <1>0, <1>3, <2>1, ConcatProperties
<1>. QED BY <1>1, <1>2, <1>3

LEMMA RemoveIs ==
  ASSUME NEW S, NEW h \in Seq(S), NEW i \in 1 .. Len(h), NEW g, g = RemoveAt(h, i)
  PROVE  /\ g \in Seq(S) /\ Len(g) = Len(h) - 1
         /\ \A j \in 1 .. Len(g) : g[j] = IF j < i THEN h[j] ELSE h[j + 1]
<1>0. Len(h) \in Nat /\ h \in [1 .. Len(h) -> S] /\ i \in Nat
  BY LenProperties
<1>. DEFINE a == SubSeq(h, 1, i - 1)
            b == SubSeq(h, i + 1, Len(h))
<1>1. /\ a \in Seq(S) /\ Len(a) = i - 1
      /\ \A j \in 1 .. (i - 1) : a[j] = h[j]
  BY <1>0, SubSeqProperties
<1>2. /\ b \in Seq(S) /\ Len(b) = Len(h) - i
      /\ \A j \in 1 .. (Len(h) - i) : b[j] = h[i + j]
  <2>1. /\ i + 1 \in Int /\ Len(h) \in Int
        /\ \A j \in (i + 1) .. Len(h) : h[j] \in S
    BY <1>0
  <2>2. /\ b \in Seq(S) /\ Len(b) = IF i + 1 <= Len(h) THEN Len(h) - (i + 1) + 1 ELSE 0
        /\ \A j \in 1 .. (Len(h) - (i + 1) + 1) : b[j] = h[i + 1 + j - 1]
    BY <2>1, SubSeqProperties
  <2>3. Len(h) - (i + 1) + 1 = Len(h) - i /\ \A j \in Nat : i + 1 + j - 1 = i + j
    BY <1>0
  <2>4. \A j \in 1 .. (Len(h) - i) : j \in Nat /\ j \in 1 .. (Len(h) - (i + 1) + 1)
    BY <2>3
  <2>5. \A j \in 1 .. (Len(h) - i) : b[j] = h[i + j]
    <3>. SUFFICES ASSUME NEW j \in 1 .. (Len(h) - i) PROVE b[j] = h[i + j]
      OBVIOUS
    <3>1. b[j] = h[i + 1 + j - 1] /\ i + 1 + j - 1 = i + j
      <4>. HIDE DEF b
      <4>. QED BY <2>2, <2>3, <2>4
    <3>. QED BY <3>1
  <2>6. Len(b) = Len(h) - i
    <3>. HIDE DEF b
    <3>1. Len(b) = IF i + 1 <= Len(h) THEN Len(h) - (i + 1) + 1 ELSE 0
      BY <2>2
    <3>2. i \in Nat /\ Len(h) \in Nat /\ i <= Len(h)
      BY LenProperties
    <3>3. \A j, n \in Nat : j <= n => (IF j + 1 <= n THEN n - (j + 1) + 1 ELSE 0) = n - j
      OBVIOUS
    <3>. QED BY <3>1, <3>2, <3>3
  <2>. QED BY <2>2, <2>5, <2>6
<1>3. g = a \o b
  BY DEF RemoveAt
<1>. HIDE DEF a, b
<1>4. /\ g \in Seq(S) /\ Len(g) = Len(a) + Len(b)
      /\ \A j \in 1 .. (Len(a) + Len(b)) : g[j] = IF j <= Len(a) THEN a[j] ELSE b[j - Len(a)]
  <2>1. /\ a \o b \in Seq(S) /\ Len(a \o b) = Len(a) + Len(b)
        /\ \A j \in 1 .. Len(a) + Len(b) : (a \o b)[j] = IF j <= Len(a) THEN a[j] ELSE b[j - Len(a)]
    BY <1>1, <1>2, ConcatProperties
  <2>. QED BY <1>3, <2>1
<1>5. Len(g) = Len(h) - 1
  <2>1. \A k, n \in Nat : k >= 1 => (k - 1) + (n - k) = n - 1
    OBVIOUS
  <2>2. i >= 1
    OBVIOUS
  <2>. QED BY <1>0, <1>1, <1>2, <1>4, <2>1, <2>2
<1>6. ASSUME NEW j \in 1 .. Len(g) PROVE g[j] = IF j < i THEN h[j] ELSE h[j + 1]
  <2>1. j \in Nat /\ g[j] = IF j <= i - 1 THEN a[j] ELSE b[j - (i - 1)]
    BY <1>1, <1>4
  <2>2. CASE j < i
    <3>1. j \in 1 .. (i - 1) /\ j <= i - 1
      BY <1>0, <2>1, <2>2
    <3>. QED BY <1>1, <2>1, <2>2, <3>1
  <2>3. CASE ~ (j < i)
    <3>1. PICK k : k = j - (i - 1)
      OBVIOUS
    <3>2. k \in 1 .. (Len(h) - i) /\ i + k = j + 1 /\ ~ (j <= i - 1)
      BY <1>0, <1>5, <2>1, <2>3, <3>1
    <3>. QED BY <1>2, <2>1, <2>3, <3>1, <3>2
  <2>. QED BY <2>2, <2>3
<1>. QED BY <1>4, <1>5, <1>6

\* The prev pointer of header i is written.
Relinked(h, i, q) == [h EXCEPT ![i].prev = q]

LEMMA LinkHeader ==
  ASSUME NEW Q, NEW h \in Seq(Headers(Q)), NEW i \in 1 .. Len(h), NEW q \in Q,
         NEW g, g = Relinked(h, i, q)
  PROVE  /\ g \in Seq(Headers(Q)) /\ Len(g) = Len(h)
         /\ \A j \in 1 .. Len(h) : g[j] = IF j = i THEN Header(h[i].at, h[i].size, h[i].is_free, q) ELSE h[j]
<1>. DEFINE b == Header(h[i].at, h[i].size, h[i].is_free, q)
<1>1. h[i] \in Headers(Q) /\ b \in Headers(Q)
  BY HeaderAt, HeaderIs
<1>2. [h[i] EXCEPT !.prev = q] = b
  <2>1. \A r \in Headers(Q) : r = [at |-> r.at, size |-> r.size, is_free |-> r.is_free, prev |-> r.prev]
    BY DEF Headers
  <2>2. \A x, y, z, w, r : r = [at |-> x, size |-> y, is_free |-> z, prev |-> w] =>
          [r EXCEPT !.prev = q] = [at |-> x, size |-> y, is_free |-> z, prev |-> q]
    OBVIOUS
  <2>. QED BY <1>1, <2>1, <2>2 DEF Header
<1>3. h \in [1 .. Len(h) -> Headers(Q)]
  BY LenProperties
<1>4. g = [h EXCEPT ![i] = b]
  <2>. HIDE DEF b
  <2>. QED BY <1>2, <1>3 DEF Relinked
<1>. HIDE DEF b
<1>5. /\ [h EXCEPT ![i] = b] \in Seq(Headers(Q)) /\ Len([h EXCEPT ![i] = b]) = Len(h)
      /\ \A j \in 1 .. Len(h) : [h EXCEPT ![i] = b][j] = IF j = i THEN b ELSE h[j]
  BY <1>1, ExceptSeq
<1>. QED BY <1>4, <1>5 DEF b
=============================================================================

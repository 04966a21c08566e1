------------------------ MODULE OlderAllocatorProofs ------------------------
(***************************************************************************)
(* The older allocator: a request that the tests for memory let pass finds *)
(* its pages, the chain of the OS region tiles it in both directions, and  *)
(* while the page table tells the truth no page of another thread can be   *)
(* accessed.  For any number of threads and pages and any sizes.           *)
(***************************************************************************)
EXTENDS OlderAllocator, PagingProofs

Block == Headers(Nat \cup {NULL})

\* Every block begins where the one before it ends, and leads back to it.
Linked(h) ==
  /\ \A i \in 1 .. Len(h) : /\ h[i].at = IF i = 1 THEN 0 ELSE After(h[i - 1])
                            /\ h[i].prev = IF i = 1 THEN NULL ELSE h[i - 1].at
  /\ After(h[Len(h)]) = OS_SIZE

\* Only the last block is free.
Chain(h) == /\ h \in Seq(Block) /\ Len(h) \in Nat \ {0}
            /\ \A i \in 1 .. Len(h) : Free(h[i]) => i = Len(h)
            /\ Linked(h)

Room(p) == p.numFreePagesMem + p.numFreePagesSF

\* The frame that the request r has got is empty and behind its next page.
PageFound(p, s, t, r) ==
  /\ r.n >= 1 /\ r.page \in Frames /\ Known(p, t, r.n - 1)
  /\ r.n <= r.page /\ p.table[r.page] = Entry(t, 0) /\ s.data[r.page] = Blank

\* The request r of t has got its pages up to the n-th, and what it still lacks
\* is free.
Asked(p, s, t, r) ==
  /\ p.table[0].tid = t
  /\ r.size <= HeadSize + (r.n + Room(p)) * PAGE_SIZE
  /\ IF r.page = NULL THEN Known(p, t, r.n) /\ r.size > HeadSize + r.n * PAGE_SIZE
                      ELSE PageFound(p, s, t, r)

\* What is free is empty, and what was handed out is in use.
EmptyInv(p, s) == \A y \in Frames : p.table[y].inUse = 0 => s.data[y] = Blank
TopInv(p, tops) == /\ tops \in [Threads -> Frames \cup {-1}]
                   /\ \A t \in Threads : tops[t] # -1 => p.table[tops[t]].inUse = 1

\* The page table tells what frame y holds.
Told(p, s, y) == s.data[y] = IF p.table[y].inUse = 1 THEN <<p.table[y].tid, p.table[y].page_num>>
                                                     ELSE Blank

\* A page table that tells the truth tells of every page that can be accessed
\* that it is the current thread's; but for f, which has no bytes yet.
OpenInv(p, s, t, f) ==
  s.status = "ok" /\ (\A y \in Frames : y # f => Told(p, s, y)) =>
    \A y \in s.open \cap Memory : p.table[y].inUse = 1 => p.table[y].tid = t

Requests == [size : Nat, n : Nat, page : Frames \cup {NULL}]

OlderInv ==
  /\ TableInv(pt) /\ FramesOK(fr) /\ EmptyInv(pt, fr) /\ TopInv(pt, top)
  /\ current_tid \in Threads /\ Chain(os)
  /\ pending \in Requests /\ (pending # NoRequest => Asked(pt, fr, current_tid, pending))
  /\ OpenInv(pt, fr, current_tid, pending.page)

-----------------------------------------------------------------------------
(***************************************************************************)
(* The OS region                                                           *)
(***************************************************************************)

LEMMA BlockIs ==
  ASSUME NEW at \in Nat, NEW size \in Nat \ {0}, NEW e \in {0, 1}, NEW q \in Nat \cup {NULL}
  PROVE  Meta(at, size, e, q) \in Block
BY DEF Meta, Block, Headers

LEMMA FieldsAre ==
  ASSUME NEW at, NEW size, NEW e, NEW q
  PROVE  LET b == Meta(at, size, e, q)
         IN  /\ b.at = at /\ b.size = size /\ b.is_free = e /\ b.prev = q
             /\ After(b) = at + META + size /\ (Free(b) <=> e = 1)
BY DEF Meta, Free, After

LEMMA BlockAt ==
  ASSUME NEW h \in Seq(Block), NEW i \in 1 .. Len(h)
  PROVE  /\ h[i] \in Block
         /\ h[i].at \in Nat /\ h[i].size \in Nat \ {0}
         /\ h[i].is_free \in {0, 1} /\ h[i].prev \in Nat \cup {NULL}
         /\ After(h[i]) = h[i].at + META + h[i].size
<1>1. /\ h[i] \in Block /\ h[i].at \in Nat /\ h[i].size \in Nat \ {0}
      /\ h[i].is_free \in {0, 1} /\ h[i].prev \in Nat \cup {NULL}
  BY HeaderAt DEF Block
<1>. QED BY <1>1 DEF After

LEMMA ResizeIs ==
  ASSUME NEW h \in Seq(Block), NEW i \in 1 .. Len(h), NEW size \in Nat \ {0}, NEW e \in {0, 1},
         NEW g, g = Resized(h, i, size, e)
  PROVE  /\ g \in Seq(Block) /\ Len(g) = Len(h)
         /\ \A j \in 1 .. Len(h) : g[j] = IF j = i THEN Meta(h[i].at, size, e, h[i].prev) ELSE h[j]
<1>. PICK Q : Q = Nat \cup {NULL}
  OBVIOUS
<1>1. h \in Seq(Headers(Q)) /\ Block = Headers(Q)
  BY DEF Block
<1>2. /\ g \in Seq(Headers(Q)) /\ Len(g) = Len(h)
      /\ \A j \in 1 .. Len(h) : g[j] = IF j = i THEN Header(h[i].at, size, e, h[i].prev) ELSE h[j]
  BY <1>1, ResizeHeader
<1>3. \A at, s, x, q : Meta(at, s, x, q) = Header(at, s, x, q)
  BY DEF Meta, Header
<1>. QED BY <1>1, <1>2, <1>3

LEMMA MarkIs ==
  ASSUME NEW h \in Seq(Block), NEW i \in 1 .. Len(h), NEW e, NEW g, g = Marked(h, i, e)
  PROVE  g = Resized(h, i, h[i].size, e)
<1>. PICK Q : Q = Nat \cup {NULL}
  OBVIOUS
<1>1. h \in Seq(Headers(Q))
  BY DEF Block
<1>. QED BY <1>1, RefitHeader

LEMMA LinkIs ==
  ASSUME NEW h, Linked(h), NEW i \in 1 .. Len(h)
  PROVE  /\ h[i].at = IF i = 1 THEN 0 ELSE After(h[i - 1])
         /\ h[i].prev = IF i = 1 THEN NULL ELSE h[i - 1].at
BY DEF Linked

\* A chain whose blocks begin and end where they did.
LEMMA SameShape ==
  ASSUME NEW h, Chain(h), NEW g \in Seq(Block), Len(g) = Len(h),
         \A j \in 1 .. Len(h) : g[j].at = h[j].at /\ g[j].size = h[j].size /\ g[j].prev = h[j].prev
  PROVE  Linked(g)
<1>1. Len(h) \in Nat \ {0}
  BY DEF Chain
<1>2. \A j \in 1 .. Len(h) : After(g[j]) = After(h[j])
  BY DEF After
<1>3. ASSUME NEW j \in 1 .. Len(g)
      PROVE  /\ g[j].at = IF j = 1 THEN 0 ELSE After(g[j - 1])
             /\ g[j].prev = IF j = 1 THEN NULL ELSE g[j - 1].at
  <2>1. j # 1 => j - 1 \in 1 .. Len(h)
    BY <1>1
  <2>2. /\ h[j].at = IF j = 1 THEN 0 ELSE After(h[j - 1])
        /\ h[j].prev = IF j = 1 THEN NULL ELSE h[j - 1].at
    BY LinkIs DEF Chain
  <2>. QED BY <1>2, <2>1, <2>2
<1>4. After(g[Len(g)]) = OS_SIZE
  <2>1. Len(h) \in 1 .. Len(h)
    BY <1>1
  <2>. QED BY <1>2, <2>1 DEF Chain, Linked
<1>. QED BY <1>3, <1>4 DEF Linked

LEMMA InitMemChain == Chain(InitMem(OS_SIZE))
<1>1. PICK n \in Nat \ {0} : n = OS_SIZE - META
  BY SizesAssumption
<1>2. PICK b \in Block : b = Meta(0, n, 1, NULL)
  BY BlockIs
<1>3. b.at = 0 /\ b.prev = NULL /\ After(b) = OS_SIZE /\ Free(b)
  BY <1>1, <1>2, FieldsAre, SizesAssumption
<1>4. InitMem(OS_SIZE) = <<b>>
  BY <1>1, <1>2 DEF InitMem
<1>5. PICK h : h = <<b>>
  OBVIOUS
<1>6. h \in Seq(Block) /\ Len(h) = 1 /\ h[1] = b
  BY <1>5
<1>7. \A i \in 1 .. Len(h) : i = 1
  BY <1>6
<1>8. Linked(h)
  BY <1>3, <1>6, <1>7 DEF Linked
<1>. QED BY <1>4, <1>5, <1>6, <1>7, <1>8 DEF Chain

\* myallocate() stops at the last block, whether it fits or not.
LEMMA FoundIs ==
  ASSUME NEW h, Chain(h), NEW size
  PROVE  Found(h, size) = Len(h)
<1>. DEFINE fits == {i \in 1 .. Len(h) : Free(h[i]) /\ h[i].size >= size}
<1>1. fits \cup {Len(h)} = {Len(h)}
  BY DEF Chain
<1>2. Len(h) \in Nat
  BY DEF Chain
<1>. HIDE DEF fits
<1>3. First({Len(h)}) = Len(h)
  BY <1>2 DEF First
<1>. QED BY <1>1, <1>3 DEF Found, fits
\* What Take and Release share: header i of a chain is rewritten.
LEMMA ResizedFields ==
  ASSUME NEW h, Chain(h), NEW i \in 1 .. Len(h), NEW z \in Nat \ {0}, NEW e \in {0, 1},
         NEW c, c = Resized(h, i, z, e)
  PROVE  /\ c \in Seq(Block) /\ Len(c) = Len(h)
         /\ c[i].at = h[i].at /\ c[i].size = z /\ c[i].prev = h[i].prev /\ (Free(c[i]) <=> e = 1)
         /\ \A j \in 1 .. Len(h) : j # i => c[j] = h[j]
<1>1. h \in Seq(Block)
  BY DEF Chain
<1>2. /\ c \in Seq(Block) /\ Len(c) = Len(h)
      /\ \A j \in 1 .. Len(h) : c[j] = IF j = i THEN Meta(h[i].at, z, e, h[i].prev) ELSE h[j]
  BY <1>1, ResizeIs
<1>3. c[i] = Meta(h[i].at, z, e, h[i].prev)
  BY <1>2
<1>. QED BY <1>2, <1>3, FieldsAre

\* A header is marked, and its block stays where it is.
LEMMA MarkKeeps ==
  ASSUME NEW h, Chain(h), NEW i \in 1 .. Len(h), NEW e \in {0, 1}, e = 1 => i = Len(h),
         NEW g, g = Marked(h, i, e)
  PROVE  Chain(g)
<1>1. h \in Seq(Block) /\ Len(h) \in Nat \ {0}
  BY DEF Chain
<1>2. PICK z \in Nat \ {0} : z = h[i].size
  BY <1>1, BlockAt
<1>3. g = Resized(h, i, z, e)
  BY <1>1, <1>2, MarkIs
<1>4. /\ g \in Seq(Block) /\ Len(g) = Len(h)
      /\ g[i].at = h[i].at /\ g[i].size = z /\ g[i].prev = h[i].prev /\ (Free(g[i]) <=> e = 1)
      /\ \A j \in 1 .. Len(h) : j # i => g[j] = h[j]
  BY <1>3, ResizedFields
<1>5. Linked(g)
  BY <1>2, <1>4, SameShape
<1>6. \A j \in 1 .. Len(g) : Free(g[j]) => j = Len(g)
  BY <1>4 DEF Chain
<1>. QED BY <1>1, <1>4, <1>5, <1>6 DEF Chain

LEMMA TakeKeeps ==
  ASSUME NEW h, Chain(h), NEW i, i = Len(h), NEW size \in Nat \ {0}, h[i].size >= size
  PROVE  Chain(Take(h, i, size))
<1>0. h \in Seq(Block) /\ i \in Nat \ {0} /\ i \in 1 .. Len(h)
  BY DEF Chain
<1>1. PICK at \in Nat, old \in Nat \ {0} : at = h[i].at /\ old = h[i].size
  BY <1>0, BlockAt
<1>2. META \in Nat \ {0} /\ After(h[i]) = OS_SIZE /\ After(h[i]) = at + META + old
  BY <1>0, <1>1, BlockAt, SizesAssumption DEF Chain, Linked
<1>3. CASE old > size + META
  <2>1. PICK c : c = Resized(h, i, size, 0)
    OBVIOUS
  <2>2. /\ c \in Seq(Block) /\ Len(c) = i
        /\ c[i].at = at /\ c[i].size = size /\ c[i].prev = h[i].prev /\ ~ Free(c[i])
        /\ \A j \in 1 .. i : j # i => c[j] = h[j]
    BY <1>0, <1>1, <2>1, ResizedFields
  <2>3. PICK next \in Nat, rest \in Nat \ {0} : next = at + META + size /\ rest = old - META - size
    <3>1. \A a, b, m \in Nat : b > a + m => b - m - a \in Nat \ {0}
      OBVIOUS
    <3>2. old - META - size \in Nat \ {0}
      BY <1>2, <1>3, <3>1
    <3>. QED BY <1>2, <3>2
  <2>4. PICK new \in Block : new = Meta(next, rest, 1, at)
    BY <2>3, BlockIs
  <2>5. new.at = next /\ new.prev = at /\ After(new) = OS_SIZE /\ Free(new)
    <3>1. After(new) = next + META + rest /\ new.at = next /\ new.prev = at /\ Free(new)
      BY <2>4, FieldsAre
    <3>. QED BY <1>2, <2>3, <3>1
  <2>6. PICK g : g = InsertAt(c, Len(c) + 1, new)
    OBVIOUS
  <2>7. /\ g \in Seq(Block) /\ Len(g) = Len(c) + 1
        /\ \A j \in 1 .. Len(g) : g[j] = IF j = Len(c) + 1 THEN new ELSE c[j]
    BY <2>2, <2>4, <2>6, AppendIs
  <2>8. Take(h, i, size) = g
    BY <1>1, <1>3, <2>1, <2>2, <2>3, <2>4, <2>6 DEF Take, OrganizeMem, Resized
  <2>9. Len(g) = i + 1 /\ g[i + 1] = new /\ g[i] = c[i]
    BY <1>0, <2>2, <2>7
  <2>10. \A j \in 1 .. Len(g) : j # i /\ j # i + 1 => j \in 1 .. Len(h) /\ g[j] = h[j]
    BY <1>0, <2>2, <2>7, <2>9
  <2>11. \A j \in 1 .. Len(g) : Free(g[j]) => j = Len(g)
    BY <1>0, <2>2, <2>9, <2>10 DEF Chain
  <2>12. ASSUME NEW j \in 1 .. Len(g)
         PROVE  /\ g[j].at = IF j = 1 THEN 0 ELSE After(g[j - 1])
                /\ g[j].prev = IF j = 1 THEN NULL ELSE g[j - 1].at
    <3>1. CASE j = i + 1
      <4>1. g[j] = new /\ g[j - 1] = c[i] /\ j # 1
        BY <1>0, <2>9, <3>1
      <4>2. After(c[i]) = next
        BY <2>2, <2>3 DEF After
      <4>. QED BY <2>2, <2>5, <4>1, <4>2
    <3>2. CASE j # i + 1
      <4>1. /\ j \in 1 .. Len(h) /\ g[j].at = h[j].at /\ g[j].prev = h[j].prev
            /\ j # 1 => j - 1 \in 1 .. Len(g) /\ j - 1 # i /\ j - 1 # i + 1
        BY <1>0, <1>1, <2>2, <2>9, <2>10, <3>2
      <4>2. j # 1 => g[j - 1] = h[j - 1]
        BY <2>10, <4>1
      <4>3. /\ h[j].at = IF j = 1 THEN 0 ELSE After(h[j - 1])
            /\ h[j].prev = IF j = 1 THEN NULL ELSE h[j - 1].at
        BY <4>1, LinkIs DEF Chain
      <4>. QED BY <4>1, <4>2, <4>3
    <3>. QED BY <3>1, <3>2
  <2>13. Linked(g)
    BY <2>5, <2>9, <2>12 DEF Linked
  <2>. QED BY <1>0, <2>7, <2>8, <2>9, <2>11, <2>13 DEF Chain
<1>4. CASE ~ (old > size + META)
  <2>1. PICK g : g = Marked(h, i, 0)
    OBVIOUS
  <2>2. Take(h, i, size) = g
    BY <1>1, <1>4, <2>1 DEF Take, Marked
  <2>. QED BY <1>0, <2>1, <2>2, MarkKeeps
<1>. QED BY <1>3, <1>4

LEMMA JoinedEnds ==
  ASSUME NEW a \in Nat, NEW m \in Nat, NEW x \in Nat, NEW y \in Nat
  PROVE  a + m + (x + m + y) = (a + m + x) + m + y
OBVIOUS

LEMMA ReleaseKeeps ==
  ASSUME NEW h, Chain(h), NEW i \in 1 .. Len(h)
  PROVE  Chain(Release(h, i)) /\ i <= Len(Release(h, i))
<1>0. h \in Seq(Block) /\ Len(h) \in Nat \ {0} /\ i \in Nat \ {0} /\ i <= Len(h)
  BY DEF Chain
<1>1. CASE i = Len(h)
  <2>1. PICK g : g = Marked(h, i, 1)
    OBVIOUS
  <2>2. Release(h, i) = g
    BY <1>1, <2>1 DEF Release, Marked
  <2>3. Chain(g) /\ Len(g) = Len(h)
    <3>1. PICK z \in Nat \ {0} : z = h[i].size
      BY <1>0, BlockAt
    <3>2. g = Resized(h, i, z, 1)
      BY <1>0, <2>1, <3>1, MarkIs
    <3>3. Len(g) = Len(h)
      BY <3>2, ResizedFields
    <3>. QED BY <1>1, <2>1, <3>3, MarkKeeps
  <2>. QED BY <1>0, <2>2, <2>3
<1>2. CASE i < Len(h) /\ Free(h[i + 1])
  <2>0. i + 1 \in 1 .. Len(h) /\ i + 1 # 1
    BY <1>0, <1>2
  <2>1. i + 1 = Len(h)
    BY <1>2, <2>0 DEF Chain
  <2>2. PICK z \in Nat \ {0} : z = h[i].size + META + h[i + 1].size
    <3>1. h[i].size \in Nat \ {0} /\ h[i + 1].size \in Nat \ {0} /\ META \in Nat
      BY <1>0, <2>0, BlockAt, SizesAssumption
    <3>. QED BY <3>1
  <2>3. PICK c : c = Resized(h, i, z, 1)
    OBVIOUS
  <2>4. /\ c \in Seq(Block) /\ Len(c) = Len(h)
        /\ c[i].at = h[i].at /\ c[i].size = z /\ c[i].prev = h[i].prev
        /\ \A j \in 1 .. Len(h) : j # i => c[j] = h[j]
    BY <2>3, ResizedFields
  <2>k. PICK k \in 1 .. Len(c) : k = i + 1
    BY <2>0, <2>4
  <2>5. PICK g : g = RemoveAt(c, k)
    OBVIOUS
  <2>6. /\ g \in Seq(Block) /\ Len(g) = Len(c) - 1
        /\ \A j \in 1 .. Len(g) : g[j] = IF j < k THEN c[j] ELSE c[j + 1]
    BY <2>4, <2>5, RemoveIs
  <2>7. Len(g) = i /\ \A j \in 1 .. i : g[j] = c[j]
    <3>1. Len(g) = i
      BY <1>0, <2>1, <2>4, <2>6
    <3>2. \A j \in 1 .. i : j < k
      BY <1>0, <2>k
    <3>. QED BY <2>6, <3>1, <3>2
  <2>8. c = [h EXCEPT ![i].size = @ + META + h[i + 1].size, ![i].is_free = 1]
    BY <2>2, <2>3 DEF Resized
  <2>9. MergeNext(h, i) = g
    BY <1>0, <2>k, <2>5, <2>7, <2>8 DEF MergeNext
  <2>10. Release(h, i) = g
    BY <1>0, <1>2, <2>9 DEF Release
  <2>11. \A j \in 1 .. Len(g) : j # Len(g) => g[j] = h[j] /\ j \in 1 .. Len(h) /\ j # Len(h)
    BY <1>0, <2>1, <2>4, <2>7
  <2>12. \A j \in 1 .. Len(g) : Free(g[j]) => j = Len(g)
    BY <2>11 DEF Chain
  <2>13. ASSUME NEW j \in 1 .. Len(g)
         PROVE  /\ g[j].at = IF j = 1 THEN 0 ELSE After(g[j - 1])
                /\ g[j].prev = IF j = 1 THEN NULL ELSE g[j - 1].at
    <3>1. /\ j \in 1 .. Len(h) /\ g[j].at = h[j].at /\ g[j].prev = h[j].prev
          /\ j # 1 => j - 1 \in 1 .. Len(g) /\ j - 1 # Len(g)
      BY <1>0, <2>1, <2>4, <2>7
    <3>2. j # 1 => g[j - 1] = h[j - 1]
      BY <2>11, <3>1
    <3>3. /\ h[j].at = IF j = 1 THEN 0 ELSE After(h[j - 1])
          /\ h[j].prev = IF j = 1 THEN NULL ELSE h[j - 1].at
      BY <3>1, LinkIs DEF Chain
    <3>. QED BY <3>1, <3>2, <3>3
  <2>14. After(g[Len(g)]) = OS_SIZE
    <3>1. /\ After(h[i + 1]) = OS_SIZE /\ After(h[i + 1]) = h[i + 1].at + META + h[i + 1].size
          /\ After(h[i]) = h[i].at + META + h[i].size
      BY <1>0, <2>0, <2>1, BlockAt DEF Chain, Linked
    <3>2. h[i + 1].at = After(h[i])
      <4>1. PICK m \in 1 .. Len(h) : m = i + 1
        BY <2>0
      <4>2. h[m].at = After(h[m - 1]) /\ m - 1 = i
        BY <1>0, <2>0, <4>1, LinkIs DEF Chain
      <4>. QED BY <4>1, <4>2
    <3>3. After(g[Len(g)]) = h[i].at + META + z
      BY <1>0, <2>4, <2>7 DEF After
    <3>4. h[i].at \in Nat /\ h[i].size \in Nat /\ h[i + 1].size \in Nat /\ META \in Nat
      BY <1>0, <2>0, BlockAt, SizesAssumption
    <3>5. h[i].at + META + z = (h[i].at + META + h[i].size) + META + h[i + 1].size
      <4>1. PICK a \in Nat : a = h[i].at
        BY <3>4
      <4>2. PICK x \in Nat : x = h[i].size
        BY <3>4
      <4>3. PICK y \in Nat : y = h[i + 1].size
        BY <3>4
      <4>4. z = x + META + y
        BY <2>2, <4>2, <4>3, Zenon
      <4>5. a + META + (x + META + y) = (a + META + x) + META + y
        BY <3>4, JoinedEnds
      <4>. QED BY <4>1, <4>2, <4>3, <4>4, <4>5, Zenon
    <3>. QED BY <3>1, <3>2, <3>3, <3>5
  <2>15. Chain(g)
    BY <1>0, <2>6, <2>7, <2>12, <2>13, <2>14 DEF Chain, Linked
  <2>. QED BY <1>0, <2>7, <2>10, <2>15
<1>3. CASE i < Len(h) /\ ~ Free(h[i + 1])
  <2>1. Release(h, i) = h
    BY <1>0, <1>3 DEF Release
  <2>. QED BY <1>0, <2>1
<1>. QED BY <1>0, <1>1, <1>2, <1>3

\* Nothing is merged with a free block before it: there is none.
LEMMA LibraryFreeChain ==
  ASSUME Chain(os), NEW t \in Threads, NEW i \in 1 .. Len(os), LibraryFree(t, i)
  PROVE  Chain(os') /\ fr' = fr
<1>1. PICK g : g = Release(os, i)
  OBVIOUS
<1>2. Chain(g) /\ i \in 1 .. Len(g) /\ i \in Nat \ {0} /\ Len(g) \in Nat \ {0}
  <2>1. Chain(g) /\ i <= Len(g)
    BY <1>1, ReleaseKeeps
  <2>. QED BY <2>1 DEF Chain
<1>3. ~ (g[i].prev # NULL /\ Free(g[i - 1]))
  <2>1. CASE i = 1
    BY <1>2, <2>1, LinkIs DEF Chain
  <2>2. CASE i # 1
    <3>1. i - 1 \in 1 .. Len(g) /\ i - 1 # Len(g)
      BY <1>2, <2>2
    <3>. QED BY <1>2, <3>1 DEF Chain
  <2>. QED BY <2>1, <2>2
<1>4. os' = g /\ fr' = fr
  BY <1>1, <1>3 DEF LibraryFree
<1>. QED BY <1>2, <1>4

LEMMA LibraryMallocChain ==
  ASSUME Chain(os), NEW t \in Threads, NEW size \in Sizes, LibraryMalloc(t, size)
  PROVE  Chain(os') /\ (fr' = fr \/ \E e \in Statuses : fr' = [fr EXCEPT !.status = e])
<1>1. PICK i : i = Len(os)
  OBVIOUS
<1>2. Found(os, size) = i
  BY <1>1, FoundIs
<1>3. CASE Free(os[i]) /\ os[i].size >= size
  <2>1. os' = Take(os, i, size) /\ fr' = fr
    BY <1>2, <1>3 DEF LibraryMalloc
  <2>2. size \in Nat \ {0}
    BY SizesAssumption
  <2>. QED BY <1>1, <1>3, <2>1, <2>2, TakeKeeps
<1>4. CASE ~ (Free(os[i]) /\ os[i].size >= size)
  <2>1. os' = os /\ fr' = [fr EXCEPT !.status = IF OutOfMemory(os[i], size) THEN "ok" ELSE "wild"]
    BY <1>2, <1>4 DEF LibraryMalloc
  <2>2. PICK e \in Statuses : e = IF OutOfMemory(os[i], size) THEN "ok" ELSE "wild"
    BY DEF Statuses
  <2>. QED BY <2>1, <2>2
<1>. QED BY <1>3, <1>4
-----------------------------------------------------------------------------
(***************************************************************************)
(* The pages                                                               *)
(***************************************************************************)

\* What a page table has left, its counters tell.
LEMMA RoomIs ==
  ASSUME NEW p, TableInv(p)
  PROVE  /\ Room(p) \in Nat /\ (Room(p) > 0 <=> Unused(p) # {})
         /\ p.numFreePagesMem \in Nat /\ p.numFreePagesSF \in Nat
<1>1. PICK u \in 0 .. Total : UsedUpto(p, u) /\ Counted(p, u)
  BY DEF TableInv, Filled
<1>2. Room(p) = Total - u
  BY <1>1, FrameNumbers DEF Room, Counted, Total
<1>3. Unused(p) # {} <=> u < Total
  BY <1>1, UnusedIs
<1>4. p.numFreePagesMem \in Nat /\ p.numFreePagesSF \in Nat
  BY <1>1, FrameNumbers DEF Counted, Total
<1>. QED BY <1>2, <1>3, <1>4, FrameNumbers

\* The frames below one in use are in use.
LEMMA Below ==
  ASSUME NEW p, TableInv(p), NEW x \in Frames, NEW y \in Frames, y <= x, p.table[x].inUse = 1
  PROVE  p.table[y].inUse = 1
<1>1. PICK u \in 0 .. Total : UsedUpto(p, u)
  BY DEF TableInv, Filled
<1>2. x < u
  <2>1. CASE x >= u
    <3>1. p.table[x] = FreeEntry
      BY <1>1, <2>1 DEF UsedUpto
    <3>. QED BY <3>1 DEF FreeEntry
  <2>. QED BY <2>1, FrameNumbers
<1>3. y < u
  BY <1>2, FrameNumbers
<1>. QED BY <1>1, <1>3 DEF UsedUpto

\* Frame n becomes t's n-th page, and what was there moves to frame f, which is
\* empty.
Moved(p, s, t, n, f, q, g) ==
  /\ \A z \in Frames : q.table[z] = IF z = n THEN Entry(t, n)
                                    ELSE IF z = f THEN p.table[n] ELSE p.table[z]
  /\ \A z \in Frames : g.data[z] = IF z = n THEN <<t, n>> ELSE IF z = f THEN s.data[n] ELSE s.data[z]
  /\ g.open = (s.open \ {f}) \cup {n} /\ g.status = s.status

LEMMA MovedKeeps ==
  ASSUME NEW p, NEW s, NEW t \in Threads, NEW n \in Frames, NEW f \in Frames, NEW q, NEW g, NEW tops,
         TableOK(p), EmptyInv(p, s), TopInv(p, tops), OpenInv(p, s, t, f),
         s.data[f] = Blank, p.table[f].inUse = 1 => p.table[n].inUse = 1,
         Moved(p, s, t, n, f, q, g)
  PROVE  EmptyInv(q, g) /\ TopInv(q, tops) /\ OpenInv(q, g, t, NULL)
<1>1. n \in Nat /\ Entry(t, n).tid = t /\ Entry(t, n).page_num = n /\ Entry(t, n).inUse = 1
  BY FrameNumbers, EntryIs
<1>2. q.table[n] = Entry(t, n) /\ g.data[n] = <<t, n>>
  BY DEF Moved
<1>3. f # n => q.table[f] = p.table[n] /\ g.data[f] = s.data[n]
  BY DEF Moved
<1>4. \A z \in Frames : z # n /\ z # f => q.table[z] = p.table[z] /\ g.data[z] = s.data[z]
  BY DEF Moved
<1>5. ASSUME NEW y \in Frames, q.table[y].inUse = 0 PROVE g.data[y] = Blank
  <2>1. y # n
    BY <1>1, <1>2, <1>5
  <2>2. CASE y = f
    BY <1>3, <1>5, <2>1, <2>2 DEF EmptyInv
  <2>3. CASE y # f
    BY <1>4, <1>5, <2>1, <2>3 DEF EmptyInv
  <2>. QED BY <2>2, <2>3
<1>6. ASSUME NEW u \in Threads, tops[u] # -1 PROVE q.table[tops[u]].inUse = 1
  <2>1. PICK x \in Frames : x = tops[u] /\ p.table[x].inUse = 1
    BY <1>6 DEF TopInv
  <2>2. q.table[x].inUse = 1
    BY <1>1, <1>2, <1>3, <1>4, <2>1
  <2>. QED BY <2>1, <2>2
<1>7. ASSUME g.status = "ok", \A y \in Frames : y # NULL => Told(q, g, y),
             NEW y \in g.open \cap Memory, q.table[y].inUse = 1
      PROVE  q.table[y].tid = t
  <2>0. \A z \in Frames : Told(q, g, z)
    BY <1>7, NullAssumption
  <2>1. s.status = "ok" /\ y \in Frames
    BY <1>7, FrameNumbers DEF Moved
  <2>2. ASSUME NEW z \in Frames, z # f PROVE Told(p, s, z)
    <3>1. CASE z = n
      <4>1. Told(q, g, f)
        BY <2>0
      <4>. QED BY <1>3, <2>2, <3>1, <4>1 DEF Told
    <3>2. CASE z # n
      <4>1. Told(q, g, z)
        BY <2>0
      <4>. QED BY <1>4, <2>2, <3>2, <4>1 DEF Told
    <3>. QED BY <3>1, <3>2
  <2>3. CASE y = n
    BY <1>1, <1>2, <2>3
  <2>4. CASE y # n
    <3>1. y \in s.open \cap Memory /\ y # f
      BY <1>7, <2>4 DEF Moved
    <3>2. q.table[y] = p.table[y]
      BY <1>4, <2>1, <2>4, <3>1
    <3>. QED BY <1>7, <2>1, <2>2, <3>1, <3>2 DEF OpenInv
  <2>. QED BY <2>3, <2>4
<1>8. EmptyInv(q, g)
  BY <1>5 DEF EmptyInv
<1>9. TopInv(q, tops)
  BY <1>6 DEF TopInv
<1>10. OpenInv(q, g, t, NULL)
  BY <1>7 DEF OpenInv
<1>. QED BY <1>8, <1>9, <1>10

LEMMA SwapEmptyPageIs ==
  ASSUME NEW s, FramesOK(s), NEW f \in Frames, NEW n \in Frames, NEW t \in Threads
  PROVE  LET g == SwapEmptyPage(s, f, n, <<t, n>>)
         IN  /\ FramesOK(g) /\ g.open = (s.open \ {f}) \cup {n} /\ g.status = s.status
             /\ \A z \in Frames : g.data[z] = IF z = n THEN <<t, n>>
                                               ELSE IF z = f THEN s.data[n] ELSE s.data[z]
<1>. DEFINE d == SwapEmptyPage(s, f, n, <<t, n>>)
            o == (s.open \ {f}) \cup {n}
<1>1. s.data[n] \in Bytes /\ <<t, n>> \in Bytes /\ o \in SUBSET Frames
  <2>1. n \in Nat
    BY FrameNumbers
  <2>2. <<t, n>> \in Bytes
    BY <2>1 DEF Bytes
  <2>. QED BY <2>2, DataAt
<1>2. Rewritten(s, d, f, s.data[n], n, <<t, n>>, o)
  BY DEF SwapEmptyPage, Rewritten
<1>. HIDE DEF d, o
<1>3. PICK a \in Bytes, b \in Bytes : a = s.data[n] /\ b = <<t, n>>
  BY <1>1
<1>4. PICK g, e : g = d /\ e = o
  OBVIOUS
<1>5. Rewritten(s, g, f, a, n, b, e) /\ FramesOK(s) /\ e \in SUBSET Frames
  BY <1>1, <1>2, <1>3, <1>4
<1>6. /\ FramesOK(g) /\ g.status = s.status /\ g.open = e
      /\ \A x \in Frames : g.data[x] = IF x = n THEN b ELSE IF x = f THEN a ELSE s.data[x]
  BY <1>5, NewData
<1>. QED BY <1>3, <1>4, <1>6 DEF d, o

\* getHead() with a free page.
LEMMA HeadKeeps ==
  ASSUME NEW p, NEW s, NEW t \in Threads, NEW tops,
         TableInv(p), FramesOK(s), EmptyInv(p, s), TopInv(p, tops), OpenInv(p, s, t, NULL),
         Unused(p) # {}, NEW f, f = First(Unused(p)), NEW q, q = NewHead(p, t, f),
         NEW g, g = SwapEmptyPage(s, f, 0, <<t, 0>>)
  PROVE  /\ TableInv(q) /\ FramesOK(g) /\ EmptyInv(q, g) /\ TopInv(q, tops) /\ OpenInv(q, g, t, NULL)
         /\ q.table[0].tid = t /\ q.table[0].inUse = 1 /\ Known(q, t, 0)
<1>1. /\ f \in Frames /\ TableInv(q) /\ q.table[0].tid = t /\ Known(q, t, 0)
  BY NewHeadKeeps
<1>2. TableOK(p) /\ 0 \in Frames
  BY FrameNumbers DEF TableInv
<1>3. p.table[f].inUse = 0
  <2>1. Unused(p) \in SUBSET Frames
    BY DEF Unused
  <2>2. f \in Unused(p)
    BY <2>1, LeastFrame
  <2>. QED BY <2>2 DEF Unused
<1>4. s.data[f] = Blank
  BY <1>1, <1>3 DEF EmptyInv
<1>5. \A z \in Frames : q.table[z] = IF z = 0 THEN Entry(t, 0) ELSE IF z = f THEN p.table[0] ELSE p.table[z]
  BY <1>1, <1>2, NewHeadIs
<1>6. /\ FramesOK(g) /\ g.open = (s.open \ {f}) \cup {0} /\ g.status = s.status
      /\ \A z \in Frames : g.data[z] = IF z = 0 THEN <<t, 0>> ELSE IF z = f THEN s.data[0] ELSE s.data[z]
  BY <1>1, <1>2, SwapEmptyPageIs
<1>7. OpenInv(p, s, t, f)
  <2>1. Told(p, s, f)
    BY <1>3, <1>4 DEF Told
  <2>. QED BY <2>1 DEF OpenInv
<1>8. Moved(p, s, t, 0, f, q, g)
  BY <1>5, <1>6 DEF Moved
<1>9. p.table[f].inUse = 1 => p.table[0].inUse = 1
  BY <1>3
<1>10. EmptyInv(q, g) /\ TopInv(q, tops) /\ OpenInv(q, g, t, NULL)
  BY <1>1, <1>2, <1>4, <1>7, <1>8, <1>9, MovedKeeps
<1>11. q.table[0].inUse = 1
  BY <1>2, <1>5, EntryIs
<1>. QED BY <1>1, <1>6, <1>10, <1>11
\* Thread t is handed bytes of its n-th page.
LEMMA ReachedKeeps ==
  ASSUME NEW q, NEW t \in Threads, NEW n \in Frames, TopInv(q, top), q.table[n].inUse = 1, Reached(t, n)
  PROVE  TopInv(q, top')
<1>1. top \in [Threads -> Frames \cup {-1}] /\ top' = [top EXCEPT ![t] = IF n > top[t] THEN n ELSE top[t]]
  BY DEF TopInv, Reached
<1>2. top' \in [Threads -> Frames \cup {-1}]
  BY <1>1
<1>3. ASSUME NEW u \in Threads, top'[u] # -1 PROVE q.table[top'[u]].inUse = 1
  <2>1. top'[u] = top[u] \/ top'[u] = n
    BY <1>1
  <2>. QED BY <1>3, <2>1 DEF TopInv
<1>. QED BY <1>2, <1>3 DEF TopInv

LEMMA SizesAre == HeadSize \in Nat /\ PAGE_SIZE \in Nat /\ Sizes \subseteq Nat \ {0}
BY SizesAssumption DEF HeadSize

LEMMA RoomForBoth ==
  ASSUME NEW size \in Nat, NEW mem \in Nat, NEW swap \in Nat, NEW head \in Nat, NEW page \in Nat,
         size <= head + mem * page \/ size <= head + swap * page
  PROVE  size <= head + (0 + (mem + swap)) * page
<1>1. (0 + (mem + swap)) * page = mem * page + swap * page
  OBVIOUS
<1>2. mem * page \in Nat /\ swap * page \in Nat
  OBVIOUS
<1>3. \A a, b, c, d \in Nat : a <= b + c \/ a <= b + d => a <= b + (c + d)
  OBVIOUS
<1>. QED BY <1>1, <1>2, <1>3

-----------------------------------------------------------------------------
(***************************************************************************)
(* The steps                                                               *)
(***************************************************************************)

LEMMA InvIs ==
  ASSUME TableInv(pt'), FramesOK(fr'), EmptyInv(pt', fr'), TopInv(pt', top'),
         current_tid' \in Threads, Chain(os'), pending' \in Requests,
         pending' # NoRequest => Asked(pt', fr', current_tid', pending'),
         OpenInv(pt', fr', current_tid', pending'.page)
  PROVE  OlderInv'
BY DEF OlderInv

LEMMA NoRequestIs == NoRequest \in Requests /\ NoRequest.page = NULL
BY DEF NoRequest, Requests

\* getHead() in the middle of a call.
LEMMA Headed ==
  ASSUME OlderInv, NEW t \in Threads, Running(t), FindsFree(t),
         pt' = NewHeadTable(t), fr' = NewHeadBytes(t)
  PROVE  /\ TableInv(pt') /\ FramesOK(fr') /\ EmptyInv(pt', fr') /\ TopInv(pt', top)
         /\ OpenInv(pt', fr', t, NULL) /\ current_tid = t /\ pending = NoRequest
         /\ pt'.table[0].tid = t /\ pt'.table[0].inUse = 1 /\ Known(pt', t, 0)
<1>1. current_tid = t /\ pending = NoRequest /\ Unused(pt) # {}
  BY DEF Running, FindsFree
<1>2. /\ TableInv(pt) /\ FramesOK(fr) /\ EmptyInv(pt, fr) /\ TopInv(pt, top)
      /\ OpenInv(pt, fr, t, NULL)
  BY <1>1, NoRequestIs DEF OlderInv
<1>3. PICK f : f = First(Unused(pt))
  OBVIOUS
<1>4. pt' = NewHead(pt, t, f) /\ fr' = SwapEmptyPage(fr, f, 0, <<t, 0>>)
  BY <1>3 DEF NewHeadTable, NewHeadBytes
<1>5. PICK q, g : q = pt' /\ g = fr'
  OBVIOUS
<1>6. q = NewHead(pt, t, f) /\ g = SwapEmptyPage(fr, f, 0, <<t, 0>>)
  BY <1>4, <1>5
<1>7. /\ TableInv(q) /\ FramesOK(g) /\ EmptyInv(q, g) /\ TopInv(q, top) /\ OpenInv(q, g, t, NULL)
      /\ q.table[0].tid = t /\ q.table[0].inUse = 1 /\ Known(q, t, 0)
  BY <1>1, <1>2, <1>3, <1>6, HeadKeeps
<1>. QED BY <1>1, <1>5, <1>7

LEMMA MallocKeeps ==
  ASSUME OlderInv, NEW t \in Threads, NEW size \in Sizes, Malloc(t, size)
  PROVE  OlderInv'
<1>1. /\ Running(t) /\ FindsFree(t) /\ pt' = NewHeadTable(t) /\ fr' = NewHeadBytes(t)
      /\ current_tid' = current_tid /\ os' = os
  BY DEF Malloc
<1>2. /\ TableInv(pt') /\ FramesOK(fr') /\ EmptyInv(pt', fr') /\ TopInv(pt', top)
      /\ OpenInv(pt', fr', t, NULL) /\ current_tid = t /\ pending = NoRequest
      /\ pt'.table[0].tid = t /\ pt'.table[0].inUse = 1 /\ Known(pt', t, 0)
  BY <1>1, Headed
<1>3. current_tid' \in Threads /\ Chain(os')
  BY <1>1 DEF OlderInv
<1>4. CASE size <= HeadSize
  <2>1. Reached(t, 0) /\ pending' = NoRequest
    BY <1>2, <1>4 DEF Malloc
  <2>2. TopInv(pt', top')
    BY <1>2, <2>1, FrameNumbers, ReachedKeeps
  <2>3. pending' \in Requests /\ OpenInv(pt', fr', current_tid', pending'.page)
    BY <1>1, <1>2, <2>1, NoRequestIs
  <2>. QED BY <1>2, <1>3, <2>1, <2>2, <2>3, InvIs
<1>5. CASE ~ (size <= HeadSize)
  <2>1. /\ pending' = IF Insufficient(size) THEN pending ELSE [NoRequest EXCEPT !.size = size]
        /\ top' = top
    BY <1>5 DEF Malloc
  <2>2. CASE Insufficient(size)
    <3>1. pending' = NoRequest
      BY <1>2, <2>1, <2>2
    <3>2. pending' \in Requests /\ OpenInv(pt', fr', current_tid', pending'.page)
      BY <1>1, <1>2, <3>1, NoRequestIs
    <3>. QED BY <1>2, <1>3, <2>1, <3>1, <3>2, InvIs
  <2>3. CASE ~ Insufficient(size)
    <3>1. size \in Nat \ {0} /\ HeadSize \in Nat /\ PAGE_SIZE \in Nat
      BY SizesAre
    <3>2. PICK mem \in Nat, swap \in Nat : mem = pt'.numFreePagesMem /\ swap = pt'.numFreePagesSF
      BY <1>2, RoomIs
    <3>3. size <= HeadSize + mem * PAGE_SIZE \/ size <= HeadSize + swap * PAGE_SIZE
      <4>1. ~ (size > HeadSize + mem * PAGE_SIZE /\ size > HeadSize + swap * PAGE_SIZE)
        BY <1>1, <1>2, <2>3, <3>2 DEF Insufficient
      <4>2. mem * PAGE_SIZE \in Nat /\ swap * PAGE_SIZE \in Nat
        BY <3>1
      <4>. QED BY <3>1, <4>1, <4>2
    <3>4. size <= HeadSize + (0 + (mem + swap)) * PAGE_SIZE
      BY <3>1, <3>3, RoomForBoth
    <3>5. PICK r : r = pending'
      OBVIOUS
    <3>6. r.size = size /\ r.n = 0 /\ r.page = NULL /\ r \in Requests
      BY <2>1, <2>3, <3>1, <3>5 DEF NoRequest, Requests
    <3>7. Room(pt') = mem + swap
      BY <3>2 DEF Room
    <3>8. r.size > HeadSize + r.n * PAGE_SIZE
      <4>1. 0 * PAGE_SIZE = 0
        BY <3>1
      <4>. QED BY <1>5, <3>1, <3>6, <4>1
    <3>9. Asked(pt', fr', t, r)
      BY <1>2, <3>4, <3>6, <3>7, <3>8 DEF Asked
    <3>. QED BY <1>1, <1>2, <1>3, <2>1, <3>5, <3>6, <3>9, InvIs
  <2>. QED BY <2>2, <2>3
<1>. QED BY <1>4, <1>5

LEMMA DeallocKeeps ==
  ASSUME OlderInv, NEW t \in Threads, Dealloc(t)
  PROVE  OlderInv'
<1>1. /\ Running(t) /\ FindsFree(t) /\ pt' = NewHeadTable(t) /\ fr' = NewHeadBytes(t)
      /\ current_tid' = current_tid /\ os' = os /\ top' = top /\ pending' = pending
  BY DEF Dealloc
<1>2. /\ TableInv(pt') /\ FramesOK(fr') /\ EmptyInv(pt', fr') /\ TopInv(pt', top)
      /\ OpenInv(pt', fr', t, NULL) /\ current_tid = t /\ pending = NoRequest
  BY <1>1, Headed
<1>3. current_tid' \in Threads /\ Chain(os')
  BY <1>1 DEF OlderInv
<1>4. pending' = NoRequest /\ pending' \in Requests /\ OpenInv(pt', fr', current_tid', pending'.page)
  BY <1>1, <1>2, NoRequestIs
<1>. QED BY <1>1, <1>2, <1>3, <1>4, InvIs
LEMMA RequestIs ==
  ASSUME OlderInv, pending # NoRequest
  PROVE  /\ Asked(pt, fr, current_tid, pending) /\ pending \in Requests
         /\ pending = [size |-> pending.size, n |-> pending.n, page |-> pending.page]
         /\ pending.size \in Nat /\ pending.n \in Nat
<1>1. Asked(pt, fr, current_tid, pending) /\ pending \in Requests
  BY DEF OlderInv
<1>. QED BY <1>1 DEF Requests

\* A request that still lacks bytes finds a page.
LEMMA PagesLeft ==
  ASSUME OlderInv, pending # NoRequest, pending.page = NULL
  PROVE  Unused(pt) # {}
<1>1. TableInv(pt) /\ pending.size \in Nat /\ pending.n \in Nat
  BY RequestIs DEF OlderInv
<1>2. PICK size \in Nat, n \in Nat : size = pending.size /\ n = pending.n
  BY <1>1
<1>3. PICK room \in Nat : room = Room(pt)
  BY <1>1, RoomIs
<1>4. size <= HeadSize + (n + room) * PAGE_SIZE /\ size > HeadSize + n * PAGE_SIZE
  <2>1. Asked(pt, fr, current_tid, pending)
    BY RequestIs
  <2>. QED BY <1>2, <1>3, <2>1 DEF Asked
<1>5. room # 0
  <2>1. CASE room = 0
    <3>1. n + room = n
      BY <2>1
    <3>2. size <= HeadSize + n * PAGE_SIZE
      BY <1>4, <3>1
    <3>3. HeadSize + n * PAGE_SIZE \in Nat
      <4>1. n * PAGE_SIZE \in Nat
        BY SizesAre
      <4>. QED BY <4>1, SizesAre
    <3>. QED BY <1>4, <3>2, <3>3
  <2>. QED BY <2>1
<1>. QED BY <1>1, <1>3, <1>5, RoomIs

LEMMA GetPageKeeps ==
  ASSUME OlderInv, GetPage
  PROVE  OlderInv'
<1>. PICK f : f = First(Unused(pt))
  OBVIOUS
<1>. PICK t \in Threads : t = current_tid
  BY DEF OlderInv
<1>1. /\ current_tid' = current_tid /\ os' = os /\ top' = top
      /\ pending # NoRequest /\ pending.page = NULL
      /\ pt' = RequestPage(pt, t, f) /\ fr' = [fr EXCEPT !.open = @ \cup {f}]
      /\ pending' = [pending EXCEPT !.page = f, !.n = @ + 1]
  BY DEF GetPage, Getting
<1>2. /\ TableInv(pt) /\ FramesOK(fr) /\ EmptyInv(pt, fr) /\ TopInv(pt, top) /\ Chain(os)
      /\ OpenInv(pt, fr, t, NULL) /\ TableOK(pt)
  BY <1>1 DEF OlderInv, TableInv
<1>3. Unused(pt) # {}
  BY <1>1, PagesLeft
<1>4. /\ f \in Frames /\ TableInv(pt') /\ Kept(pt, pt') /\ Settled(pt, pt')
      /\ pt'.table[f] = Entry(t, 0)
      /\ \A z \in Frames \ {f} : pt'.table[z] = pt.table[z]
  BY <1>1, <1>2, <1>3, RequestPageKeeps
<1>5. PICK n \in Nat, size \in Nat : n = pending.n /\ size = pending.size
  BY <1>1, RequestIs
<1>6. pt.table[0].tid = t /\ Known(pt, t, n) /\ size <= HeadSize + (n + Room(pt)) * PAGE_SIZE
  <2>1. Asked(pt, fr, current_tid, pending)
    BY <1>1, RequestIs
  <2>. QED BY <1>1, <1>5, <2>1 DEF Asked
<1>7. n < f
  BY <1>2, <1>3, <1>6, KnownIsUsed
<1>8. pt.table[f] = FreeEntry /\ fr.data[f] = Blank
  <2>1. Unused(pt) \in SUBSET Frames
    BY DEF Unused
  <2>2. pt.table[f].inUse = 0
    BY <1>3, <2>1, LeastFrame DEF Unused
  <2>3. pt.table[f].tid \notin Threads
    BY <1>2, <1>4, <2>2, UsedTids DEF TableInv
  <2>. QED BY <1>2, <1>4, <2>2, <2>3, UsedTids DEF EmptyInv, TableInv
<1>9. FramesOK(fr') /\ fr'.data = fr.data /\ fr'.open = fr.open \cup {f} /\ fr'.status = fr.status
  <2>1. fr.open \cup {f} \in SUBSET Frames
    BY <1>2, <1>4, DataAt
  <2>2. fr \in [data : Data, open : SUBSET Frames, status : Statuses]
    BY <1>2, FrameFields
  <2>3. PICK o \in SUBSET Frames : o = fr.open \cup {f}
    BY <2>1
  <2>4. fr' = [fr EXCEPT !.open = o]
    BY <1>1, <2>3
  <2>5. fr' \in [data : Data, open : SUBSET Frames, status : Statuses]
    BY <2>2, <2>4
  <2>6. fr'.data = fr.data /\ fr'.open = o /\ fr'.status = fr.status
    BY <2>2, <2>4
  <2>7. PICK g : g = fr'
    OBVIOUS
  <2>8. FramesOK(g)
    BY <2>5, <2>7, FrameFields
  <2>. QED BY <2>3, <2>6, <2>7, <2>8
<1>10. Entry(t, 0).tid = t /\ Entry(t, 0).inUse = 1
  BY EntryIs
<1>11. EmptyInv(pt', fr')
  <2>1. ASSUME NEW y \in Frames, pt'.table[y].inUse = 0 PROVE fr'.data[y] = Blank
    <3>1. y # f
      BY <1>4, <1>10, <2>1
    <3>. QED BY <1>2, <1>4, <1>9, <2>1, <3>1 DEF EmptyInv
  <2>. QED BY <2>1 DEF EmptyInv
<1>12. TopInv(pt', top')
  <2>1. ASSUME NEW u \in Threads, top[u] # -1 PROVE pt'.table[top[u]].inUse = 1
    <3>1. PICK x \in Frames : x = top[u] /\ pt.table[x].inUse = 1
      BY <1>2, <2>1 DEF TopInv
    <3>. QED BY <1>4, <1>10, <3>1
  <2>. QED BY <1>1, <1>2, <2>1 DEF TopInv
<1>13. PICK r : r = pending'
  OBVIOUS
<1>14. r.size = size /\ r.n = n + 1 /\ r.page = f /\ r \in Requests /\ r.page # NULL
  <2>1. pending = [size |-> size, n |-> n, page |-> NULL]
    BY <1>1, <1>5, RequestIs
  <2>2. r = [size |-> size, n |-> n + 1, page |-> f]
    <3>1. [pending EXCEPT !.page = f] = [size |-> size, n |-> n, page |-> f]
      BY <2>1
    <3>2. PICK m : m = [pending EXCEPT !.page = f]
      OBVIOUS
    <3>3. [m EXCEPT !.n = @ + 1] = [size |-> size, n |-> n + 1, page |-> f]
      <4>1. m = [size |-> size, n |-> n, page |-> f]
        BY <3>1, <3>2, Zenon
      <4>2. \A a, b, c, d : d = [size |-> a, n |-> b, page |-> c] =>
              [d EXCEPT !.n = @ + 1] = [size |-> a, n |-> b + 1, page |-> c]
        OBVIOUS
      <4>. QED BY <4>1, <4>2
    <3>4. pending' = [[pending EXCEPT !.page = f] EXCEPT !.n = @ + 1]
      BY <1>1
    <3>. QED BY <1>13, <3>2, <3>3, <3>4
  <2>. QED BY <1>4, <2>2, NullAssumption DEF Requests
<1>15. Asked(pt', fr', t, r)
  <2>1. f \in Nat /\ n + 1 <= f /\ f # 0 /\ (n + 1) - 1 = n
    BY <1>4, <1>7, FrameNumbers
  <2>2. Known(pt', t, n)
    BY <1>4, <1>6, KnownKept
  <2>3. pt'.table[0].tid = t
    BY <1>4, <1>6, <2>1, FrameNumbers
  <2>4. PageFound(pt', fr', t, r)
    BY <1>4, <1>8, <1>9, <1>14, <2>1, <2>2 DEF PageFound
  <2>5. r.size <= HeadSize + (r.n + Room(pt')) * PAGE_SIZE
    <3>1. /\ pt'.numFreePagesMem = pt.numFreePagesMem - (IF f \in Memory THEN 1 ELSE 0)
          /\ pt'.numFreePagesSF = pt.numFreePagesSF - (IF f \in Memory THEN 0 ELSE 1)
      BY <1>1, <1>2, <1>4, <1>8, RequestPageIs
    <3>2. pt.numFreePagesMem \in Nat /\ pt.numFreePagesSF \in Nat
      BY <1>2, RoomIs
    <3>3. Room(pt') = Room(pt) - 1 /\ Room(pt) \in Nat
      BY <3>1, <3>2 DEF Room
    <3>4. (n + 1) + Room(pt') = n + Room(pt)
      BY <3>3
    <3>. QED BY <1>6, <1>14, <3>4
  <2>. QED BY <1>14, <2>3, <2>4, <2>5 DEF Asked
<1>16. OpenInv(pt', fr', t, f)
  <2>1. ASSUME fr'.status = "ok", \A y \in Frames : y # f => Told(pt', fr', y),
               NEW y \in fr'.open \cap Memory, pt'.table[y].inUse = 1
        PROVE  pt'.table[y].tid = t
    <3>1. CASE y = f
      BY <1>4, <1>10, <3>1
    <3>2. CASE y # f
      <4>1. ASSUME NEW z \in Frames PROVE Told(pt, fr, z)
        <5>1. CASE z = f
          BY <1>8, <5>1 DEF Told, FreeEntry
        <5>2. CASE z # f
          BY <1>4, <1>9, <2>1, <5>2 DEF Told
        <5>. QED BY <5>1, <5>2
      <4>2. y \in fr.open \cap Memory /\ y \in Frames /\ pt'.table[y] = pt.table[y]
        BY <1>4, <1>9, <2>1, <3>2, FrameNumbers
      <4>. QED BY <1>2, <1>9, <2>1, <4>1, <4>2 DEF OpenInv
    <3>. QED BY <3>1, <3>2
  <2>. QED BY <2>1 DEF OpenInv
<1>. QED BY <1>1, <1>2, <1>4, <1>9, <1>11, <1>12, <1>13, <1>14, <1>15, <1>16, InvIs
LEMMA UsePageKeeps ==
  ASSUME OlderInv, UsePage
  PROVE  OlderInv'
<1>. PICK t \in Threads : t = current_tid
  BY DEF OlderInv
<1>0. current_tid' = current_tid /\ os' = os /\ pending # NoRequest /\ pending.page # NULL
  BY DEF UsePage, Getting
<1>1. /\ TableInv(pt) /\ FramesOK(fr) /\ EmptyInv(pt, fr) /\ TopInv(pt, top) /\ Chain(os)
      /\ TableOK(pt) /\ OpenInv(pt, fr, t, pending.page)
  BY DEF OlderInv, TableInv
<1>2. PICK n \in Nat, size \in Nat : n = pending.n /\ size = pending.size
  BY <1>0, RequestIs
<1>3. PICK f : f = pending.page
  OBVIOUS
<1>4. /\ pt.table[0].tid = t /\ size <= HeadSize + (n + Room(pt)) * PAGE_SIZE
      /\ n >= 1 /\ f \in Frames /\ n <= f /\ pt.table[f] = Entry(t, 0) /\ fr.data[f] = Blank
      /\ Known(pt, t, n - 1)
  <2>1. Asked(pt, fr, current_tid, pending)
    BY <1>0, RequestIs
  <2>2. PageFound(pt, fr, t, pending)
    BY <1>0, <2>1 DEF Asked
  <2>. QED BY <1>2, <1>3, <2>1, <2>2 DEF Asked, PageFound
<1>5. n \in Nat \ {0} /\ f \in Frames \ {0} /\ n \in Frames
  BY <1>4, FrameNumbers
<1>6. pt' = TakeNext(pt, t, f, n) /\ fr' = SwapEmptyPage(fr, f, n, <<t, NextNumber(pt, n)>>)
  BY <1>2, <1>3 DEF UsePage
<1>7. /\ NextNumber(pt, n) = n /\ TableInv(pt') /\ pt'.table[0] = pt.table[0] /\ Known(pt', t, n)
  BY <1>1, <1>4, <1>5, <1>6, TakeNextKeeps
<1>8. /\ \A z \in Frames : pt'.table[z] = IF z = n THEN Entry(t, n)
                                          ELSE IF z = f THEN pt.table[n] ELSE pt.table[z]
      /\ pt'.numFreePagesMem = pt.numFreePagesMem /\ pt'.numFreePagesSF = pt.numFreePagesSF
  BY <1>1, <1>5, <1>6, <1>7, TakeNextIs
<1>9. fr' = SwapEmptyPage(fr, f, n, <<t, n>>)
  BY <1>6, <1>7
<1>10. /\ FramesOK(fr') /\ fr'.open = (fr.open \ {f}) \cup {n} /\ fr'.status = fr.status
       /\ \A z \in Frames : fr'.data[z] = IF z = n THEN <<t, n>> ELSE IF z = f THEN fr.data[n] ELSE fr.data[z]
  <2>1. PICK g : g = SwapEmptyPage(fr, f, n, <<t, n>>)
    OBVIOUS
  <2>2. /\ FramesOK(g) /\ g.open = (fr.open \ {f}) \cup {n} /\ g.status = fr.status
        /\ \A z \in Frames : g.data[z] = IF z = n THEN <<t, n>> ELSE IF z = f THEN fr.data[n] ELSE fr.data[z]
    BY <1>1, <1>5, <2>1, SwapEmptyPageIs
  <2>3. fr' = g
    BY <1>9, <2>1
  <2>. QED BY <2>2, <2>3
<1>11. Moved(pt, fr, t, n, f, pt', fr')
  BY <1>8, <1>10 DEF Moved
<1>12. pt.table[f].inUse = 1 => pt.table[n].inUse = 1
  BY <1>1, <1>4, <1>5, Below
<1>13. EmptyInv(pt', fr') /\ TopInv(pt', top) /\ OpenInv(pt', fr', t, NULL)
  <2>1. PICK q, g : q = pt' /\ g = fr'
    OBVIOUS
  <2>2. Moved(pt, fr, t, n, f, q, g) /\ OpenInv(pt, fr, t, f)
    BY <1>1, <1>3, <1>11, <2>1
  <2>3. EmptyInv(q, g) /\ TopInv(q, top) /\ OpenInv(q, g, t, NULL)
    BY <1>1, <1>4, <1>5, <1>12, <2>2, MovedKeeps
  <2>. QED BY <2>1, <2>3
<1>14. PICK r : r = pending'
  OBVIOUS
<1>15. CASE size > HeadSize + n * PAGE_SIZE
  <2>1. r = [pending EXCEPT !.page = NULL] /\ top' = top
    BY <1>2, <1>14, <1>15 DEF UsePage
  <2>2. r.size = size /\ r.n = n /\ r.page = NULL /\ r \in Requests
    <3>1. pending = [size |-> size, n |-> n, page |-> f]
      BY <1>0, <1>2, <1>3, RequestIs
    <3>. QED BY <2>1, <3>1 DEF Requests
  <2>3. Room(pt') = Room(pt)
    BY <1>8 DEF Room
  <2>4. Asked(pt', fr', t, r)
    BY <1>4, <1>7, <1>15, <2>2, <2>3 DEF Asked
  <2>. QED BY <1>0, <1>1, <1>7, <1>10, <1>13, <1>14, <2>1, <2>2, <2>4, InvIs
<1>16. CASE ~ (size > HeadSize + n * PAGE_SIZE)
  <2>1. r = NoRequest /\ Reached(t, n)
    BY <1>2, <1>14, <1>16 DEF UsePage
  <2>2. pt'.table[n].inUse = 1
    BY <1>5, <1>8, EntryIs
  <2>3. TopInv(pt', top')
    <3>1. PICK q : q = pt'
      OBVIOUS
    <3>2. TopInv(q, top')
      BY <1>5, <1>13, <2>1, <2>2, <3>1, ReachedKeeps
    <3>. QED BY <3>1, <3>2
  <2>. QED BY <1>0, <1>1, <1>7, <1>10, <1>13, <1>14, <2>1, <2>3, NoRequestIs, InvIs
<1>. QED BY <1>15, <1>16

\* The page table and what is pending stay.
LEMMA FramesOnly ==
  ASSUME OlderInv, UNCHANGED <<pt, current_tid, os, top, pending>>, pending = NoRequest,
         FramesOK(fr'), EmptyInv(pt, fr'), OpenInv(pt, fr', current_tid, NULL)
  PROVE  OlderInv'
<1>1. pt' = pt /\ current_tid' = current_tid /\ os' = os /\ top' = top /\ pending' = NoRequest
  OBVIOUS
<1>. QED BY <1>1, NoRequestIs, InvIs DEF OlderInv

LEMMA StatusKeepsAll ==
  ASSUME NEW s, FramesOK(s), EmptyInv(pt, s), OpenInv(pt, s, current_tid, NULL), s.status = "ok",
         NEW e \in Statuses, NEW g, g = [s EXCEPT !.status = e]
  PROVE  FramesOK(g) /\ EmptyInv(pt, g) /\ OpenInv(pt, g, current_tid, NULL)
<1>1. FramesOK(g) /\ g.data = s.data /\ g.open = s.open /\ g.status = e
  BY NewStatus
<1>2. EmptyInv(pt, g)
  BY <1>1 DEF EmptyInv
<1>3. OpenInv(pt, g, current_tid, NULL)
  BY <1>1 DEF OpenInv, Told
<1>. QED BY <1>1, <1>2, <1>3

LEMMA AstrayKeeps ==
  ASSUME OlderInv, NEW t \in Threads, Astray(t)
  PROVE  OlderInv'
<1>1. pending = NoRequest /\ fr.status = "ok" /\ fr' = [fr EXCEPT !.status = "wild"]
      /\ UNCHANGED <<pt, current_tid, os, top, pending>>
  BY DEF Astray, Running
<1>2. FramesOK(fr) /\ EmptyInv(pt, fr) /\ OpenInv(pt, fr, current_tid, NULL)
  BY <1>1, NoRequestIs DEF OlderInv
<1>3. PICK e \in Statuses : e = "wild"
  BY DEF Statuses
<1>4. fr' = [fr EXCEPT !.status = e]
  BY <1>1, <1>3
<1>. QED BY <1>1, <1>2, <1>4, StatusKeepsAll, FramesOnly

LEMMA LibraryKeeps ==
  ASSUME OlderInv, NEW t \in Threads,
         \/ \E size \in Sizes : LibraryMalloc(t, size)
         \/ \E i \in 1 .. Len(os) : LibraryFree(t, i)
  PROVE  OlderInv'
<1>0. FramesOK(fr) /\ EmptyInv(pt, fr) /\ Chain(os)
  BY DEF OlderInv
<1>1. /\ pt' = pt /\ current_tid' = current_tid /\ top' = top /\ pending' = pending
      /\ pending = NoRequest /\ fr.status = "ok"
  BY DEF LibraryMalloc, LibraryFree, Running
<1>2. Chain(os') /\ (fr' = fr \/ \E e \in Statuses : fr' = [fr EXCEPT !.status = e])
  BY <1>0, LibraryMallocChain, LibraryFreeChain
<1>3. OpenInv(pt, fr, current_tid, NULL)
  BY <1>1, NoRequestIs DEF OlderInv
<1>4. FramesOK(fr') /\ EmptyInv(pt, fr') /\ OpenInv(pt, fr', current_tid, NULL)
  <2>1. CASE fr' = fr
    BY <1>0, <1>3, <2>1
  <2>2. CASE \E e \in Statuses : fr' = [fr EXCEPT !.status = e]
    BY <1>0, <1>1, <1>3, <2>2, StatusKeepsAll
  <2>. QED BY <1>2, <2>1, <2>2
<1>. QED BY <1>1, <1>2, <1>4, NoRequestIs, InvIs DEF OlderInv

LEMMA SwitchKeeps ==
  ASSUME OlderInv, NEW u \in Threads, Switch(u)
  PROVE  OlderInv'
<1>1. /\ pending' = pending /\ pending = NoRequest /\ current_tid' = u /\ fr' = ProtectOthers(u)
      /\ pt' = pt /\ os' = os /\ top' = top
  BY DEF Switch
<1>2. FramesOK(fr) /\ EmptyInv(pt, fr)
  BY DEF OlderInv
<1>. DEFINE mine == {y \in Memory : pt.table[y].tid = u}
<1>3. PICK o \in SUBSET Frames : o = (fr.open \cap Swap) \cup mine
  <2>1. (fr.open \cap Swap) \cup mine \in SUBSET Frames
    BY FrameNumbers
  <2>. QED BY <2>1
<1>4. fr' = [fr EXCEPT !.open = o]
  BY <1>1, <1>3 DEF ProtectOthers
<1>5. FramesOK(fr') /\ fr'.data = fr.data /\ fr'.open = o /\ fr'.status = fr.status
  <2>1. fr \in [data : Data, open : SUBSET Frames, status : Statuses]
    BY <1>2, FrameFields
  <2>2. fr' \in [data : Data, open : SUBSET Frames, status : Statuses]
    BY <1>4, <2>1
  <2>3. fr'.data = fr.data /\ fr'.open = o /\ fr'.status = fr.status
    BY <1>4, <2>1
  <2>4. PICK g : g = fr'
    OBVIOUS
  <2>5. FramesOK(g)
    BY <2>2, <2>4, FrameFields
  <2>. QED BY <2>3, <2>4, <2>5
<1>6. EmptyInv(pt, fr')
  BY <1>2, <1>5 DEF EmptyInv
<1>7. \A y \in Memory : y \notin Swap
  BY FrameNumbers DEF Memory, Swap
<1>8. OpenInv(pt, fr', u, NULL)
  BY <1>3, <1>5, <1>7 DEF OpenInv
<1>. QED BY <1>1, <1>5, <1>6, <1>8, NoRequestIs, InvIs DEF OlderInv
\* What the handler of a fault, or no fault, has left is gone by.
LEMMA ServedKeeps ==
  ASSUME NEW s, FramesOK(s), EmptyInv(pt, s), NEW t, NEW p,
         s.status = "ok" /\ p \in s.open /\ s.data[p] = <<t, p>> => OpenInv(pt, s, current_tid, NULL)
  PROVE  LET g == Served(s, t, p)
         IN  FramesOK(g) /\ EmptyInv(pt, g) /\ OpenInv(pt, g, current_tid, NULL)
<1>. PICK g : g = Served(s, t, p)
  OBVIOUS
<1>1. s.status \in Statuses
  BY FrameFields
<1>2. ASSUME NEW e \in Statuses, e # "ok", NEW d, d = [s EXCEPT !.status = e]
      PROVE  FramesOK(d) /\ EmptyInv(pt, d) /\ OpenInv(pt, d, current_tid, NULL)
  <2>1. FramesOK(d) /\ d.data = s.data /\ d.open = s.open /\ d.status = e
    BY <1>2, NewStatus
  <2>. QED BY <1>2, <2>1 DEF EmptyInv, OpenInv
<1>3. PICK hang \in Statuses, alien \in Statuses : hang = "hang" /\ alien = "alien"
  BY DEF Statuses
<1>4. CASE s.status # "ok"
  <2>1. g = s
    BY <1>4 DEF Served
  <2>2. OpenInv(pt, s, current_tid, NULL)
    BY <1>4 DEF OpenInv
  <2>. QED BY <2>1, <2>2
<1>5. CASE s.status = "ok" /\ p \notin s.open
  <2>1. g = [s EXCEPT !.status = hang]
    BY <1>3, <1>5 DEF Served
  <2>. QED BY <1>2, <1>3, <2>1
<1>6. CASE s.status = "ok" /\ p \in s.open /\ s.data[p] = <<t, p>>
  <2>1. g = s
    BY <1>6 DEF Served
  <2>. QED BY <1>6, <2>1
<1>7. CASE s.status = "ok" /\ p \in s.open /\ s.data[p] # <<t, p>>
  <2>1. g = [s EXCEPT !.status = alien]
    BY <1>3, <1>7 DEF Served
  <2>. QED BY <1>2, <1>3, <2>1
<1>. QED BY <1>4, <1>5, <1>6, <1>7

\* A fault on frame p that finds t's page p in memory.
LEMMA SwapInMemoryIs ==
  ASSUME FramesOK(fr), NEW t \in Threads, NEW p \in Frames, Holding(pt, t, p) \cap Memory # {}
  PROVE  LET s == SwapInMemory(t, p)
             y == First(Holding(pt, t, p) \cap Memory)
         IN  /\ FramesOK(s) /\ s.status = fr.status /\ s.open = (fr.open \cup {p}) \ {y}
             /\ \A x \in Frames : s.data[x] = IF x = p THEN fr.data[y]
                                               ELSE IF x = y THEN fr.data[p] ELSE fr.data[x]
<1>. DEFINE held == Holding(pt, t, p) \cap Memory
            d == SwapInMemory(t, p)
            y == First(held)
            o == (fr.open \cup {p}) \ {y}
<1>1. y \in Frames
  <2>1. held \in SUBSET Frames
    BY FrameNumbers
  <2>. HIDE DEF held
  <2>. QED BY <2>1, LeastFrame DEF held
<1>2. Rewritten(fr, d, y, fr.data[p], p, fr.data[y], o)
  BY DEF SwapInMemory, Rewritten
<1>. HIDE DEF held, d, y
<1>3. fr.data[p] \in Bytes /\ fr.data[y] \in Bytes /\ o \in SUBSET Frames
  <2>1. fr.open \in SUBSET Frames
    BY DataAt
  <2>. QED BY <1>1, <2>1, DataAt
<1>. HIDE DEF o
<1>4. PICK a \in Bytes, b \in Bytes : a = fr.data[p] /\ b = fr.data[y]
  BY <1>3
<1>5. PICK z \in Frames : z = y
  BY <1>1
<1>6. PICK g, e : g = d /\ e = o
  OBVIOUS
<1>7. Rewritten(fr, g, z, a, p, b, e) /\ e \in SUBSET Frames
  BY <1>2, <1>3, <1>4, <1>5, <1>6
<1>8. /\ FramesOK(g) /\ g.status = fr.status /\ g.open = e
      /\ \A x \in Frames : g.data[x] = IF x = p THEN b ELSE IF x = z THEN a ELSE fr.data[x]
  BY <1>7, NewData
<1>. QED BY <1>4, <1>5, <1>6, <1>8 DEF d, o, y, held

\* If the page table tells the truth after a fault that was served, it did so
\* before, and the bytes that were exchanged are the same.
LEMMA TouchKeeps ==
  ASSUME OlderInv, NEW t \in Threads, NEW p \in 0 .. top[t], Touch(t, p)
  PROVE  OlderInv'
<1>1. /\ UNCHANGED <<pt, current_tid, os, top, pending>>
      /\ pending = NoRequest /\ fr.status = "ok" /\ current_tid = t
      /\ fr' = Served(IF p \in fr.open THEN fr ELSE SwapInMemory(t, p), t, p)
  BY DEF Touch, Running
<1>2. FramesOK(fr) /\ EmptyInv(pt, fr) /\ TableInv(pt) /\ TableOK(pt) /\ Filled(pt) /\ OpenInv(pt, fr, t, NULL)
  BY <1>1, NoRequestIs DEF OlderInv, TableInv
<1>3. p \in Frames /\ pt.table[p].inUse = 1
  <2>1. top[t] \in Frames \cup {-1} /\ (top[t] # -1 => pt.table[top[t]].inUse = 1)
    BY DEF OlderInv, TopInv
  <2>2. top[t] # -1
    <3>1. \A k : ~ (k \in 0 .. -1)
      OBVIOUS
    <3>. QED BY <3>1
  <2>3. PICK x \in Frames : x = top[t] /\ pt.table[x].inUse = 1
    BY <2>1, <2>2
  <2>4. p \in Frames /\ p <= x
    BY <2>3, FrameNumbers
  <2>. QED BY <1>2, <2>3, <2>4, Below
<1>4. ASSUME NEW s, fr' = Served(s, t, p), FramesOK(s), EmptyInv(pt, s),
             s.status = "ok" /\ p \in s.open /\ s.data[p] = <<t, p>> => OpenInv(pt, s, current_tid, NULL)
      PROVE  OlderInv'
  <2>1. PICK g : g = Served(s, t, p)
    OBVIOUS
  <2>2. FramesOK(g) /\ EmptyInv(pt, g) /\ OpenInv(pt, g, current_tid, NULL)
    BY <1>4, <2>1, ServedKeeps
  <2>3. fr' = g
    BY <1>4, <2>1
  <2>. QED BY <1>1, <2>2, <2>3, FramesOnly
<1>5. CASE p \in fr.open
  <2>1. fr' = Served(fr, t, p)
    BY <1>1, <1>5
  <2>. QED BY <1>1, <1>2, <1>4, <2>1
<1>6. CASE p \notin fr.open
  <2>. DEFINE held == Holding(pt, t, p) \cap Memory
  <2>1. PICK s : s = SwapInMemory(t, p)
    OBVIOUS
  <2>2. fr' = Served(s, t, p)
    BY <1>1, <1>6, <2>1
  <2>3. CASE held = {}
    <3>1. PICK e \in Statuses : e = "exit"
      BY DEF Statuses
    <3>2. s = [fr EXCEPT !.status = e]
      BY <2>1, <2>3, <3>1 DEF SwapInMemory
    <3>3. FramesOK(s) /\ s.data = fr.data /\ s.open = fr.open /\ s.status = e
      BY <1>2, <3>2, NewStatus
    <3>4. EmptyInv(pt, s) /\ s.status # "ok"
      BY <1>2, <3>1, <3>3 DEF EmptyInv
    <3>. QED BY <1>4, <2>2, <3>3, <3>4
  <2>4. CASE held # {}
    <3>1. PICK y : y = First(held)
      OBVIOUS
    <3>2. y \in held /\ y \in Frames
      <4>1. held \in SUBSET Frames
        BY FrameNumbers
      <4>. QED BY <2>4, <3>1, <4>1, LeastFrame
    <3>3. pt.table[y].tid = t /\ pt.table[y].page_num = p /\ pt.table[y].inUse = 1
      <4>1. pt.table[y].tid = t /\ pt.table[y].page_num = p
        BY <3>2 DEF Holding
      <4>. QED BY <1>2, <3>2, <4>1, UsedTids
    <3>4. PICK g, o : g = s /\ o = (fr.open \cup {p}) \ {y}
      OBVIOUS
    <3>5. PICK a, b : a = fr.data[p] /\ b = fr.data[y]
      OBVIOUS
    <3>9. /\ FramesOK(g) /\ g.status = fr.status /\ g.open = o
          /\ \A x \in Frames : g.data[x] = IF x = p THEN b ELSE IF x = y THEN a ELSE fr.data[x]
      BY <1>2, <1>3, <2>1, <2>4, <3>1, <3>4, <3>5, SwapInMemoryIs
    <3>10. EmptyInv(pt, g)
      BY <1>2, <1>3, <3>2, <3>3, <3>9 DEF EmptyInv
    <3>11. ASSUME g.status = "ok", p \in g.open, g.data[p] = <<t, p>>
           PROVE  OpenInv(pt, g, current_tid, NULL)
      <4>1. p # y /\ b = <<t, p>> /\ g.data[y] = a
        BY <1>3, <3>2, <3>4, <3>9, <3>11
      <4>2. ASSUME \A z \in Frames : z # NULL => Told(pt, g, z),
                   NEW z \in g.open \cap Memory, pt.table[z].inUse = 1
            PROVE  pt.table[z].tid = t
        <5>0. \A x \in Frames : Told(pt, g, x)
          BY <4>2, NullAssumption
        <5>1. a = <<t, p>>
          BY <3>2, <3>3, <4>1, <5>0 DEF Told
        <5>2. ASSUME NEW x \in Frames PROVE Told(pt, fr, x)
          <6>1. g.data[x] = fr.data[x]
            BY <3>5, <3>9, <4>1, <5>1
          <6>. QED BY <5>0, <6>1 DEF Told
        <5>3. CASE z = p
          <6>1. <<t, p>> = <<pt.table[p].tid, pt.table[p].page_num>>
            BY <1>3, <3>11, <5>0 DEF Told
          <6>. QED BY <5>3, <6>1
        <5>4. CASE z # p
          <6>1. z \in fr.open \cap Memory
            BY <3>4, <3>9, <4>2, <5>4
          <6>. QED BY <1>1, <1>2, <4>2, <5>2, <6>1 DEF OpenInv
        <5>. QED BY <5>3, <5>4
      <4>. QED BY <1>1, <4>2 DEF OpenInv
    <3>. QED BY <1>4, <2>2, <3>4, <3>9, <3>10, <3>11
  <2>. QED BY <2>3, <2>4
<1>. QED BY <1>5, <1>6
-----------------------------------------------------------------------------
(***************************************************************************)
(* The theorems                                                            *)
(***************************************************************************)

LEMMA InitHolds ==
  ASSUME Init
  PROVE  OlderInv
<1>1. /\ pt = InitTable /\ fr = InitFrames /\ current_tid \in Threads /\ os = InitMem(OS_SIZE)
      /\ top = [t \in Threads |-> -1] /\ pending = NoRequest
  BY DEF Init
<1>2. /\ TableInv(pt) /\ FramesOK(fr)
      /\ \A y \in Frames : pt.table[y].inUse = 0 /\ fr.data[y] = Blank
  BY <1>1, InitPages DEF FreeEntry
<1>3. EmptyInv(pt, fr) /\ TopInv(pt, top)
  BY <1>1, <1>2 DEF EmptyInv, TopInv
<1>4. OpenInv(pt, fr, current_tid, NULL)
  <2>1. \A y \in fr.open \cap Memory : y \in Frames
    BY FrameNumbers
  <2>2. \A y \in fr.open \cap Memory : pt.table[y].inUse # 1
    BY <1>2, <2>1
  <2>. QED BY <2>2 DEF OpenInv
<1>. QED BY <1>1, <1>2, <1>3, <1>4, InitMemChain, NoRequestIs DEF OlderInv

LEMMA OlderSteps ==
  ASSUME OlderInv, [Next]_vars
  PROVE  OlderInv'
<1>1. CASE \E t \in Threads : Astray(t)
  BY <1>1, AstrayKeeps
<1>2. CASE \E t \in Threads : Dealloc(t)
  BY <1>2, DeallocKeeps
<1>3. CASE \E t \in Threads, size \in Sizes : Malloc(t, size)
  BY <1>3, MallocKeeps
<1>4. CASE \E t \in Threads, size \in Sizes : LibraryMalloc(t, size)
  BY <1>4, LibraryKeeps
<1>5. CASE GetPage
  BY <1>5, GetPageKeeps
<1>6. CASE UsePage
  BY <1>6, UsePageKeeps
<1>7. CASE \E t \in Threads : \E p \in 0 .. top[t] : Touch(t, p)
  BY <1>7, TouchKeeps
<1>8. CASE \E t \in Threads : \E i \in 1 .. Len(os) : LibraryFree(t, i)
  BY <1>8, LibraryKeeps
<1>9. CASE \E u \in Threads : Switch(u)
  BY <1>9, SwitchKeeps
<1>10. CASE vars' = vars
  BY <1>10 DEF vars, OlderInv
<1>. QED BY <1>1, <1>2, <1>3, <1>4, <1>5, <1>6, <1>7, <1>8, <1>9, <1>10 DEF Next

LEMMA OlderInvImplies ==
  ASSUME OlderInv
  PROVE  TypeOK /\ PagesSuffice /\ ChainLinked /\ Isolated
<1>1. /\ TableInv(pt) /\ TableOK(pt) /\ FramesOK(fr) /\ EmptyInv(pt, fr) /\ TopInv(pt, top)
      /\ current_tid \in Threads /\ Chain(os) /\ pending \in Requests
      /\ OpenInv(pt, fr, current_tid, pending.page)
  BY DEF OlderInv, TableInv
<1>2. TypeOK
  BY <1>1 DEF TypeOK, TopInv, Chain, Block, Headers, Requests
<1>3. PagesSuffice
  BY PagesLeft DEF PagesSuffice
<1>4. ChainLinked
  <2>1. 1 \in 1 .. Len(os) /\ \A i \in 2 .. Len(os) : i \in 1 .. Len(os) /\ i # 1
    BY <1>1 DEF Chain
  <2>. QED BY <1>1, <2>1 DEF ChainLinked, Chain, Linked
<1>5. Isolated
  <2>1. ASSUME fr.status = "ok", TableMatches(pt, fr), NEW y \in fr.open \cap Memory, fr.data[y] # Blank
        PROVE  fr.data[y][1] = current_tid
    <3>1. y \in Frames /\ pt.table[y].inUse = 1 /\ fr.data[y] = <<pt.table[y].tid, pt.table[y].page_num>>
      BY <2>1, FrameNumbers DEF TableMatches
    <3>2. \A z \in Frames : z # pending.page => Told(pt, fr, z)
      BY <2>1 DEF TableMatches, Told
    <3>3. pt.table[y].tid = current_tid
      BY <1>1, <2>1, <3>1, <3>2 DEF OpenInv
    <3>. QED BY <3>1, <3>3
  <2>. QED BY <2>1 DEF Isolated
<1>. QED BY <1>2, <1>3, <1>4, <1>5

\* The invariant is inductive, whatever the threads and the library ask for, free and
\* access.
THEOREM OlderInvariant == Spec => []OlderInv
<1>1. Init => OlderInv
  BY InitHolds
<1>2. OlderInv /\ [Next]_vars => OlderInv'
  BY OlderSteps
<1>. QED BY <1>1, <1>2, PTL DEF Spec

\* Every state is typed.
THEOREM OlderTyped == Spec => []TypeOK
<1>1. OlderInv => TypeOK
  BY OlderInvImplies
<1>. QED BY <1>1, OlderInvariant, PTL

\* A request that the tests for insufficient memory let pass finds a page each time
\* it needs one.
THEOREM PagesAreEnough == Spec => []PagesSuffice
<1>1. OlderInv => PagesSuffice
  BY OlderInvImplies
<1>. QED BY <1>1, OlderInvariant, PTL

\* The headers of the OS region tile it and lead back from each block to the one
\* before, whatever was cut and merged.
THEOREM ChainIsLinked == Spec => []ChainLinked
<1>1. OlderInv => ChainLinked
  BY OlderInvImplies
<1>. QED BY <1>1, OlderInvariant, PTL

\* As long as the page table tells the truth, no thread can access a page in memory
\* that is another's.
THEOREM ThreadsAreIsolated == Spec => []Isolated
<1>1. OlderInv => Isolated
  BY OlderInvImplies
<1>. QED BY <1>1, OlderInvariant, PTL
=============================================================================

--------------------------- MODULE AllocatorProofs ---------------------------
(***************************************************************************)
(* The submitted allocator: whatever is asked for and freed, and however   *)
(* the pages are moved meanwhile, the counters say how many pages are      *)
(* free, no number of a thread's pages is missing, no page's bytes are     *)
(* lost, a page that a request has got is empty until it is used, and from *)
(* a page table that tells the truth a thread reaches its own pages only.  *)
(* For any number of threads and pages and any sizes; no thread is         *)
(* switched out in the middle of myallocate().                             *)
(***************************************************************************)
EXTENDS Allocator, PagingProofs

\* A chain that has a header.
Chain(h) == /\ h \in Seq(Block) /\ h # <<>>
            /\ \A i \in 1 .. Len(h) : Free(h[i]) => i = Len(h)

-----------------------------------------------------------------------------
(***************************************************************************)
(* Accesses                                                                *)
(***************************************************************************)

\* The k-th access, for what accessed has done.
NextAccess(p, s, t, ps, k, before) == IF k = 0 THEN s ELSE Access(p, before, t, ps[k])

Accesses(p, s, t, ps, n, g) ==
  g = [k \in 0 .. n |-> NextAccess(p, s, t, ps, k, g[k - 1])]

LEMMA AccessesExist ==
  ASSUME NEW p, NEW s, NEW t, NEW ps, NEW n \in Nat
  PROVE  \E g : Accesses(p, s, t, ps, n, g)
<1>. DEFINE S == {x \in Nat : ~ \E g : Accesses(p, s, t, ps, x, g)}
<1>. SUFFICES S = {}
  OBVIOUS
<1>. SUFFICES ASSUME S # {} PROVE FALSE
  OBVIOUS
<1>1. PICK x \in S : \A y \in S : x <= y
  BY LeastNat
<1>2. CASE x = 0
  <2>. DEFINE g == [k \in 0 .. 0 |-> s]
  <2>1. g = [k \in 0 .. 0 |-> NextAccess(p, s, t, ps, k, g[k - 1])]
    BY DEF NextAccess
  <2>. QED BY <1>1, <1>2, <2>1 DEF Accesses
<1>3. CASE x # 0
  <2>1. x - 1 \in Nat /\ x - 1 \notin S /\ x \in Nat
    BY <1>1, <1>3
  <2>2. PICK g : Accesses(p, s, t, ps, x - 1, g)
    BY <2>1
  <2>3. \A k \in 0 .. (x - 1) : g[k] = NextAccess(p, s, t, ps, k, g[k - 1])
    BY <2>2 DEF Accesses
  <2>. DEFINE h == [k \in 0 .. x |-> IF k = x THEN NextAccess(p, s, t, ps, x, g[x - 1]) ELSE g[k]]
  <2>4. ASSUME NEW k \in 0 .. x PROVE h[k] = NextAccess(p, s, t, ps, k, h[k - 1])
    <3>1. CASE k = 0
      <4>1. h[k] = g[k] /\ g[k] = s
        BY <1>3, <2>1, <2>3, <3>1 DEF NextAccess
      <4>. QED BY <3>1, <4>1 DEF NextAccess
    <3>2. CASE k # 0
      <4>1. k - 1 \in 0 .. (x - 1) /\ k - 1 \in 0 .. x /\ k - 1 # x
        BY <2>1, <3>2
      <4>2. h[k - 1] = g[k - 1]
        BY <4>1
      <4>3. CASE k = x
        BY <4>2, <4>3
      <4>4. CASE k # x
        <5>1. k \in 0 .. (x - 1)
          BY <2>1, <4>4
        <5>. QED BY <2>3, <4>2, <4>4, <5>1
      <4>. QED BY <4>3, <4>4
    <3>. QED BY <3>1, <3>2
  <2>5. h = [k \in 0 .. x |-> h[k]]
    OBVIOUS
  <2>. HIDE DEF h
  <2>6. h = [k \in 0 .. x |-> NextAccess(p, s, t, ps, k, h[k - 1])]
    BY <2>4, <2>5
  <2>. QED BY <1>1, <2>6 DEF Accesses
<1>. QED BY <1>2, <1>3

Steps(p, s, t, ps, n, g) == /\ AccessPages(p, s, t, ps) = g[n]
                            /\ g[0] = s
                            /\ \A k \in 1 .. n : g[k] = Access(p, g[k - 1], t, ps[k])

LEMMA AccessPagesIs ==
  ASSUME NEW p, NEW s, NEW t, NEW ps, Len(ps) \in Nat
  PROVE  \E g : Steps(p, s, t, ps, Len(ps), g)
<1>. DEFINE N == Len(ps)
            Body(g) == [k \in 0 .. N |-> IF k = 0 THEN s ELSE Access(p, g[k - 1], t, ps[k])]
            r == CHOOSE h : h = Body(h)
<1>1. PICK g : Accesses(p, s, t, ps, N, g)
  BY AccessesExist
<1>2. g = Body(g)
  BY <1>1 DEF Accesses, NextAccess
<1>3. AccessPages(p, s, t, ps) = r[N]
  BY DEF AccessPages
<1>. HIDE DEF Body, r
<1>4. r = Body(r)
  BY <1>2, Zenon DEF r
<1>5. \A k \in 0 .. N : r[k] = IF k = 0 THEN s ELSE Access(p, r[k - 1], t, ps[k])
  BY <1>4 DEF Body
<1>6. 0 \in 0 .. N /\ \A k \in 1 .. N : k \in 0 .. N /\ k # 0
  OBVIOUS
<1>. HIDE DEF N
<1>7. r[0] = s /\ \A k \in 1 .. N : r[k] = Access(p, r[k - 1], t, ps[k])
  BY <1>5, <1>6
<1>. QED BY <1>3, <1>7 DEF N, Steps

\* Whoever gets through its accesses has found each of the pages.
LEMMA AccessPagesKeeps ==
  ASSUME NEW p, NEW s, PagesInv(p, s), NEW t \in Threads, NEW ps, Len(ps) \in Nat,
         \A k \in 1 .. Len(ps) : ps[k] \in Nat
  PROVE  LET a == AccessPages(p, s, t, ps)
         IN  /\ PagesInv(p, a)
             /\ a.status = "ok" => /\ s.status = "ok"
                                   /\ \A k \in 1 .. Len(ps) : Known(p, t, ps[k])
<1>. DEFINE N == Len(ps)
<1>0. PICK g : Steps(p, s, t, ps, N, g)
  BY AccessPagesIs
<1>1. /\ AccessPages(p, s, t, ps) = g[N]
      /\ g[0] = s
      /\ \A k \in 1 .. N : g[k] = Access(p, g[k - 1], t, ps[k])
  BY <1>0 DEF Steps
<1>. DEFINE Good(k) == /\ PagesInv(p, g[k])
                       /\ g[k].status = "ok" => /\ s.status = "ok"
                                                /\ \A j \in 1 .. k : Known(p, t, ps[j])
            S == {k \in 0 .. N : ~ Good(k)}
<1>2. Good(0)
  BY <1>1
<1>. HIDE DEF N
<1>6. N \in Nat
  BY DEF N
<1>3. ASSUME NEW k \in 1 .. N, Good(k - 1) PROVE Good(k)
  <2>1. ps[k] \in Nat /\ g[k] = Access(p, g[k - 1], t, ps[k]) /\ PagesInv(p, g[k - 1])
    BY <1>1, <1>3 DEF N
  <2>2. PagesInv(p, g[k]) /\ (g[k].status = "ok" => g[k - 1].status = "ok" /\ Known(p, t, ps[k]))
    BY <2>1, AccessKeeps
  <2>3. \A j \in 1 .. k : j = k \/ j \in 1 .. (k - 1)
    BY <1>6
  <2>. QED BY <1>3, <2>2, <2>3
<1>4. S = {}
  <2>. SUFFICES ASSUME S # {} PROVE FALSE
    OBVIOUS
  <2>. HIDE DEF Good
  <2>0. S \in SUBSET Nat
    BY <1>6
  <2>1. PICK m \in S : \A j \in S : m <= j
    BY <2>0, LeastNat
  <2>2. m # 0
    BY <1>2
  <2>3. m \in 1 .. N /\ m - 1 \in 0 .. N /\ m - 1 \notin S
    BY <1>6, <2>1, <2>2
  <2>4. Good(m - 1)
    BY <2>3
  <2>. QED BY <1>3, <2>3, <2>4
<1>5. Good(N)
  <2>. HIDE DEF Good
  <2>1. N \in 0 .. N
    BY <1>6
  <2>. QED BY <1>4, <2>1
<1>. QED BY <1>1, <1>5 DEF N

-----------------------------------------------------------------------------
(***************************************************************************)
(* The chain of headers                                                    *)
(***************************************************************************)

LEMMA BlockIs ==
  ASSUME NEW at \in Nat, NEW size \in Nat \ {0}, NEW e \in {0, 1}, NEW q \in Nat \cup {NULL, Unset}
  PROVE  Meta(at, size, e, q) \in Block
BY DEF Meta, Block

LEMMA FieldsAre ==
  ASSUME NEW at, NEW size, NEW e, NEW q
  PROVE  LET b == Meta(at, size, e, q)
         IN  /\ b.at = at /\ b.size = size /\ b.is_free = e /\ b.prev = q
             /\ Free(b) <=> e = 1
BY DEF Meta, Free

LEMMA BlockAt ==
  ASSUME NEW h \in Seq(Block), NEW i \in 1 .. Len(h)
  PROVE  /\ h[i] \in Block
         /\ h[i].at \in Nat /\ h[i].size \in Nat \ {0}
         /\ h[i].is_free \in {0, 1} /\ h[i].prev \in Nat \cup {NULL, Unset}
         /\ After(h[i]) \in Nat
<1>1. h[i] \in Block
  BY ElementOfSeq
<1>2. /\ h[i].at \in Nat /\ h[i].size \in Nat \ {0}
      /\ h[i].is_free \in {0, 1} /\ h[i].prev \in Nat \cup {NULL, Unset}
  BY <1>1 DEF Block
<1>. QED BY <1>1, <1>2, SizesAssumption DEF After

LEMMA BlocksAre ==
  /\ Block = Headers(Nat \cup {NULL, Unset})
  /\ \A at, size, e, q : Meta(at, size, e, q) = Header(at, size, e, q)
BY DEF Block, Headers, Meta, Header

LEMMA ResizeIs ==
  ASSUME NEW h \in Seq(Block), NEW i \in 1 .. Len(h), NEW size \in Nat \ {0}, NEW e \in {0, 1},
         NEW g, g = Resized(h, i, size, e)
  PROVE  /\ g \in Seq(Block) /\ Len(g) = Len(h)
         /\ \A j \in 1 .. Len(h) : g[j] = IF j = i THEN Meta(h[i].at, size, e, h[i].prev) ELSE h[j]
<1>. PICK Q : Q = Nat \cup {NULL, Unset}
  OBVIOUS
<1>1. h \in Seq(Headers(Q)) /\ Block = Headers(Q)
  BY BlocksAre
<1>2. /\ g \in Seq(Headers(Q)) /\ Len(g) = Len(h)
      /\ \A j \in 1 .. Len(h) : g[j] = IF j = i THEN Header(h[i].at, size, e, h[i].prev) ELSE h[j]
  BY <1>1, ResizeHeader
<1>. QED BY <1>1, <1>2, BlocksAre

LEMMA RefitIs ==
  ASSUME NEW h \in Seq(Block), NEW i \in 1 .. Len(h)
  PROVE  /\ \A n : Grown(h, i, n) = Resized(h, i, h[i].size + n, h[i].is_free)
         /\ \A e : Marked(h, i, e) = Resized(h, i, h[i].size, e)
<1>. PICK Q : Q = Nat \cup {NULL, Unset}
  OBVIOUS
<1>1. h \in Seq(Headers(Q))
  BY BlocksAre
<1>. QED BY <1>1, RefitHeader

LEMMA LinkIs ==
  ASSUME NEW h \in Seq(Block), NEW i \in 1 .. Len(h), NEW q \in Nat,
         NEW g, g = [h EXCEPT ![i].prev = q]
  PROVE  /\ g \in Seq(Block) /\ Len(g) = Len(h)
         /\ \A j \in 1 .. Len(h) : g[j] = IF j = i THEN Meta(h[i].at, h[i].size, h[i].is_free, q) ELSE h[j]
<1>. PICK Q : Q = Nat \cup {NULL, Unset}
  OBVIOUS
<1>1. h \in Seq(Headers(Q)) /\ Block = Headers(Q) /\ q \in Q /\ g = Relinked(h, i, q)
  BY BlocksAre DEF Relinked
<1>2. /\ g \in Seq(Headers(Q)) /\ Len(g) = Len(h)
      /\ \A j \in 1 .. Len(h) : g[j] = IF j = i THEN Header(h[i].at, h[i].size, h[i].is_free, q) ELSE h[j]
  BY <1>1, LinkHeader, SMTT(30)
<1>. QED BY <1>1, <1>2, BlocksAre

LEMMA ChainLength ==
  ASSUME NEW h, Chain(h)
  PROVE  h \in Seq(Block) /\ Len(h) \in Nat \ {0} /\ Len(h) \in 1 .. Len(h)
<1>1. h \in Seq(Block) /\ Len(h) \in Nat \ {0}
  BY EmptySeq DEF Chain
<1>2. \A n \in Nat \ {0} : n \in 1 .. n
  OBVIOUS
<1>. QED BY <1>1, <1>2

\* initMem() makes one free block.
LEMMA InitMemChain ==
  ASSUME NEW o, NEW size \in Nat, size > META
  PROVE  Chain(InitMem(o, size))
<1>. DEFINE b == Meta(0, size - META, 1, NULL)
<1>1. b \in Block /\ Free(b)
  <2>1. 0 \in Nat /\ size - META \in Nat \ {0} /\ 1 \in {0, 1} /\ NULL \in Nat \cup {NULL, Unset}
    BY SizesAssumption
  <2>2. PICK n \in Nat \ {0}, q \in Nat \cup {NULL, Unset} : n = size - META /\ q = NULL
    BY <2>1
  <2>3. Meta(0, n, 1, q) \in Block /\ Free(Meta(0, n, 1, q))
    BY <2>1, BlockIs, FieldsAre
  <2>. QED BY <2>2, <2>3
<1>. HIDE DEF b
<1>2. <<b>> \in Seq(Block) /\ Len(<<b>>) = 1 /\ <<b>> # <<>>
  BY <1>1
<1>3. InitMem(o, size) = <<b>>
  BY DEF InitMem, b
<1>. QED BY <1>2, <1>3 DEF Chain

\* myallocate() stops at the last block, whether it fits or not.
LEMMA FoundIs ==
  ASSUME NEW h, Chain(h), NEW size
  PROVE  Found(h, size) = Len(h)
<1>. DEFINE fits == {i \in 1 .. Len(h) : Free(h[i]) /\ h[i].size >= size}
<1>1. fits \cup {Len(h)} = {Len(h)}
  BY DEF Chain
<1>2. Len(h) \in Nat
  BY ChainLength
<1>. HIDE DEF fits
<1>3. First({Len(h)}) = Len(h)
  BY <1>2 DEF First
<1>. QED BY <1>1, <1>3 DEF Found, fits

LEMMA TakeKeeps ==
  ASSUME NEW h, Chain(h), NEW i, i = Len(h), Free(h[i]),
         NEW size \in Nat \ {0}, h[i].size >= size, NEW w
  PROVE  LET g == Take(h, i, size, w)
         IN  Chain(g) /\ i \in 1 .. Len(g) /\ (Len(g) > Len(h) => i + 1 \in 1 .. Len(g))
<1>. DEFINE g == Take(h, i, size, w)
<1>0. h \in Seq(Block) /\ i \in Nat \ {0} /\ i \in 1 .. Len(h)
  BY ChainLength
<1>1. /\ h[i].at \in Nat /\ h[i].size \in Nat \ {0} /\ h[i].prev \in Nat \cup {NULL, Unset}
      /\ META \in Nat \ {0} /\ 0 \in {0, 1} /\ 1 \in {0, 1}
  BY <1>0, BlockAt, SizesAssumption
<1>2. \A j \in 1 .. Len(h) : j # i => ~ Free(h[j])
  BY DEF Chain
<1>3. ASSUME NEW z \in Nat \ {0}, NEW c, c = Resized(h, i, z, 0)
      PROVE  c \in Seq(Block) /\ Len(c) = Len(h) /\ \A j \in 1 .. Len(h) : ~ Free(c[j])
  <2>1. /\ c \in Seq(Block) /\ Len(c) = Len(h)
        /\ \A j \in 1 .. Len(h) : c[j] = IF j = i THEN Meta(h[i].at, z, 0, h[i].prev) ELSE h[j]
    BY <1>0, <1>1, <1>3, ResizeIs
  <2>2. ~ Free(Meta(h[i].at, z, 0, h[i].prev))
    BY FieldsAre
  <2>. QED BY <1>2, <2>1, <2>2
<1>4. CASE h[i].size > size + META
  <2>. DEFINE at  == h[i].at + META + size
              rest == h[i].size - META - size
              prev == IF at < w THEN Unset ELSE NULL
  <2>1. PICK c : c = Resized(h, i, size, 0)
    OBVIOUS
  <2>2. c \in Seq(Block) /\ Len(c) = Len(h) /\ \A j \in 1 .. Len(h) : ~ Free(c[j])
    BY <1>3, <2>1
  <2>3. at \in Nat /\ rest \in Nat \ {0} /\ prev \in Nat \cup {NULL, Unset}
    <3>1. \A a, m, z \in Nat : a + m + z \in Nat
      OBVIOUS
    <3>2. \A m, z, n \in Nat : n > z + m => n - m - z \in Nat \ {0}
      OBVIOUS
    <3>3. at \in Nat
      BY <1>1, <3>1
    <3>4. rest \in Nat \ {0}
      BY <1>1, <1>4, <3>2
    <3>5. prev \in Nat \cup {NULL, Unset}
      OBVIOUS
    <3>. QED BY <3>3, <3>4, <3>5
  <2>. HIDE DEF at, rest, prev
  <2>4. PICK new \in Block : new = Meta(at, rest, 1, prev)
    BY <1>1, <2>3, BlockIs
  <2>5. g = InsertAt(c, Len(c) + 1, new)
    BY <1>4, <2>1, <2>2, <2>4 DEF Take, OrganizeMem, Resized, at, rest, prev
  <2>. HIDE DEF g
  <2>6. /\ g \in Seq(Block) /\ Len(g) = Len(c) + 1
        /\ \A j \in 1 .. Len(g) : g[j] = IF j = Len(c) + 1 THEN new ELSE c[j]
    <3>1. PICK d : d = g
      OBVIOUS
    <3>2. /\ d \in Seq(Block) /\ Len(d) = Len(c) + 1
          /\ \A j \in 1 .. Len(d) : d[j] = IF j = Len(c) + 1 THEN new ELSE c[j]
      BY <2>2, <2>5, <3>1, AppendIs
    <3>. QED BY <3>1, <3>2
  <2>7. g # <<>> /\ i \in 1 .. Len(g) /\ i + 1 \in 1 .. Len(g)
    <3>1. Len(<<>>) = 0
      OBVIOUS
    <3>2. Len(g) = i + 1
      BY <2>2, <2>6
    <3>. QED BY <1>0, <3>1, <3>2
  <2>8. ASSUME NEW j \in 1 .. Len(g), Free(g[j]) PROVE j = Len(g)
    <3>1. j = Len(c) + 1 \/ j \in 1 .. Len(h)
      BY <1>0, <2>2, <2>6
    <3>. QED BY <2>2, <2>6, <2>8, <3>1
  <2>. QED BY <2>6, <2>7, <2>8 DEF Chain, g
<1>5. CASE ~ (h[i].size > size + META)
  <2>1. g = Marked(h, i, 0)
    BY <1>5 DEF Take, Marked
  <2>2. Marked(h, i, 0) = Resized(h, i, h[i].size, 0)
    BY <1>0, RefitIs
  <2>. HIDE DEF g
  <2>3. g \in Seq(Block) /\ Len(g) = Len(h) /\ \A j \in 1 .. Len(h) : ~ Free(g[j])
    <3>1. g = Resized(h, i, h[i].size, 0)
      BY <2>1, <2>2, Zenon
    <3>. QED BY <1>1, <1>3, <3>1
  <2>4. g # <<>>
    <3>1. Len(<<>>) = 0
      OBVIOUS
    <3>. QED BY <1>0, <2>3, <3>1
  <2>. QED BY <1>0, <2>3, <2>4 DEF Chain, g
<1>. QED BY <1>4, <1>5

\* A chain whose blocks are as free as before is a chain.
LEMMA SameFlags ==
  ASSUME NEW h, Chain(h), NEW g \in Seq(Block), Len(g) = Len(h),
         \A j \in 1 .. Len(h) : Free(g[j]) => Free(h[j])
  PROVE  Chain(g)
<1>1. Len(h) \in Nat \ {0}
  BY ChainLength
<1>2. g # <<>>
  <2>1. Len(<<>>) = 0
    OBVIOUS
  <2>. QED BY <1>1, <2>1
<1>. QED BY <1>2 DEF Chain

\* What a block that grows looks like.
LEMMA GrownIs ==
  ASSUME NEW h, Chain(h), NEW i \in 1 .. Len(h), NEW n \in Nat
  PROVE  LET g == Grown(h, i, n)
         IN  /\ Chain(g) /\ Len(g) = Len(h)
             /\ \A j \in 1 .. Len(h) : g[j].at = h[j].at /\ (Free(g[j]) <=> Free(h[j]))
<1>. DEFINE g == Grown(h, i, n)
<1>0. h \in Seq(Block)
  BY ChainLength
<1>1. g = Resized(h, i, h[i].size + n, h[i].is_free)
  BY <1>0, RefitIs
<1>2. h[i].size + n \in Nat \ {0} /\ h[i].is_free \in {0, 1}
  BY <1>0, BlockAt
<1>3. PICK z \in Nat \ {0}, e \in {0, 1} : z = h[i].size + n /\ e = h[i].is_free
  BY <1>2
<1>4. PICK c : c = Resized(h, i, z, e)
  OBVIOUS
<1>5. /\ c \in Seq(Block) /\ Len(c) = Len(h)
      /\ \A j \in 1 .. Len(h) : c[j] = IF j = i THEN Meta(h[i].at, z, e, h[i].prev) ELSE h[j]
  BY <1>0, <1>4, ResizeIs
<1>6. Meta(h[i].at, z, e, h[i].prev).at = h[i].at /\ (Free(Meta(h[i].at, z, e, h[i].prev)) <=> Free(h[i]))
  BY <1>3, FieldsAre DEF Free
<1>7. \A j \in 1 .. Len(h) : c[j].at = h[j].at /\ (Free(c[j]) <=> Free(h[j]))
  BY <1>5, <1>6
<1>8. Chain(c)
  BY <1>5, <1>7, SameFlags
<1>9. c = g
  BY <1>1, <1>3, <1>4
<1>. QED BY <1>5, <1>7, <1>8, <1>9

LEMMA Pages ==
  ASSUME NEW at \in Nat
  PROVE  PageOf(at) \in Nat /\ (PageOf(at) + 1) * PAGE_SIZE \in Nat
<1>1. PAGE_SIZE \in Nat \ {0}
  BY SizesAssumption
<1>2. \A n \in Nat \ {0} : at \div n \in Nat
  BY SMTT(30)
<1>3. PageOf(at) \in Nat
  BY <1>1, <1>2 DEF PageOf
<1>4. \A m, n \in Nat : (m + 1) * n \in Nat
  BY SMTT(30)
<1>. QED BY <1>1, <1>3, <1>4

\* The chain after the n-th page has been got for the request that stopped at i.
LEMMA ExtendedKeeps ==
  ASSUME NEW h, Chain(h), NEW i \in 1 .. Len(h), NEW n \in Nat \ {0},
         ~ Free(h[i]) => IF n = 1 THEN i = Len(h) ELSE i = Len(h) - 1 /\ Free(h[Len(h)])
  PROVE  LET g == Extended(h, i, n)
             j == IF Free(h[i]) THEN i ELSE i + 1
         IN  /\ Chain(g) /\ j = Len(g) /\ Free(g[j])
             /\ i \in 1 .. Len(g) /\ g[i].at = h[i].at /\ (Free(g[i]) <=> Free(h[i]))
<1>. DEFINE g == Extended(h, i, n)
<1>0. h \in Seq(Block) /\ Len(h) \in Nat \ {0} /\ i \in Nat /\ PAGE_SIZE \in Nat /\ Len(h) \in 1 .. Len(h)
  BY ChainLength, SizesAssumption
<1>1. CASE Free(h[i])
  <2>1. g = Grown(h, i, PAGE_SIZE)
    BY <1>1 DEF Extended, Grown
  <2>2. i = Len(h)
    BY <1>1 DEF Chain
  <2>. HIDE DEF g
  <2>3. /\ Chain(g) /\ Len(g) = Len(h)
        /\ \A j \in 1 .. Len(h) : g[j].at = h[j].at /\ (Free(g[j]) <=> Free(h[j]))
    BY <1>0, <2>1, GrownIs
  <2>. QED BY <1>0, <1>1, <2>2, <2>3 DEF g
<1>2. CASE ~ Free(h[i]) /\ n # 1
  <2>0. n > 1 /\ i = Len(h) - 1 /\ i + 1 = Len(h) /\ Free(h[i + 1]) /\ i + 1 \in 1 .. Len(h)
    BY <1>0, <1>2
  <2>1. g = Grown(h, i + 1, PAGE_SIZE)
    BY <1>2, <2>0 DEF Extended, Grown
  <2>. HIDE DEF g
  <2>3. /\ Chain(g) /\ Len(g) = Len(h)
        /\ \A j \in 1 .. Len(h) : g[j].at = h[j].at /\ (Free(g[j]) <=> Free(h[j]))
    BY <1>0, <2>0, <2>1, GrownIs
  <2>. QED BY <1>0, <1>2, <2>0, <2>3 DEF g
<1>3. CASE ~ Free(h[i]) /\ n = 1
  <2>. DEFINE at == (PageOf(h[i].at) + 1) * PAGE_SIZE
              size == PAGE_SIZE - META
  <2>0. i = Len(h)
    BY <1>3
  <2>1. h[i].at \in Nat
    BY <1>0, BlockAt
  <2>2. at \in Nat
    BY <2>1, Pages
  <2>3. size \in Nat \ {0} /\ 1 \in {0, 1} /\ h[i].at \in Nat \cup {NULL, Unset}
    BY <2>1, SizesAssumption
  <2>. HIDE DEF at, size
  <2>4. PICK new \in Block : new = Meta(at, size, 1, h[i].at)
    BY <2>2, <2>3, BlockIs
  <2>5. Free(new)
    BY <2>4, FieldsAre
  <2>6. g = Append(h, new)
    BY <1>3, <2>4 DEF Extended, at, size
  <2>. HIDE DEF g
  <2>7. /\ g \in Seq(Block) /\ Len(g) = Len(h) + 1
        /\ \A j \in 1 .. Len(g) : g[j] = IF j = Len(h) + 1 THEN new ELSE h[j]
    <3>1. PICK d : d = g
      OBVIOUS
    <3>2. /\ d \in Seq(Block) /\ Len(d) = Len(h) + 1
          /\ \A j \in 1 .. Len(d) : d[j] = IF j = Len(h) + 1 THEN new ELSE h[j]
      BY <1>0, <2>6, <3>1, AppendIs
    <3>. QED BY <3>1, <3>2
  <2>8. g # <<>> /\ i \in 1 .. Len(g) /\ g[i] = h[i] /\ i + 1 = Len(g) /\ g[i + 1] = new
    <3>1. Len(<<>>) = 0
      OBVIOUS
    <3>. QED BY <1>0, <2>0, <2>7, <3>1
  <2>9. ASSUME NEW j \in 1 .. Len(g), Free(g[j]) PROVE j = Len(g)
    <3>1. j = Len(h) + 1 \/ (j \in 1 .. Len(h) /\ g[j] = h[j])
      BY <1>0, <2>7
    <3>2. CASE j \in 1 .. Len(h) /\ g[j] = h[j]
      BY <1>3, <2>0, <2>9, <3>2 DEF Chain
    <3>. QED BY <2>7, <3>1, <3>2
  <2>10. Chain(g)
    BY <2>7, <2>8, <2>9 DEF Chain
  <2>. QED BY <1>3, <2>5, <2>8, <2>10 DEF g
<1>. QED BY <1>1, <1>2, <1>3

LEMMA Nonempty ==
  ASSUME NEW g \in Seq(Block), Len(g) \in Nat \ {0},
         \A j \in 1 .. Len(g) : Free(g[j]) => j = Len(g)
  PROVE  Chain(g)
<1>1. Len(<<>>) = 0
  OBVIOUS
<1>. QED BY <1>1 DEF Chain

\* mydeallocate() before it looks at the block before.
LEMMA ReleaseKeeps ==
  ASSUME NEW h, Chain(h), NEW i \in 1 .. Len(h)
  PROVE  Chain(Release(h, i)) /\ Len(Release(h, i)) <= Len(h)
<1>. DEFINE g == Release(h, i)
<1>0. h \in Seq(Block) /\ Len(h) \in Nat \ {0} /\ i \in Nat \ {0} /\ i <= Len(h)
  BY ChainLength
<1>1. ASSUME NEW z \in Nat \ {0}, NEW c, c = Resized(h, i, z, 1)
      PROVE  /\ c \in Seq(Block) /\ Len(c) = Len(h)
             /\ \A j \in 1 .. Len(h) : j # i => c[j] = h[j]
  <2>1. 1 \in {0, 1}
    OBVIOUS
  <2>2. /\ c \in Seq(Block) /\ Len(c) = Len(h)
        /\ \A j \in 1 .. Len(h) : c[j] = IF j = i THEN Meta(h[i].at, z, 1, h[i].prev) ELSE h[j]
    BY <1>0, <1>1, <2>1, ResizeIs
  <2>. QED BY <2>2
<1>2. CASE i = Len(h)
  <2>1. g = Marked(h, i, 1)
    BY <1>2 DEF Release, Marked
  <2>2. Marked(h, i, 1) = Resized(h, i, h[i].size, 1)
    BY <1>0, RefitIs
  <2>3. PICK z \in Nat \ {0} : z = h[i].size
    BY <1>0, BlockAt
  <2>4. PICK c : c = Resized(h, i, z, 1)
    OBVIOUS
  <2>5. c = g
    BY <2>1, <2>2, <2>3, <2>4
  <2>6. /\ c \in Seq(Block) /\ Len(c) = Len(h)
        /\ \A j \in 1 .. Len(h) : j # i => c[j] = h[j]
    BY <1>1, <2>4
  <2>7. \A j \in 1 .. Len(c) : Free(c[j]) => j = Len(c)
    BY <1>2, <2>6 DEF Chain
  <2>8. Chain(c)
    BY <1>0, <2>6, <2>7, Nonempty
  <2>. QED BY <1>0, <2>5, <2>6, <2>8
<1>3. CASE i < Len(h) /\ Free(h[i + 1])
  <2>0. i + 1 \in 1 .. Len(h)
    BY <1>0, <1>3
  <2>1. i + 1 = Len(h)
    BY <1>3, <2>0 DEF Chain
  <2>2. PICK z \in Nat \ {0} : z = h[i].size + META + h[i + 1].size
    <3>1. h[i].size \in Nat \ {0} /\ h[i + 1].size \in Nat \ {0} /\ META \in Nat
      BY <1>0, <2>0, BlockAt, SizesAssumption, SMTT(30)
    <3>. QED BY <3>1
  <2>3. PICK c : c = Resized(h, i, z, 1)
    OBVIOUS
  <2>4. /\ c \in Seq(Block) /\ Len(c) = Len(h)
        /\ \A j \in 1 .. Len(h) : j # i => c[j] = h[j]
    BY <1>1, <2>3
  <2>5. PICK d : d = RemoveAt(c, i + 1)
    OBVIOUS
  <2>6. /\ d \in Seq(Block) /\ Len(d) = Len(c) - 1
        /\ \A j \in 1 .. Len(d) : d[j] = IF j < i + 1 THEN c[j] ELSE c[j + 1]
    BY <2>0, <2>4, <2>5, RemoveIs
  <2>7. Len(d) = i
    BY <1>0, <2>1, <2>4, <2>6
  <2>8. c = [h EXCEPT ![i].size = @ + META + h[i + 1].size, ![i].is_free = 1]
    BY <2>2, <2>3 DEF Resized
  <2>9. MergeNext(h, i) = d
    BY <1>0, <2>5, <2>7, <2>8 DEF MergeNext
  <2>10. g = d
    BY <1>0, <1>3, <2>9 DEF Release
  <2>11. \A j \in 1 .. Len(d) : j # Len(d) => d[j] = h[j] /\ j \in 1 .. Len(h) /\ j # Len(h)
    BY <1>0, <2>1, <2>4, <2>6, <2>7
  <2>12. \A j \in 1 .. Len(d) : Free(d[j]) => j = Len(d)
    BY <2>11 DEF Chain
  <2>13. Chain(d)
    BY <1>0, <2>6, <2>7, <2>12, Nonempty
  <2>. QED BY <1>0, <2>7, <2>10, <2>13
<1>4. CASE i < Len(h) /\ ~ Free(h[i + 1])
  <2>1. g = h
    BY <1>0, <1>4 DEF Release
  <2>. QED BY <1>0, <2>1
<1>. QED BY <1>0, <1>2, <1>3, <1>4

\* And with the free block before.
LEMMA MergePrevKeeps ==
  ASSUME NEW h, Chain(h), NEW i \in 1 .. Len(h), PrevIsFree(h, i), i < Len(h)
  PROVE  Chain(MergePrev(h, i))
<1>. DEFINE j == CHOOSE k \in 1 .. Len(h) : h[k].at = h[i].prev
<1>0. h \in Seq(Block) /\ Len(h) \in Nat \ {0} /\ i \in Nat \ {0} /\ i + 1 \in 1 .. Len(h)
  BY ChainLength
<1>1. j \in 1 .. Len(h)
  BY DEF PrevIsFree
<1>2. MergePrev(h, i) = RemoveAt([h EXCEPT ![j].size = @ + META + h[i].size, ![i + 1].prev = h[j].at], i)
  BY DEF MergePrev
<1>. HIDE DEF j
<1>3. PICK n \in Nat : n = META + h[i].size
  <2>1. h[i].size \in Nat /\ META \in Nat
    BY <1>0, BlockAt, SizesAssumption
  <2>. QED BY <2>1
<1>4. PICK c : c = Grown(h, j, n)
  OBVIOUS
<1>5. /\ Chain(c) /\ Len(c) = Len(h)
      /\ \A k \in 1 .. Len(h) : c[k].at = h[k].at /\ (Free(c[k]) <=> Free(h[k]))
  BY <1>1, <1>4, GrownIs
<1>6. PICK q \in Nat : q = h[j].at
  BY <1>0, <1>1, BlockAt
<1>7. PICK d : d = [c EXCEPT ![i + 1].prev = q]
  OBVIOUS
<1>8. /\ d \in Seq(Block) /\ Len(d) = Len(c)
      /\ \A k \in 1 .. Len(c) : d[k] = IF k = i + 1 THEN Meta(c[i + 1].at, c[i + 1].size, c[i + 1].is_free, q) ELSE c[k]
  <2>1. c \in Seq(Block) /\ i + 1 \in 1 .. Len(c)
    BY <1>0, <1>5, ChainLength
  <2>. QED BY <1>7, <2>1, LinkIs
<1>9. \A k \in 1 .. Len(h) : Free(d[k]) => k = Len(h)
  <2>1. Free(Meta(c[i + 1].at, c[i + 1].size, c[i + 1].is_free, q)) <=> Free(c[i + 1])
    BY FieldsAre DEF Free
  <2>. QED BY <1>5, <1>8, <2>1 DEF Chain
<1>10. MergePrev(h, i) = RemoveAt(d, i)
  <2>1. h[j].size \in Nat /\ META \in Nat /\ h[i].size \in Nat
    BY <1>0, <1>1, BlockAt, SizesAssumption
  <2>2. c = [h EXCEPT ![j].size = @ + META + h[i].size]
    <3>1. c = [h EXCEPT ![j].size = h[j].size + n]
      BY <1>4 DEF Grown
    <3>2. h[j].size + n = h[j].size + META + h[i].size
      BY <1>3, <2>1, SMTT(30)
    <3>3. c = [h EXCEPT ![j].size = h[j].size + META + h[i].size]
      BY <3>1, <3>2, Zenon
    <3>. QED BY <3>3
  <2>3. [h EXCEPT ![j].size = @ + META + h[i].size, ![i + 1].prev = h[j].at]
          = [[h EXCEPT ![j].size = @ + META + h[i].size] EXCEPT ![i + 1].prev = h[j].at]
    OBVIOUS
  <2>. QED BY <1>2, <1>6, <1>7, <2>2, <2>3
<1>11. PICK e : e = RemoveAt(d, i)
  OBVIOUS
<1>12. /\ e \in Seq(Block) /\ Len(e) = Len(d) - 1
       /\ \A k \in 1 .. Len(e) : e[k] = IF k < i THEN d[k] ELSE d[k + 1]
  <2>1. i \in 1 .. Len(d)
    BY <1>5, <1>8
  <2>. QED BY <1>8, <1>11, <2>1, RemoveIs
<1>13. Len(e) \in Nat \ {0} /\ Len(e) = Len(h) - 1
  BY <1>0, <1>5, <1>8, <1>12
<1>14. ASSUME NEW k \in 1 .. Len(e), Free(e[k]) PROVE k = Len(e)
  <2>1. CASE k < i
    <3>1. k \in 1 .. Len(h) /\ k # Len(h)
      BY <1>0, <1>13, <2>1
    <3>. QED BY <1>9, <1>12, <1>14, <2>1, <3>1
  <2>2. CASE ~ (k < i)
    <3>1. k + 1 \in 1 .. Len(h)
      BY <1>0, <1>13
    <3>2. k + 1 = Len(h)
      BY <1>9, <1>12, <1>14, <2>2, <3>1
    <3>. QED BY <1>0, <1>13, <3>2
  <2>. QED BY <2>1, <2>2
<1>15. Chain(e)
  BY <1>12, <1>13, <1>14, Nonempty
<1>. QED BY <1>10, <1>11, <1>15

\* The headers is of a chain are read.
LEMMA HeadersKeep ==
  ASSUME NEW p, NEW s, PagesInv(p, s), NEW t \in Threads, NEW h \in Seq(Block), NEW is, Len(is) \in Nat,
         \A k \in 1 .. Len(is) : is[k] \in 1 .. Len(h)
  PROVE  LET a == AccessHeaders(p, s, t, h, is)
         IN  /\ PagesInv(p, a)
             /\ a.status = "ok" => /\ s.status = "ok"
                                   /\ \A k \in 1 .. Len(is) : Known(p, t, PageOf(h[is[k]].at))
<1>. DEFINE ps == [k \in 1 .. Len(is) |-> PageOf(h[is[k]].at)]
<1>1. Len(ps) = Len(is)
  OBVIOUS
<1>2. \A k \in 1 .. Len(is) : ps[k] = PageOf(h[is[k]].at) /\ ps[k] \in Nat
  <2>. SUFFICES ASSUME NEW k \in 1 .. Len(is) PROVE PageOf(h[is[k]].at) \in Nat
    OBVIOUS
  <2>1. h[is[k]].at \in Nat
    BY BlockAt
  <2>. QED BY <2>1, Pages
<1>3. AccessHeaders(p, s, t, h, is) = AccessPages(p, s, t, ps)
  BY DEF AccessHeaders
<1>. HIDE DEF ps
<1>4. Len(ps) \in Nat /\ \A k \in 1 .. Len(ps) : ps[k] \in Nat
  BY <1>1, <1>2
<1>5. /\ PagesInv(p, AccessPages(p, s, t, ps))
      /\ AccessPages(p, s, t, ps).status = "ok" => /\ s.status = "ok"
                                                   /\ \A k \in 1 .. Len(ps) : Known(p, t, ps[k])
  BY <1>4, AccessPagesKeeps
<1>. QED BY <1>1, <1>2, <1>3, <1>5

LEMMA UptoKeeps ==
  ASSUME NEW p, NEW s, PagesInv(p, s), NEW t \in Threads, NEW h \in Seq(Block), NEW i \in 1 .. Len(h)
  PROVE  LET a == AccessHeaders(p, s, t, h, Upto(i))
         IN  /\ PagesInv(p, a)
             /\ a.status = "ok" => s.status = "ok" /\ Known(p, t, PageOf(h[i].at))
<1>0. Len(h) \in Nat /\ i \in Nat \ {0}
  BY LenProperties
<1>1. Len(Upto(i)) = i /\ \A k \in 1 .. i : Upto(i)[k] = k
  BY <1>0 DEF Upto
<1>2. PICK is : is = Upto(i)
  OBVIOUS
<1>3. Len(is) = i /\ Len(is) \in Nat /\ \A k \in 1 .. Len(is) : is[k] = k /\ is[k] \in 1 .. Len(h)
  BY <1>0, <1>1, <1>2
<1>4. LET a == AccessHeaders(p, s, t, h, is)
      IN  /\ PagesInv(p, a)
          /\ a.status = "ok" => /\ s.status = "ok"
                                /\ \A k \in 1 .. Len(is) : Known(p, t, PageOf(h[is[k]].at))
  BY <1>3, HeadersKeep
<1>5. i \in 1 .. Len(is) /\ is[i] = i
  BY <1>0, <1>3
<1>. QED BY <1>2, <1>4, <1>5

-----------------------------------------------------------------------------
(***************************************************************************)
(* The invariant                                                           *)
(***************************************************************************)

\* Whoever has a page has a chain, and only the last block of a chain is free.
ChainsInv(p, hp) ==
  /\ hp \in [Owners -> Seq(Block)]
  /\ hp[Library] # <<>>
  /\ \A y \in Frames : p.table[y].tid \in Threads => hp[p.table[y].tid] # <<>>
  /\ \A o \in Owners : \A i \in 1 .. Len(hp[o]) : Free(hp[o][i]) => i = Len(hp[o])

Requests == [size : Nat, curr : Nat, n : Nat, page : Frames \cup {NULL}]

\* The frame that the request r has got is behind its next page.
PageFound(p, t, q, r) ==
  /\ r.n >= 1 /\ r.page \in Frames /\ Known(p, t, q + r.n - 1)
  /\ q + r.n <= r.page /\ p.table[r.page] = Entry(t, 0)

\* The request r of t for the chain h has got the pages up to the n-th after the
\* header it stopped at; the block that grows is the last one.
Asked(p, t, h, r) ==
  /\ r.size > 0 /\ r.curr \in 1 .. Len(h) /\ p.table[0].tid = t
  /\ IF r.page = NULL THEN Known(p, t, PageOf(h[r.curr].at) + r.n)
                      ELSE PageFound(p, t, PageOf(h[r.curr].at), r)
  /\ ~ Free(h[r.curr]) =>
       IF r.n = 0 \/ (r.n = 1 /\ r.page # NULL) THEN r.curr = Len(h)
                                                 ELSE r.curr = Len(h) - 1 /\ Free(h[Len(h)])

PendingInv ==
  \A t \in Threads : pending[t] # NoRequest =>
    t = current_tid /\ Asked(pt, t, heap[t], pending[t])

AllocInv ==
  /\ PagesInv(pt, fr) /\ ChainsInv(pt, heap)
  /\ current_tid \in Threads /\ written \in [Owners -> Nat] /\ pending \in [Threads -> Requests]
  /\ PendingInv

LEMMA ChainAt ==
  ASSUME NEW p, NEW hp, ChainsInv(p, hp), NEW o \in Owners, hp[o] # <<>>
  PROVE  Chain(hp[o])
BY DEF ChainsInv, Chain

\* Pages change hands, at most to t.
Tids(p, q, t) ==
  \A y \in Frames : q.table[y].tid \in Threads =>
    q.table[y].tid = t \/ \E z \in Frames : p.table[z].tid = q.table[y].tid

LEMMA NewChain ==
  ASSUME NEW p, NEW q, NEW hp, ChainsInv(p, hp), NEW o \in Owners, Tids(p, q, o), NEW g, Chain(g)
  PROVE  ChainsInv(q, [hp EXCEPT ![o] = g])
<1>. DEFINE new == [hp EXCEPT ![o] = g]
<1>1. g \in Seq(Block) /\ g # <<>> /\ \A i \in 1 .. Len(g) : Free(g[i]) => i = Len(g)
  BY DEF Chain
<1>2. hp \in [Owners -> Seq(Block)] /\ hp[Library] # <<>> /\ Library \in Owners /\ Threads \subseteq Owners
  BY DEF ChainsInv, Owners
<1>3. new \in [Owners -> Seq(Block)] /\ \A x \in Owners : new[x] = IF x = o THEN g ELSE hp[x]
  BY <1>1, <1>2
<1>. HIDE DEF new
<1>4. new[Library] # <<>>
  BY <1>1, <1>2, <1>3
<1>5. ASSUME NEW y \in Frames, q.table[y].tid \in Threads PROVE new[q.table[y].tid] # <<>>
  <2>1. PICK u : u = q.table[y].tid
    OBVIOUS
  <2>2. u \in Owners /\ (u = o \/ \E z \in Frames : p.table[z].tid = u)
    BY <1>2, <1>5, <2>1 DEF Tids
  <2>3. u = o \/ hp[u] # <<>>
    BY <1>5, <2>1, <2>2 DEF ChainsInv
  <2>. QED BY <1>1, <1>3, <2>1, <2>2, <2>3
<1>6. ASSUME NEW x \in Owners, NEW i \in 1 .. Len(new[x]), Free(new[x][i]) PROVE i = Len(new[x])
  <2>1. CASE x = o
    BY <1>1, <1>3, <1>6, <2>1
  <2>2. CASE x # o
    <3>1. new[x] = hp[x]
      BY <1>3, <2>2
    <3>. QED BY <1>6, <3>1 DEF ChainsInv
  <2>. QED BY <2>1, <2>2
<1>. QED BY <1>3, <1>4, <1>5, <1>6 DEF ChainsInv, new

LEMMA SameChains ==
  ASSUME NEW p, NEW q, NEW hp, ChainsInv(p, hp), NEW t \in Threads, hp[t] # <<>>, Tids(p, q, t)
  PROVE  ChainsInv(q, hp)
<1>1. ASSUME NEW y \in Frames, q.table[y].tid \in Threads PROVE hp[q.table[y].tid] # <<>>
  <2>1. PICK u : u = q.table[y].tid
    OBVIOUS
  <2>2. u = t \/ \E z \in Frames : p.table[z].tid = u
    BY <1>1, <2>1 DEF Tids
  <2>. QED BY <1>1, <2>1, <2>2 DEF ChainsInv
<1>. QED BY <1>1 DEF ChainsInv

-----------------------------------------------------------------------------
(***************************************************************************)
(* getHead()                                                               *)
(***************************************************************************)

LEMMA RunningAlone ==
  ASSUME AllocInv, NEW t \in Threads, Running(t)
  PROVE  \A u \in Threads : pending[u] = NoRequest
BY DEF AllocInv, PendingInv, Running

LEMMA HeadKeeps ==
  ASSUME AllocInv, NEW t \in Threads, ~ NoHead(t)
  PROVE  /\ PagesInv(HeadTable(t), HeadBytes(t)) /\ Tids(pt, HeadTable(t), t)
         /\ HeadTable(t).table[0].tid = t /\ Chain(HeadChain(t))
<1>. DEFINE q == HeadTable(t)
            b == HeadBytes(t)
<1>0. /\ TableInv(pt) /\ TableOK(pt) /\ FramesOK(fr) /\ DataInv(pt, fr) /\ ChainsInv(pt, heap)
      /\ t \in Owners /\ 0 \in Frames
  BY FrameNumbers DEF AllocInv, PagesInv, TableInv, Owners
<1>1. CASE HasHead(t)
  <2>. DEFINE y == First(HeadFrames(pt, t))
  <2>1. HeadFrames(pt, t) # {} /\ HeadFrames(pt, t) \in SUBSET Frames
    BY <1>1, FrameNumbers DEF HasHead, HeadFrames
  <2>2. y \in HeadFrames(pt, t) /\ y \in Frames
    BY <2>1, LeastFrame
  <2>3. q = MoveHead(pt, y) /\ b = MoveHeadBytes(q, fr, t, y) /\ HeadChain(t) = heap[t]
    BY <1>1 DEF HeadTable, HeadBytes, HeadChain
  <2>. HIDE DEF y, q, b
  <2>4. /\ TableInv(MoveHead(pt, y)) /\ Kept(pt, MoveHead(pt, y)) /\ Settled(pt, MoveHead(pt, y))
        /\ MoveHead(pt, y).table[0].tid = t
    BY <1>0, <2>2, MoveHeadKeeps
  <2>5. \A z \in Frames : MoveHead(pt, y).table[z] = IF z = y THEN pt.table[0]
                                                     ELSE IF z = 0 THEN pt.table[y] ELSE pt.table[z]
    BY <1>0, <2>2, MoveHeadIs
  <2>6. Tids(pt, q, t)
    BY <1>0, <2>2, <2>3, <2>5 DEF Tids
  <2>7. PagesInv(q, fr)
    BY <1>0, <2>3, <2>4, DataFollows DEF PagesInv
  <2>8. PagesInv(q, b)
    BY <2>2, <2>3, <2>7, MoveHeadBytesKeeps
  <2>9. heap[t] # <<>>
    <3>1. pt.table[y].tid = t
      BY <2>2 DEF HeadFrames, Holding
    <3>. QED BY <1>0, <2>2, <3>1 DEF ChainsInv
  <2>10. Chain(heap[t])
    BY <1>0, <2>9, ChainAt
  <2>. QED BY <2>3, <2>4, <2>6, <2>8, <2>10 DEF q, b
<1>2. CASE ~ HasHead(t)
  <2>. DEFINE f == First(Unused(pt))
  <2>1. Unused(pt) # {}
    BY <1>2 DEF NoHead
  <2>2. q = NewHead(pt, t, f) /\ b = SwapEmptyPage(fr, f, 0, <<t, 0>>) /\ HeadChain(t) = InitMem(t, PAGE_SIZE)
    BY <1>2 DEF HeadTable, HeadBytes, HeadChain
  <2>3. /\ f \in Frames
        /\ TableInv(NewHead(pt, t, f)) /\ Kept(pt, NewHead(pt, t, f)) /\ Settled(pt, NewHead(pt, t, f))
        /\ NewHead(pt, t, f).table[0].tid = t /\ Known(NewHead(pt, t, f), t, 0)
    BY <1>0, <2>1, NewHeadKeeps
  <2>. HIDE DEF f, q, b
  <2>4. \A z \in Frames : NewHead(pt, t, f).table[z] = IF z = 0 THEN Entry(t, 0)
                                                       ELSE IF z = f THEN pt.table[0] ELSE pt.table[z]
    BY <1>0, <2>3, NewHeadIs
  <2>5. Tids(pt, q, t)
    <3>1. Entry(t, 0).tid = t
      BY DEF Entry
    <3>. QED BY <1>0, <2>2, <2>4, <3>1 DEF Tids
  <2>6. PagesInv(q, fr)
    BY <1>0, <2>2, <2>3, DataFollows DEF PagesInv
  <2>7. PagesInv(q, b)
    <3>1. Known(q, t, 0) /\ 0 \in Nat
      BY <2>2, <2>3
    <3>2. PagesInv(q, SwapEmptyPage(fr, f, 0, <<t, 0>>))
      BY <1>0, <2>3, <2>6, <3>1, SwapEmptyPageKeeps
    <3>. QED BY <2>2, <3>2
  <2>8. Chain(InitMem(t, PAGE_SIZE))
    BY SizesAssumption, InitMemChain
  <2>. QED BY <2>2, <2>3, <2>5, <2>7, <2>8 DEF q, b
<1>. QED BY <1>1, <1>2

LEMMA TakeBytesKeeps ==
  ASSUME NEW p, NEW s, PagesInv(p, s), NEW t \in Threads, NEW h, NEW g, Chain(g), NEW i,
         Len(g) > Len(h) => i + 1 \in 1 .. Len(g)
  PROVE  PagesInv(p, TakeBytes(p, s, t, h, g, i))
<1>1. CASE Len(g) > Len(h)
  <2>1. PICK n \in Nat : n = PageOf(g[i + 1].at)
    BY <1>1, ChainLength, BlockAt, Pages
  <2>2. TakeBytes(p, s, t, h, g, i) = Access(p, s, t, n)
    BY <1>1, <2>1 DEF TakeBytes
  <2>. QED BY <2>2, AccessKeeps
<1>2. CASE ~ (Len(g) > Len(h))
  BY <1>2 DEF TakeBytes
<1>. QED BY <1>1, <1>2

LEMMA HandedKeeps ==
  ASSUME written \in [Owners -> Nat], NEW o \in Owners, NEW g, Chain(g), NEW i \in 1 .. Len(g),
         Handed(o, g[i])
  PROVE  written' \in [Owners -> Nat]
<1>1. PICK n \in Nat : n = After(g[i])
  BY ChainLength, BlockAt
<1>2. written' = [written EXCEPT ![o] = IF n > @ THEN n ELSE @]
  BY <1>1 DEF Handed
<1>. QED BY <1>2

\* The request that is being served changes, and no other was being served.
LEMMA NewRequest ==
  ASSUME current_tid \in Threads, pending \in [Threads -> Requests],
         \A u \in Threads : u # current_tid => pending[u] = NoRequest,
         NEW r \in Requests, pending' = [pending EXCEPT ![current_tid] = r], current_tid' = current_tid,
         r # NoRequest => Asked(pt', current_tid, heap'[current_tid], r)
  PROVE  pending' \in [Threads -> Requests] /\ PendingInv'
<1>1. pending' \in [Threads -> Requests]
  BY Zenon
<1>2. \A u \in Threads : pending'[u] = IF u = current_tid THEN r ELSE pending[u]
  BY Zenon
<1>3. ASSUME NEW u \in Threads, pending'[u] # NoRequest
      PROVE  u = current_tid' /\ Asked(pt', u, heap'[u], pending'[u])
  BY <1>2, <1>3
<1>. QED BY <1>1, <1>3 DEF PendingInv

-----------------------------------------------------------------------------
(***************************************************************************)
(* The requests                                                            *)
(***************************************************************************)

LEMMA AllocInvNew ==
  ASSUME NEW t \in Threads, current_tid' \in Threads, PagesInv(pt', fr'), ChainsInv(pt', heap'),
         written' \in [Owners -> Nat], pending' \in [Threads -> Requests], PendingInv'
  PROVE  AllocInv'
BY DEF AllocInv

LEMMA MallocKeeps ==
  ASSUME AllocInv, NEW t \in Threads, NEW size \in Sizes, Malloc(t, size)
  PROVE  AllocInv'
<1>. DEFINE q == HeadTable(t)
            b == HeadBytes(t)
<1>0. /\ Running(t) /\ ~ NoHead(t) /\ pt' = q /\ current_tid' = current_tid /\ current_tid = t
      /\ t \in Owners /\ size \in Nat \ {0}
  BY SizesAssumption DEF Malloc, Running, Owners
<1>1. /\ ChainsInv(pt, heap) /\ current_tid \in Threads /\ written \in [Owners -> Nat]
      /\ pending \in [Threads -> Requests]
  BY DEF AllocInv
<1>2. PICK h : h = HeadChain(t)
  OBVIOUS
<1>3. /\ PagesInv(q, b) /\ Tids(pt, q, t)
      /\ q.table[0].tid = t /\ Chain(h)
  BY <1>0, <1>2, HeadKeeps
<1>4. PICK i : i = Found(h, size)
  OBVIOUS
<1>5. i = Len(h) /\ i \in 1 .. Len(h) /\ h \in Seq(Block)
  BY <1>3, <1>4, FoundIs, ChainLength
<1>6. PICK s : s = AccessHeaders(q, b, t, h, Upto(i))
  OBVIOUS
<1>7. PICK g : g = Take(h, i, size, written[t])
  OBVIOUS
<1>8. /\ s.status = "ok" /\ Free(h[i]) /\ h[i].size >= size =>
           /\ heap' = [heap EXCEPT ![t] = g]
           /\ fr' = TakeBytes(q, s, t, h, g, i)
           /\ Handed(t, g[i])
           /\ pending' = pending
      /\ ~ (s.status = "ok" /\ Free(h[i]) /\ h[i].size >= size) =>
           /\ heap' = [heap EXCEPT ![t] = h]
           /\ fr' = s
           /\ pending' = IF s.status = "ok" /\ ~Insufficient(h[i], size) /\ ~AtEndOfMemory(h[i])
                         THEN [pending EXCEPT ![t] = [NoRequest EXCEPT !.size = size, !.curr = i]]
                         ELSE pending
           /\ written' = written
  BY <1>2, <1>4, <1>6, <1>7 DEF Malloc
<1>. HIDE DEF q, b
<1>9. PagesInv(q, s) /\ (s.status = "ok" => Known(q, t, PageOf(h[i].at)))
  BY <1>3, <1>5, <1>6, UptoKeeps
<1>10. \A u \in Threads : pending[u] = NoRequest
  BY <1>0, RunningAlone
<1>11. CASE s.status = "ok" /\ Free(h[i]) /\ h[i].size >= size
  <2>1. Chain(g) /\ i \in 1 .. Len(g) /\ (Len(g) > Len(h) => i + 1 \in 1 .. Len(g))
    BY <1>0, <1>3, <1>5, <1>7, <1>11, TakeKeeps
  <2>2. PagesInv(pt', fr')
    BY <1>0, <1>8, <1>9, <1>11, <2>1, TakeBytesKeeps
  <2>3. ChainsInv(pt', heap')
    BY <1>0, <1>1, <1>3, <1>8, <1>11, <2>1, NewChain
  <2>4. written' \in [Owners -> Nat]
    BY <1>0, <1>1, <1>8, <1>11, <2>1, HandedKeeps
  <2>5. PendingInv'
    BY <1>8, <1>10, <1>11 DEF PendingInv
  <2>6. pending' \in [Threads -> Requests]
    BY <1>1, <1>8, <1>11
  <2>. QED BY <1>0, <1>1, <2>2, <2>3, <2>4, <2>5, <2>6, AllocInvNew
<1>12. CASE ~ (s.status = "ok" /\ Free(h[i]) /\ h[i].size >= size)
  <2>1. PagesInv(pt', fr')
    BY <1>0, <1>8, <1>9, <1>12
  <2>2. ChainsInv(pt', heap') /\ heap' = [heap EXCEPT ![t] = h]
    BY <1>0, <1>1, <1>3, <1>8, <1>12, NewChain
  <2>3. written' \in [Owners -> Nat]
    BY <1>1, <1>8, <1>12
  <2>4. pending' \in [Threads -> Requests] /\ PendingInv'
    <3>1. CASE pending' = pending
      BY <1>1, <1>10, <3>1 DEF PendingInv
    <3>2. CASE pending' # pending
      <4>1. s.status = "ok" /\ pending' = [pending EXCEPT ![t] = [NoRequest EXCEPT !.size = size, !.curr = i]]
        BY <1>8, <1>12, <3>2
      <4>2. PICK r : r = [NoRequest EXCEPT !.size = size, !.curr = i]
        OBVIOUS
      <4>3. r = [size |-> size, curr |-> i, n |-> 0, page |-> NULL]
        BY <4>2 DEF NoRequest
      <4>4. r.size = size /\ r.curr = i /\ r.n = 0 /\ r.page = NULL /\ r \in Requests
        BY <1>0, <1>5, <4>3 DEF Requests
      <4>5. heap'[t] = h
        BY <1>0, <1>1, <2>2 DEF ChainsInv
      <4>6. h[i].at \in Nat
        BY <1>5, BlockAt
      <4>7. Known(pt', t, PageOf(h[i].at) + 0)
        <5>1. PageOf(h[i].at) \in Nat
          BY <4>6, Pages
        <5>2. PageOf(h[i].at) + 0 = PageOf(h[i].at)
          BY <5>1
        <5>. QED BY <1>0, <1>9, <4>1, <5>2
      <4>8. Asked(pt', t, heap'[t], r)
        BY <1>0, <1>3, <1>5, <4>4, <4>5, <4>7 DEF Asked
      <4>. QED BY <1>0, <1>1, <1>10, <4>1, <4>2, <4>4, <4>8, NewRequest
    <3>. QED BY <3>1, <3>2
  <2>. QED BY <1>0, <1>1, <2>1, <2>2, <2>3, <2>4, AllocInvNew
<1>. QED BY <1>11, <1>12

LEMMA LibraryMallocKeeps ==
  ASSUME AllocInv, NEW t \in Threads, NEW size \in Sizes, LibraryMalloc(t, size)
  PROVE  AllocInv'
<1>0. /\ current_tid' = current_tid /\ pt' = pt /\ pending' = pending
      /\ Library \in Owners /\ size \in Nat \ {0} /\ Running(t)
  BY SizesAssumption DEF LibraryMalloc, Owners
<1>1. /\ ChainsInv(pt, heap) /\ current_tid \in Threads /\ written \in [Owners -> Nat] /\ PagesInv(pt, fr)
      /\ pending \in [Threads -> Requests]
  BY DEF AllocInv
<1>2. PICK h : h = heap[Library]
  OBVIOUS
<1>3. Chain(h)
  <2>1. heap[Library] # <<>>
    BY <1>1 DEF ChainsInv
  <2>. QED BY <1>0, <1>1, <1>2, <2>1, ChainAt
<1>4. PICK i : i = Found(h, size)
  OBVIOUS
<1>5. i = Len(h) /\ i \in 1 .. Len(h)
  BY <1>3, <1>4, FoundIs, ChainLength
<1>6. PICK g : g = Take(h, i, size, written[Library])
  OBVIOUS
<1>7. /\ Free(h[i]) /\ h[i].size >= size =>
           heap' = [heap EXCEPT ![Library] = g] /\ Handed(Library, g[i]) /\ fr' = fr
      /\ ~ (Free(h[i]) /\ h[i].size >= size) =>
           /\ fr' = [fr EXCEPT !.status = IF Insufficient(h[i], size) THEN "ok" ELSE "wild"]
           /\ heap' = heap /\ written' = written
  BY <1>2, <1>4, <1>6 DEF LibraryMalloc
<1>8. PendingInv' /\ pending' \in [Threads -> Requests]
  <2>1. \A u \in Threads : pending[u] = NoRequest
    BY <1>0, RunningAlone
  <2>. QED BY <1>0, <1>1, <2>1 DEF PendingInv
<1>9. CASE Free(h[i]) /\ h[i].size >= size
  <2>1. Chain(g) /\ i \in 1 .. Len(g)
    BY <1>0, <1>3, <1>5, <1>6, <1>9, TakeKeeps
  <2>2. PagesInv(pt', fr')
    BY <1>0, <1>1, <1>7, <1>9
  <2>3. Tids(pt, pt', Library)
    BY <1>0 DEF Tids
  <2>4. ChainsInv(pt', heap')
    BY <1>0, <1>1, <1>7, <1>9, <2>1, <2>3, NewChain
  <2>5. written' \in [Owners -> Nat]
    BY <1>0, <1>1, <1>7, <1>9, <2>1, HandedKeeps
  <2>. QED BY <1>0, <1>1, <1>8, <2>2, <2>4, <2>5, AllocInvNew
<1>10. CASE ~ (Free(h[i]) /\ h[i].size >= size)
  <2>1. PICK e \in Statuses : e = IF Insufficient(h[i], size) THEN "ok" ELSE "wild"
    BY DEF Statuses
  <2>2. PagesInv(pt', fr')
    BY <1>0, <1>1, <1>7, <1>10, <2>1, StatusKeeps
  <2>. QED BY <1>0, <1>1, <1>7, <1>8, <1>10, <2>2, AllocInvNew
<1>. QED BY <1>9, <1>10

\* What is known of a request that is getting pages.
LEMMA Request ==
  ASSUME AllocInv, NEW t \in Threads, Getting(t)
  PROVE  /\ current_tid = t /\ pending[t] \in Requests /\ Asked(pt, t, heap[t], pending[t])
         /\ \A u \in Threads : u # t => pending[u] = NoRequest
         /\ Chain(heap[t])
         /\ pending[t].size \in Nat \ {0} /\ pending[t].curr \in Nat /\ pending[t].n \in Nat
         /\ heap[t][pending[t].curr].at \in Nat
         /\ PageOf(heap[t][pending[t].curr].at) \in Nat
<1>1. current_tid = t /\ pending[t] \in Requests /\ Asked(pt, t, heap[t], pending[t])
  BY DEF AllocInv, PendingInv, Getting
<1>2. \A u \in Threads : u # t => pending[u] = NoRequest
  BY <1>1 DEF AllocInv, PendingInv
<1>3. pending[t].size \in Nat \ {0} /\ pending[t].curr \in Nat /\ pending[t].n \in Nat
  BY <1>1 DEF Requests, Asked
<1>4. heap[t] \in Seq(Block) /\ pending[t].curr \in 1 .. Len(heap[t]) /\ t \in Owners
  BY <1>1 DEF AllocInv, ChainsInv, Asked, Owners
<1>5. heap[t] # <<>>
  <2>1. Len(<<>>) = 0
    OBVIOUS
  <2>2. \A k : ~ (k \in 1 .. 0)
    OBVIOUS
  <2>. QED BY <1>4, <2>1, <2>2
<1>6. Chain(heap[t])
  BY <1>4, <1>5, ChainAt DEF AllocInv
<1>7. heap[t][pending[t].curr].at \in Nat
  BY <1>4, BlockAt
<1>. QED BY <1>1, <1>2, <1>3, <1>6, <1>7, Pages

LEMMA GetPageKeeps ==
  ASSUME AllocInv, NEW t \in Threads, GetPage(t)
  PROVE  AllocInv'
<1>. DEFINE f == First(Unused(pt))
            r == pending[t]
            at == PageOf(heap[t][r.curr].at)
<1>0. /\ current_tid' = current_tid /\ heap' = heap /\ written' = written
      /\ Getting(t) /\ r.page = NULL /\ Unused(pt) # {}
      /\ pt' = RequestPage(pt, t, f) /\ fr' = [fr EXCEPT !.open = @ \cup {f}]
      /\ pending' = [pending EXCEPT ![t].page = f, ![t].n = @ + 1]
  BY DEF GetPage
<1>1. /\ ChainsInv(pt, heap) /\ current_tid \in Threads /\ written \in [Owners -> Nat] /\ PagesInv(pt, fr)
      /\ pending \in [Threads -> Requests] /\ TableInv(pt)
  BY DEF AllocInv, PagesInv
<1>2. /\ current_tid = t /\ r \in Requests /\ Asked(pt, t, heap[t], r)
      /\ \A u \in Threads : u # t => pending[u] = NoRequest
      /\ Chain(heap[t])
      /\ r.size \in Nat \ {0} /\ r.curr \in Nat /\ r.n \in Nat
      /\ at \in Nat
  BY <1>0, Request
<1>3. /\ f \in Frames
      /\ TableInv(pt') /\ Kept(pt, pt') /\ Settled(pt, pt')
      /\ pt'.table[f] = Entry(t, 0)
      /\ \A z \in Frames \ {f} : pt'.table[z] = pt.table[z]
  BY <1>0, <1>1, RequestPageKeeps
<1>4. Known(pt, t, at + r.n) /\ pt.table[0].tid = t
  BY <1>0, <1>2 DEF Asked
<1>5. at + r.n < f
  BY <1>0, <1>1, <1>4, KnownIsUsed
<1>. HIDE DEF f
<1>6. PagesInv(pt', fr')
  <2>1. PagesInv(pt', fr)
    BY <1>1, <1>3, DataFollows DEF PagesInv
  <2>2. PICK o \in SUBSET Frames : o = fr.open \cup {f}
    BY <1>1, <1>3, DataAt DEF PagesInv
  <2>3. fr' = [fr EXCEPT !.open = o]
    BY <1>0, <2>2
  <2>. QED BY <2>1, <2>3, OpenKeeps
<1>7. ChainsInv(pt', heap')
  <2>1. Entry(t, 0).tid = t
    BY DEF Entry
  <2>2. Tids(pt, pt', t)
    BY <1>3, <2>1 DEF Tids
  <2>3. heap[t] # <<>>
    BY <1>2 DEF Chain
  <2>. QED BY <1>0, <1>1, <2>2, <2>3, SameChains
<1>8. pending' \in [Threads -> Requests] /\ PendingInv'
  <2>1. PICK s : s = [size |-> r.size, curr |-> r.curr, n |-> r.n + 1, page |-> f]
    OBVIOUS
  <2>2. s.size = r.size /\ s.curr = r.curr /\ s.n = r.n + 1 /\ s.page = f /\ s \in Requests
    BY <1>2, <1>3, <2>1 DEF Requests
  <2>3. pending' = [pending EXCEPT ![t] = s]
    <3>1. r = [size |-> r.size, curr |-> r.curr, n |-> r.n, page |-> r.page]
      BY <1>2 DEF Requests
    <3>. DEFINE mid == [r EXCEPT !.page = f]
    <3>2. mid = [size |-> r.size, curr |-> r.curr, n |-> r.n, page |-> f]
      BY <3>1
    <3>3. [mid EXCEPT !.n = r.n + 1] = s
      <4>1. \A a, b, c, d, m : m = [size |-> a, curr |-> b, n |-> c, page |-> d] =>
              [m EXCEPT !.n = r.n + 1] = [size |-> a, curr |-> b, n |-> r.n + 1, page |-> d]
        OBVIOUS
      <4>. HIDE DEF mid
      <4>. QED BY <2>1, <3>2, <4>1
    <3>4. pending' = [[pending EXCEPT ![t].page = f] EXCEPT ![t].n = @ + 1]
      BY <1>0
    <3>. DEFINE some == [pending EXCEPT ![t].page = f]
    <3>5. some[t] = mid /\ some = [pending EXCEPT ![t] = mid] /\ some \in [Threads -> {some[u] : u \in Threads}]
      BY <1>1
    <3>6. mid.n = r.n
      BY <3>2
    <3>. HIDE DEF some, mid
    <3>7. pending' = [some EXCEPT ![t] = [mid EXCEPT !.n = r.n + 1]]
      BY <3>4, <3>5, <3>6 DEF some
    <3>. QED BY <1>1, <3>3, <3>5, <3>7
  <2>4. /\ Known(pt', t, at + r.n)
        /\ pt'.table[0] = pt.table[0]
    <3>1. 0 # f
      BY <1>2, <1>3, <1>5, FrameNumbers
    <3>. QED BY <1>3, <1>4, <3>1, KnownKept, FrameNumbers
  <2>5. f \in Nat /\ at + s.n - 1 = at + r.n /\ at + s.n <= f /\ s.n >= 1 /\ f # NULL
    BY <1>2, <1>3, <1>5, <2>2, FrameNumbers, NullAssumption
  <2>6. PageFound(pt', t, at, s)
    BY <1>3, <2>2, <2>4, <2>5 DEF PageFound
  <2>7. ~ Free(heap[t][r.curr]) =>
          IF s.n = 0 \/ (s.n = 1 /\ s.page # NULL) THEN r.curr = Len(heap[t])
          ELSE r.curr = Len(heap[t]) - 1 /\ Free(heap[t][Len(heap[t])])
    <3>1. (s.n = 1 <=> r.n = 0) /\ s.n # 0 /\ s.page # NULL
      BY <1>2, <2>2, <2>5
    <3>. QED BY <1>0, <1>2, <3>1 DEF Asked
  <2>8. Asked(pt', t, heap'[t], s)
    BY <1>0, <1>2, <1>4, <2>2, <2>4, <2>5, <2>6, <2>7 DEF Asked
  <2>9. current_tid = t /\ pending' = [pending EXCEPT ![current_tid] = s]
    BY <1>2, <2>3
  <2>. QED BY <1>0, <1>1, <1>2, <2>2, <2>8, <2>9, NewRequest
<1>. QED BY <1>0, <1>1, <1>6, <1>7, <1>8, AllocInvNew

LEMMA NoRequestTyped == NoRequest \in Requests
BY DEF NoRequest, Requests

LEMMA NoPageKeeps ==
  ASSUME AllocInv, NEW t \in Threads, NoPage(t)
  PROVE  AllocInv'
<1>0. /\ current_tid' = current_tid /\ heap' = heap /\ written' = written /\ pt' = pt /\ fr' = fr
      /\ pending' = [pending EXCEPT ![t] = NoRequest]
  BY DEF NoPage
<1>1. pending' \in [Threads -> Requests]
  BY <1>0, NoRequestTyped DEF AllocInv
<1>2. PendingInv'
  BY <1>0 DEF AllocInv, PendingInv
<1>. QED BY <1>0, <1>1, <1>2 DEF AllocInv

LEMMA UsePageKeeps ==
  ASSUME AllocInv, NEW t \in Threads, UsePage(t)
  PROVE  AllocInv'
<1>1. Getting(t) /\ pending[t].page # NULL /\ current_tid' = current_tid /\ t \in Owners
  BY DEF UsePage, Owners
<1>2. /\ ChainsInv(pt, heap) /\ current_tid \in Threads /\ written \in [Owners -> Nat] /\ PagesInv(pt, fr)
      /\ pending \in [Threads -> Requests] /\ TableInv(pt) /\ TableOK(pt)
  BY DEF AllocInv, PagesInv, TableInv
<1>3. PICK r : r = pending[t]
  OBVIOUS
<1>4. PICK old : old = heap[t]
  OBVIOUS
<1>5. PICK at \in Nat : at = PageOf(old[r.curr].at)
  BY <1>1, <1>3, <1>4, Request
<1>6. /\ current_tid = t /\ r \in Requests /\ Asked(pt, t, old, r)
      /\ \A u \in Threads : u # t => pending[u] = NoRequest
      /\ Chain(old)
      /\ r.size \in Nat \ {0} /\ r.curr \in Nat /\ r.n \in Nat
  BY <1>1, <1>3, <1>4, Request
<1>7. PICK h : h = Extended(old, r.curr, r.n)
  OBVIOUS
<1>8. PICK j : j = IF Free(old[r.curr]) THEN r.curr ELSE r.curr + 1
  OBVIOUS
<1>9. PICK next \in Nat : next = at + r.n
  BY <1>6
<1>10. PICK f \in Frames : f = r.page
  BY <1>1, <1>3, <1>6 DEF Asked, PageFound
<1>11. /\ r.n >= 1 /\ Known(pt, t, next - 1) /\ next <= f /\ pt.table[f] = Entry(t, 0)
       /\ pt.table[0].tid = t /\ r.curr \in 1 .. Len(old)
       /\ ~ Free(old[r.curr]) => IF r.n = 1 THEN r.curr = Len(old)
                                 ELSE r.curr = Len(old) - 1 /\ Free(old[Len(old)])
  <2>1. PageFound(pt, t, at, r) /\ pt.table[0].tid = t /\ r.curr \in 1 .. Len(old)
    BY <1>1, <1>3, <1>5, <1>6 DEF Asked
  <2>2. /\ r.n >= 1 /\ Known(pt, t, next - 1) /\ next <= f /\ pt.table[f] = Entry(t, 0)
    <3>1. /\ r.n >= 1 /\ Known(pt, t, at + (r.n - 1)) /\ at + r.n <= r.page
          /\ pt.table[r.page] = Entry(t, 0)
      BY <2>1, Zenon DEF PageFound
    <3>2. Known(pt, t, next - 1)
      <4>1. at + (r.n - 1) = next - 1
        BY <1>6, <1>9
      <4>. QED BY <3>1, <4>1
    <3>. QED BY <1>9, <1>10, <3>1, <3>2
  <2>. QED BY <1>1, <1>3, <1>6, <2>1, <2>2 DEF Asked
<1>12. next \in Nat \ {0} /\ f \in Frames \ {0} /\ r.n \in Nat \ {0}
  BY <1>6, <1>9, <1>11, FrameNumbers
<1>13. /\ pt' = TakeNext(pt, t, f, next)
       /\ next \in Frames /\ NextNumber(pt, next) = next
       /\ TableInv(pt') /\ Kept(pt, pt') /\ Settled(pt, pt')
       /\ pt'.table[0] = pt.table[0] /\ Known(pt', t, next)
  <2>1. pt' = TakeNext(pt, t, f, next)
    BY <1>3, <1>4, <1>5, <1>9, <1>10 DEF UsePage
  <2>. QED BY <1>2, <1>11, <1>12, <2>1, TakeNextKeeps
<1>14. PICK moved : moved = SwapEmptyPage(fr, f, next, <<t, next>>)
  OBVIOUS
<1>15. PICK s : s = AccessHeaders(pt', moved, t, h, <<r.curr, j>>)
  OBVIOUS
<1>16. PICK g : g = Take(h, j, r.size, written[t])
  OBVIOUS
<1>17. /\ r.size > h[j].size =>
            /\ heap' = [heap EXCEPT ![t] = h]
            /\ fr' = s
            /\ pending' = [pending EXCEPT ![t] = Again(r)]
            /\ written' = written
       /\ ~ (r.size > h[j].size) =>
            /\ heap' = [heap EXCEPT ![t] = g]
            /\ fr' = TakeBytes(pt', s, t, h, g, j)
            /\ pending' = [pending EXCEPT ![t] = NoRequest]
            /\ Handed(t, g[j])
  BY <1>3, <1>4, <1>5, <1>7, <1>8, <1>9, <1>10, <1>13, <1>14, <1>15, <1>16 DEF UsePage
<1>18. PagesInv(pt', moved)
  <2>1. PagesInv(pt', fr)
    BY <1>2, <1>13, DataFollows DEF PagesInv
  <2>. QED BY <1>12, <1>13, <1>14, <2>1, SwapEmptyPageKeeps
<1>19. Tids(pt, pt', t)
  <2>1. \A z \in Frames : pt'.table[z] = IF z = next THEN Entry(t, NextNumber(pt, next))
                                         ELSE IF z = f THEN pt.table[next] ELSE pt.table[z]
    BY <1>2, <1>12, <1>13, TakeNextIs
  <2>2. Entry(t, NextNumber(pt, next)).tid = t
    BY DEF Entry
  <2>. QED BY <1>13, <2>1, <2>2 DEF Tids
<1>20. /\ Chain(h) /\ j = Len(h) /\ Free(h[j])
       /\ r.curr \in 1 .. Len(h) /\ h[r.curr].at = old[r.curr].at /\ (Free(h[r.curr]) <=> Free(old[r.curr]))
  <2>1. PICK c \in 1 .. Len(old), n \in Nat \ {0} : c = r.curr /\ n = r.n
    BY <1>11, <1>12
  <2>2. ~ Free(old[c]) => IF n = 1 THEN c = Len(old) ELSE c = Len(old) - 1 /\ Free(old[Len(old)])
    BY <1>11, <2>1
  <2>3. LET e == Extended(old, c, n)
            k == IF Free(old[c]) THEN c ELSE c + 1
        IN  /\ Chain(e) /\ k = Len(e) /\ Free(e[k])
            /\ c \in 1 .. Len(e) /\ e[c].at = old[c].at /\ (Free(e[c]) <=> Free(old[c]))
    BY <1>6, <2>2, ExtendedKeeps
  <2>. QED BY <1>7, <1>8, <2>1, <2>3
<1>21. j \in 1 .. Len(h) /\ h \in Seq(Block) /\ Len(h) \in Nat
  BY <1>20, ChainLength
<1>22. PagesInv(pt', s)
  <2>1. PICK is : is = <<r.curr, j>>
    OBVIOUS
  <2>2. Len(is) = 2 /\ is[1] = r.curr /\ is[2] = j
    BY <2>1
  <2>3. Len(is) \in Nat /\ \A k \in 1 .. Len(is) : is[k] \in 1 .. Len(h)
    BY <1>20, <1>21, <2>2
  <2>. QED BY <1>15, <1>18, <1>21, <2>1, <2>3, HeadersKeep
<1>23. CASE r.size > h[j].size
  <2>1. ChainsInv(pt', heap') /\ heap' = [heap EXCEPT ![t] = h]
    BY <1>1, <1>2, <1>17, <1>19, <1>20, <1>23, NewChain
  <2>2. heap'[t] = h
    BY <1>1, <1>2, <2>1 DEF ChainsInv
  <2>3. PICK q : q = Again(r)
    OBVIOUS
  <2>4. q.size = r.size /\ q.curr = r.curr /\ q.n = r.n /\ q.page = NULL /\ q \in Requests
    BY <1>6, <2>3 DEF Again, Requests
  <2>5. pending' = [pending EXCEPT ![current_tid] = q]
    BY <1>2, <1>3, <1>6, <1>17, <1>23, <2>3
  <2>6. Known(pt', t, PageOf(h[q.curr].at) + q.n)
    BY <1>5, <1>9, <1>13, <1>20, <2>4
  <2>7. ~ Free(h[q.curr]) => q.curr = Len(h) - 1 /\ Free(h[Len(h)])
    BY <1>6, <1>8, <1>20, <1>21, <2>4
  <2>8. ~ (q.n = 0 \/ (q.n = 1 /\ q.page # NULL))
    BY <1>12, <2>4
  <2>9. Asked(pt', t, heap'[t], q)
    BY <1>6, <1>11, <1>13, <1>20, <2>2, <2>4, <2>6, <2>7, <2>8 DEF Asked
  <2>10. pending' \in [Threads -> Requests] /\ PendingInv'
    BY <1>1, <1>2, <1>6, <2>4, <2>5, <2>9, NewRequest
  <2>. QED BY <1>1, <1>2, <1>17, <1>22, <1>23, <2>1, <2>10, AllocInvNew
<1>24. CASE ~ (r.size > h[j].size)
  <2>1. h[j].size >= r.size
    BY <1>6, <1>21, <1>24, BlockAt
  <2>2. Chain(g) /\ j \in 1 .. Len(g) /\ (Len(g) > Len(h) => j + 1 \in 1 .. Len(g))
    <3>1. PICK size \in Nat \ {0} : size = r.size
      BY <1>6
    <3>2. h[j].size >= size /\ g = Take(h, j, size, written[t])
      BY <1>16, <2>1, <3>1
    <3>. QED BY <1>20, <3>2, TakeKeeps
  <2>3. PagesInv(pt', fr')
    BY <1>17, <1>22, <1>24, <2>2, TakeBytesKeeps
  <2>4. ChainsInv(pt', heap')
    BY <1>1, <1>2, <1>17, <1>19, <1>24, <2>2, NewChain
  <2>5. written' \in [Owners -> Nat]
    BY <1>1, <1>2, <1>17, <1>24, <2>2, HandedKeeps
  <2>6. pending' \in [Threads -> Requests] /\ PendingInv'
    <3>1. pending' = [pending EXCEPT ![current_tid] = NoRequest]
      BY <1>6, <1>17, <1>24
    <3>. QED BY <1>1, <1>2, <1>6, <3>1, NoRequestTyped, NewRequest
  <2>. QED BY <1>1, <1>2, <2>3, <2>4, <2>5, <2>6, AllocInvNew
<1>. QED BY <1>23, <1>24

\* mydeallocate() from the block that it found.
LEMMA FreeBlockKeeps ==
  ASSUME NEW p, NEW r, PagesInv(p, r), NEW o, NEW h, Chain(h), NEW i \in 1 .. Len(h), FreeBlock(o, h, i, r)
  PROVE  PagesInv(p, fr') /\ \E g : Chain(g) /\ heap' = [heap EXCEPT ![o] = g]
<1>1. PICK g : g = Release(h, i)
  OBVIOUS
<1>2. Chain(g) /\ g \in Seq(Block) /\ Len(g) \in Nat
  BY <1>1, ReleaseKeeps, ChainLength
<1>3. \/ /\ heap' = [heap EXCEPT ![o] = g]
         /\ \E end \in {r.status, "wild"} : fr' = [r EXCEPT !.status = end]
      \/ /\ heap' = [heap EXCEPT ![o] = IF PrevIsFree(g, i) /\ i < Len(g) THEN MergePrev(g, i) ELSE g]
         /\ fr' = [r EXCEPT !.status = IF PrevIsFree(g, i) /\ i = Len(g) THEN "exit" ELSE @]
  BY <1>1 DEF FreeBlock
<1>4. r.status \in Statuses /\ "wild" \in Statuses /\ "exit" \in Statuses
  <2>1. "wild" \in Statuses /\ "exit" \in Statuses
    BY DEF Statuses
  <2>2. 0 \in Frames /\ FramesOK(r)
    BY FrameNumbers DEF PagesInv
  <2>. QED BY <2>1, <2>2, DataAt
<1>5. \E e \in Statuses : fr' = [r EXCEPT !.status = e]
  BY <1>3, <1>4
<1>6. PagesInv(p, fr')
  BY <1>5, StatusKeeps
<1>7. CASE PrevIsFree(g, i) /\ i < Len(g)
  <2>1. i \in 1 .. Len(g)
    BY <1>2, <1>7
  <2>2. Chain(MergePrev(g, i))
    BY <1>2, <1>7, <2>1, MergePrevKeeps
  <2>. QED BY <1>2, <1>3, <1>6, <1>7, <2>2
<1>8. CASE ~ (PrevIsFree(g, i) /\ i < Len(g))
  <2>1. heap' = [heap EXCEPT ![o] = g]
    BY <1>3, <1>8
  <2>. QED BY <1>2, <1>6, <2>1
<1>. QED BY <1>7, <1>8

LEMMA DeallocKeeps ==
  ASSUME AllocInv, NEW t \in Threads, NEW i \in Nat, Dealloc(t, i)
  PROVE  AllocInv'
<1>. DEFINE q == HeadTable(t)
            b == HeadBytes(t)
<1>0. /\ Running(t) /\ ~ NoHead(t) /\ pt' = q /\ current_tid' = current_tid
      /\ written' = written /\ pending' = pending /\ t \in Owners
  BY DEF Dealloc, Owners
<1>1. /\ ChainsInv(pt, heap) /\ current_tid \in Threads /\ written \in [Owners -> Nat]
      /\ pending \in [Threads -> Requests]
  BY DEF AllocInv
<1>2. PICK h : h = HeadChain(t)
  OBVIOUS
<1>3. /\ PagesInv(q, b) /\ Tids(pt, q, t) /\ Chain(h)
  BY <1>0, <1>2, HeadKeeps
<1>4. PICK valid : valid = (i \in 1 .. Len(h) /\ InBounds(h[i], PAGE_SIZE))
  OBVIOUS
<1>5. PICK s : s = IF i \in 1 .. Len(h) /\ InBounds(h[i], PAGE_SIZE)
                   THEN AccessHeaders(q, b, t, h, Upto(i)) ELSE b
  OBVIOUS
<1>6. PICK r : r = AccessHeaders(q, s, t, h, Neighbours(h, i))
  OBVIOUS
<1>7. \/ i \in 1 .. Len(h) /\ FreeBlock(t, h, i, r)
      \/ heap' = [heap EXCEPT ![t] = h] /\ fr' = s
  BY <1>2, <1>5, <1>6 DEF Dealloc
<1>. HIDE DEF q, b
<1>8. h \in Seq(Block) /\ Len(h) \in Nat \ {0}
  BY <1>3, ChainLength
<1>9. PagesInv(q, s)
  <2>1. CASE i \in 1 .. Len(h) /\ InBounds(h[i], PAGE_SIZE)
    BY <1>3, <1>5, <1>8, <2>1, UptoKeeps
  <2>2. CASE ~ (i \in 1 .. Len(h) /\ InBounds(h[i], PAGE_SIZE))
    BY <1>3, <1>5, <2>2
  <2>. QED BY <2>1, <2>2
<1>10. PagesInv(pt', fr') /\ \E g : Chain(g) /\ heap' = [heap EXCEPT ![t] = g]
  <2>1. CASE i \in 1 .. Len(h) /\ FreeBlock(t, h, i, r)
    <3>1. PICK is : is = Neighbours(h, i)
      OBVIOUS
    <3>2. Len(is) \in Nat /\ \A k \in 1 .. Len(is) : is[k] \in 1 .. Len(h)
      <4>1. is = <<>> \/ (i < Len(h) /\ is = <<i + 1>>) \/ (i + 1 < Len(h) /\ is = <<i + 1, i + 2>>)
        BY <1>8, <2>1, <3>1 DEF Neighbours
      <4>2. CASE is = <<>>
        BY <4>2
      <4>3. CASE i < Len(h) /\ is = <<i + 1>>
        <5>1. Len(is) = 1 /\ is[1] = i + 1 /\ i + 1 \in 1 .. Len(h)
          BY <1>8, <4>3
        <5>. QED BY <5>1
      <4>4. CASE i + 1 < Len(h) /\ is = <<i + 1, i + 2>>
        <5>1. Len(is) = 2 /\ is[1] = i + 1 /\ is[2] = i + 2 /\ i + 1 \in 1 .. Len(h) /\ i + 2 \in 1 .. Len(h)
          BY <1>8, <4>4
        <5>. QED BY <5>1
      <4>. QED BY <4>1, <4>2, <4>3, <4>4
    <3>3. PagesInv(q, r)
      BY <1>6, <1>8, <1>9, <3>1, <3>2, HeadersKeep
    <3>4. PagesInv(q, fr') /\ \E g : Chain(g) /\ heap' = [heap EXCEPT ![t] = g]
      BY <1>3, <2>1, <3>3, FreeBlockKeeps
    <3>. QED BY <1>0, <3>4
  <2>2. CASE heap' = [heap EXCEPT ![t] = h] /\ fr' = s
    BY <1>0, <1>3, <1>9, <2>2
  <2>. QED BY <1>7, <2>1, <2>2
<1>11. ChainsInv(pt', heap')
  <2>1. PICK g : Chain(g) /\ heap' = [heap EXCEPT ![t] = g]
    BY <1>10
  <2>. QED BY <1>0, <1>1, <1>3, <2>1, NewChain
<1>12. PendingInv'
  <2>1. \A u \in Threads : pending[u] = NoRequest
    BY <1>0, RunningAlone
  <2>. QED BY <1>0, <2>1 DEF PendingInv
<1>. QED BY <1>0, <1>1, <1>10, <1>11, <1>12, AllocInvNew

LEMMA LibraryFreeKeeps ==
  ASSUME AllocInv, NEW t \in Threads, NEW i \in 1 .. Len(heap[Library]), LibraryFree(t, i)
  PROVE  AllocInv'
<1>0. /\ Running(t) /\ pt' = pt /\ current_tid' = current_tid
      /\ written' = written /\ pending' = pending /\ Library \in Owners
      /\ FreeBlock(Library, heap[Library], i, fr)
  BY DEF LibraryFree, Owners
<1>1. /\ ChainsInv(pt, heap) /\ current_tid \in Threads /\ written \in [Owners -> Nat]
      /\ pending \in [Threads -> Requests] /\ PagesInv(pt, fr) /\ heap[Library] # <<>>
  BY DEF AllocInv, ChainsInv
<1>2. Chain(heap[Library])
  BY <1>0, <1>1, ChainAt
<1>3. PagesInv(pt, fr') /\ \E g : Chain(g) /\ heap' = [heap EXCEPT ![Library] = g]
  <2>1. PICK h, r : h = heap[Library] /\ r = fr
    OBVIOUS
  <2>2. Chain(h) /\ i \in 1 .. Len(h) /\ PagesInv(pt, r) /\ FreeBlock(Library, h, i, r)
    BY <1>0, <1>1, <1>2, <2>1
  <2>. QED BY <2>2, FreeBlockKeeps
<1>4. Tids(pt, pt', Library)
  BY <1>0 DEF Tids
<1>5. ChainsInv(pt', heap')
  <2>1. PICK g : Chain(g) /\ heap' = [heap EXCEPT ![Library] = g]
    BY <1>3
  <2>. QED BY <1>0, <1>1, <1>4, <2>1, NewChain
<1>6. PendingInv'
  <2>1. \A u \in Threads : pending[u] = NoRequest
    BY <1>0, RunningAlone
  <2>. QED BY <1>0, <2>1 DEF PendingInv
<1>. QED BY <1>0, <1>1, <1>3, <1>5, <1>6, AllocInvNew

LEMMA TouchKeeps ==
  ASSUME AllocInv, NEW t \in Threads, NEW i \in 1 .. Len(heap[t]), Touch(t, i)
  PROVE  AllocInv'
<1>0. UNCHANGED <<pt, current_tid, heap, written, pending>>
  BY DEF Touch
<1>1. PagesInv(pt, fr) /\ heap[t] \in Seq(Block)
  BY DEF AllocInv, ChainsInv, Owners
<1>2. PICK b \in Block : b = heap[t][i]
  BY <1>1, BlockAt
<1>3. b.at + META \in Nat /\ After(b) - 1 \in Nat
  BY SizesAssumption DEF Block, After
<1>4. PICK first \in Nat, last \in Nat : first = PageOf(b.at + META) /\ last = PageOf(After(b) - 1)
  BY <1>3, Pages
<1>5. PICK n \in Nat : n = IF last >= first THEN last - first + 1 ELSE 0
  <2>1. (IF last >= first THEN last - first + 1 ELSE 0) \in Nat
    OBVIOUS
  <2>. QED BY <2>1
<1>6. 1 .. (last - first + 1) = 1 .. n
  BY <1>5
<1>7. fr' = AccessPages(pt, fr, t, [k \in 1 .. (last - first + 1) |-> first + k - 1])
  BY <1>2, <1>4 DEF Touch
<1>8. PICK ps : ps = [k \in 1 .. n |-> first + k - 1]
  OBVIOUS
<1>9. Len(ps) = n /\ \A k \in 1 .. n : ps[k] = first + k - 1 /\ first + k - 1 \in Nat
  BY <1>8
<1>10. fr' = AccessPages(pt, fr, t, ps)
  BY <1>6, <1>7, <1>8
<1>11. PagesInv(pt, fr')
  <2>1. Len(ps) \in Nat /\ \A k \in 1 .. Len(ps) : ps[k] \in Nat
    BY <1>9
  <2>. QED BY <1>1, <1>10, <2>1, AccessPagesKeeps
<1>. QED BY <1>0, <1>11 DEF AllocInv, PendingInv

LEMMA SwitchKeeps ==
  ASSUME AllocInv, ~ Interruptible, NEW u \in Threads, Switch(u)
  PROVE  AllocInv'
<1>0. /\ UNCHANGED <<pt, heap, written, pending>> /\ current_tid' = u
      /\ pending[current_tid] = NoRequest /\ fr' = MprotectSetter(pt, fr, u, current_tid)
  BY DEF Switch
<1>1. PagesInv(pt, fr) /\ current_tid \in Threads /\ 0 \in Frames /\ Memory \subseteq Frames
  BY FrameNumbers DEF AllocInv
<1>2. PagesInv(pt, fr')
  <2>. DEFINE Of(t) == {y \in Memory : pt.table[y].tid = t}
  <2>1. PICK o : o = (fr.open \cup Of(u)) \ Of(current_tid)
    OBVIOUS
  <2>2. o \in SUBSET Frames
    BY <1>1, <2>1, DataAt DEF PagesInv
  <2>3. fr' = [fr EXCEPT !.open = o]
    BY <1>0, <2>1 DEF MprotectSetter
  <2>. QED BY <1>1, <2>2, <2>3, OpenKeeps
<1>3. \A t \in Threads : pending[t] = NoRequest
  BY <1>0 DEF AllocInv, PendingInv
<1>4. PendingInv'
  BY <1>0, <1>3 DEF PendingInv
<1>. QED BY <1>0, <1>2, <1>4 DEF AllocInv

-----------------------------------------------------------------------------
(***************************************************************************)
(* The theorems                                                            *)
(***************************************************************************)

LEMMA InitHolds ==
  ASSUME Init
  PROVE  AllocInv
<1>1. /\ pt = InitTable /\ fr = InitFrames /\ current_tid \in Threads
      /\ heap = [o \in Owners |-> IF o = Library THEN InitMem(o, OS_SIZE) ELSE <<>>]
      /\ written = [o \in Owners |-> 0] /\ pending = [t \in Threads |-> NoRequest]
  BY DEF Init
<1>2. TableInv(pt) /\ (\A y \in Frames : pt.table[y] = FreeEntry) /\ FreeEntry.tid = Nobody
  BY <1>1, InitPages DEF FreeEntry
<1>6. PagesInv(pt, fr)
  <2>1. FramesOK(fr) /\ \A y \in Frames : fr.data[y] = Blank
    BY <1>1, InitPages
  <2>2. DataInv(pt, fr)
    BY <2>1, BlankAssumption DEF DataInv
  <2>. QED BY <1>2, <2>1, <2>2 DEF PagesInv
<1>7. ChainsInv(pt, heap)
  <2>1. Chain(InitMem(Library, OS_SIZE))
    BY SizesAssumption, InitMemChain
  <2>2. /\ InitMem(Library, OS_SIZE) \in Seq(Block) /\ InitMem(Library, OS_SIZE) # <<>>
        /\ \A i \in 1 .. Len(InitMem(Library, OS_SIZE)) :
             Free(InitMem(Library, OS_SIZE)[i]) => i = Len(InitMem(Library, OS_SIZE))
    BY <2>1 DEF Chain
  <2>3. Library \in Owners /\ \A o \in Owners : heap[o] = IF o = Library THEN InitMem(Library, OS_SIZE) ELSE <<>>
    BY <1>1 DEF Owners
  <2>4. <<>> \in Seq(Block) /\ \A i : ~ (i \in 1 .. Len(<<>>))
    OBVIOUS
  <2>5. heap \in [Owners -> Seq(Block)]
    BY <1>1, <2>2, <2>4
  <2>6. \A y \in Frames : pt.table[y].tid \notin Threads
    BY <1>2, NobodyAssumption
  <2>7. \A o \in Owners : \A i \in 1 .. Len(heap[o]) : Free(heap[o][i]) => i = Len(heap[o])
    BY <2>2, <2>3, <2>4
  <2>. QED BY <2>2, <2>3, <2>5, <2>6, <2>7 DEF ChainsInv
<1>. QED BY <1>1, <1>6, <1>7, NoRequestTyped DEF AllocInv, PendingInv

LEMMA AllocSteps ==
  ASSUME AllocInv, ~ Interruptible, [Next]_vars
  PROVE  AllocInv'
<1>1. CASE \E t \in Threads, size \in Sizes : Malloc(t, size)
  BY <1>1, MallocKeeps
<1>2. CASE \E t \in Threads : GetPage(t)
  BY <1>2, GetPageKeeps
<1>3. CASE \E t \in Threads : NoPage(t)
  BY <1>3, NoPageKeeps
<1>4. CASE \E t \in Threads : UsePage(t)
  BY <1>4, UsePageKeeps
<1>5. CASE \E t \in Threads : \E i \in 0 .. Len(heap[t]) : Dealloc(t, i)
  <2>0. PICK t \in Threads : \E i \in 0 .. Len(heap[t]) : Dealloc(t, i)
    BY <1>5
  <2>1. PICK i \in 0 .. Len(heap[t]) : Dealloc(t, i)
    BY <2>0
  <2>2. heap[t] \in Seq(Block)
    BY DEF AllocInv, ChainsInv, Owners
  <2>3. i \in Nat
    BY <2>2, LenProperties
  <2>. QED BY <2>1, <2>3, DeallocKeeps
<1>6. CASE \E t \in Threads, size \in Sizes : LibraryMalloc(t, size)
  BY <1>6, LibraryMallocKeeps
<1>7. CASE \E t \in Threads : \E i \in 1 .. Len(heap[Library]) : LibraryFree(t, i)
  BY <1>7, LibraryFreeKeeps
<1>8. CASE \E t \in Threads : \E i \in 1 .. Len(heap[t]) : Touch(t, i)
  BY <1>8, TouchKeeps
<1>9. CASE \E u \in Threads : Switch(u)
  BY <1>9, SwitchKeeps
<1>10. CASE vars' = vars
  BY <1>10 DEF vars, AllocInv, PendingInv
<1>. QED BY <1>1, <1>2, <1>3, <1>4, <1>5, <1>6, <1>7, <1>8, <1>9, <1>10 DEF Next

LEMMA AllocInvImplies ==
  ASSUME AllocInv
  PROVE  TypeOK /\ CountersMatch /\ PagesNumbered
<1>1. /\ PagesInv(pt, fr) /\ TableInv(pt) /\ ChainsInv(pt, heap) /\ current_tid \in Threads
      /\ written \in [Owners -> Nat] /\ pending \in [Threads -> Requests]
  BY DEF AllocInv, PagesInv
<1>2. TypeOK
  BY <1>1 DEF TypeOK, PagesInv, TableInv, ChainsInv, Requests
<1>3. CountersMatch
  BY <1>1, CountersCount DEF CountersMatch, TableInv
<1>4. PagesNumbered
  <2>1. ASSUME NEW t \in Threads, NEW y \in Frames, pt.table[y].tid = t, NEW n \in 0 .. pt.table[y].page_num
        PROVE  Holding(pt, t, n) # {}
    BY <1>1, <2>1 DEF TableInv, Gapless
  <2>2. \A y \in Frames : pt.table[pt.table[y].page_num].page_num = pt.table[y].page_num
    BY <1>1 DEF TableInv, Numbered
  <2>. QED BY <2>1, <2>2 DEF PagesNumbered
<1>. QED BY <1>2, <1>3, <1>4

\* The invariant is inductive when no thread is switched out in myallocate().
THEOREM AllocatorInvariant ==
  ASSUME Interruptible = FALSE
  PROVE  Spec => []AllocInv
<1>1. Init => AllocInv
  BY InitHolds
<1>2. AllocInv /\ [Next]_vars => AllocInv'
  BY AllocSteps
<1>. QED BY <1>1, <1>2, PTL DEF Spec

\* Every state is typed.
THEOREM AllocatorTyped ==
  ASSUME Interruptible = FALSE
  PROVE  Spec => []TypeOK
<1>1. AllocInv => TypeOK
  BY AllocInvImplies
<1>. QED BY <1>1, AllocatorInvariant, PTL

\* The counters that myallocate() decides by say how many pages of memory and of
\* the swap file are free.
THEOREM CountersAreRight ==
  ASSUME Interruptible = FALSE
  PROVE  Spec => []CountersMatch
<1>1. AllocInv => CountersMatch
  BY AllocInvImplies
<1>. QED BY <1>1, AllocatorInvariant, PTL

\* A thread's pages are numbered from 0 without a gap, however often they have been
\* moved, and a frame that was grown into keeps its number.
THEOREM PagesAreNumbered ==
  ASSUME Interruptible = FALSE
  PROVE  Spec => []PagesNumbered
<1>1. AllocInv => PagesNumbered
  BY AllocInvImplies
<1>. QED BY <1>1, AllocatorInvariant, PTL

-----------------------------------------------------------------------------
(***************************************************************************)
(* The bytes of the pages                                                  *)
(***************************************************************************)

\* Frame y holds what its entry says.
Told(p, s, y) ==
  s.data[y] = IF p.table[y].inUse = 1 THEN <<p.table[y].tid, p.table[y].page_num>> ELSE Blank

\* The frames in memory that may be accessed and are in use are t's.
OpenTo(p, s, t) == \A y \in s.open \cap Memory : p.table[y].inUse = 1 => p.table[y].tid = t

\* Frames that are not in use are empty, and so are those in F, which have just
\* been requested.  Where the others hold what their entries say, no page of
\* another thread than t can be accessed.
Tame(p, s, t, F) ==
  s.status = "ok" =>
    /\ \A y \in Frames : p.table[y].inUse = 0 \/ y \in F => s.data[y] = Blank
    /\ (\A y \in Frames \ F : Told(p, s, y)) => OpenTo(p, s, t)

\* Every page that has bytes in r has them in s, each in a frame of its own.
Saved(r, s) ==
  \E m \in [Frames -> Frames] :
    /\ \A y, z \in Frames : m[y] = m[z] => y = z
    /\ \A y \in Frames : r.data[y] # Blank => s.data[m[y]] = r.data[y]

LEMMA SavedSame ==
  ASSUME NEW r, NEW s, \A y \in Frames : r.data[y] # Blank => s.data[y] = r.data[y]
  PROVE  Saved(r, s)
<1>. DEFINE m == [y \in Frames |-> y]
<1>1. m \in [Frames -> Frames] /\ \A y \in Frames : m[y] = y
  OBVIOUS
<1>. HIDE DEF m
<1>. QED BY <1>1 DEF Saved

LEMMA SavedThen ==
  ASSUME NEW r, NEW s, NEW a, Saved(r, s), Saved(s, a)
  PROVE  Saved(r, a)
<1>1. PICK m \in [Frames -> Frames] : /\ \A y, z \in Frames : m[y] = m[z] => y = z
                                      /\ \A y \in Frames : r.data[y] # Blank => s.data[m[y]] = r.data[y]
  BY DEF Saved
<1>2. PICK n \in [Frames -> Frames] : /\ \A y, z \in Frames : n[y] = n[z] => y = z
                                      /\ \A y \in Frames : s.data[y] # Blank => a.data[n[y]] = s.data[y]
  BY DEF Saved
<1>. DEFINE k == [y \in Frames |-> n[m[y]]]
<1>3. k \in [Frames -> Frames] /\ \A y \in Frames : k[y] = n[m[y]] /\ m[y] \in Frames
  OBVIOUS
<1>. HIDE DEF k
<1>4. \A y, z \in Frames : k[y] = k[z] => y = z
  BY <1>1, <1>2, <1>3
<1>5. \A y \in Frames : r.data[y] # Blank => a.data[k[y]] = r.data[y]
  BY <1>1, <1>2, <1>3
<1>. QED BY <1>3, <1>4, <1>5 DEF Saved

\* Two frames exchange their bytes, or one takes the bytes of the other.
Moved(r, s, y, z) ==
  /\ r.data[y] # Blank => s.data[z] = r.data[y]
  /\ r.data[z] # Blank => s.data[y] = r.data[z]
  /\ \A x \in Frames : x # y /\ x # z => s.data[x] = r.data[x]

LEMMA SavedMoved ==
  ASSUME NEW r, NEW s, NEW y \in Frames, NEW z \in Frames, Moved(r, s, y, z)
  PROVE  Saved(r, s)
<1>. DEFINE m == [x \in Frames |-> IF x = y THEN z ELSE IF x = z THEN y ELSE x]
<1>1. m \in [Frames -> Frames] /\ \A x \in Frames : m[x] = IF x = y THEN z ELSE IF x = z THEN y ELSE x
  OBVIOUS
<1>. HIDE DEF m
<1>2. \A x, w \in Frames : m[x] = m[w] => x = w
  BY <1>1
<1>3. \A x \in Frames : r.data[x] # Blank => s.data[m[x]] = r.data[x]
  BY <1>1 DEF Moved
<1>. QED BY <1>1, <1>2, <1>3 DEF Saved

LEMMA SavedCounts ==
  ASSUME NEW r, NEW s, Saved(r, s), NEW v, v # Blank
  PROVE  Cardinality({z \in Frames : r.data[z] = v}) <= Cardinality({z \in Frames : s.data[z] = v})
<1>. DEFINE A == {z \in Frames : r.data[z] = v}
            B == {z \in Frames : s.data[z] = v}
<1>1. PICK m \in [Frames -> Frames] : /\ \A y, z \in Frames : m[y] = m[z] => y = z
                                      /\ \A y \in Frames : r.data[y] # Blank => s.data[m[y]] = r.data[y]
  BY DEF Saved
<1>. DEFINE k == [z \in A |-> m[z]]
<1>2. k \in [A -> B]
  BY <1>1
<1>3. \A y, z \in A : k[y] = k[z] => y = z
  BY <1>1
<1>4. IsFiniteSet(B)
  <2>1. IsFiniteSet(0 .. (Total - 1))
    BY FS_Interval, FrameNumbers
  <2>2. IsFiniteSet(Frames) /\ B \in SUBSET Frames
    BY <2>1, FrameNumbers
  <2>. HIDE DEF B
  <2>. QED BY <2>2, FS_Subset
<1>5. k \in Injection(A, B)
  <2>1. DOMAIN k = A
    OBVIOUS
  <2>. HIDE DEF A, B, k
  <2>. QED BY <1>2, <1>3, <2>1 DEF Injection, IsInjective
<1>. HIDE DEF A, B, k
<1>6. Cardinality(A) <= Cardinality(B)
  BY <1>4, <1>5, FS_Injection
<1>. QED BY <1>6 DEF A, B

-----------------------------------------------------------------------------
(***************************************************************************)
(* What moves bytes                                                        *)
(***************************************************************************)

LEMMA SwapPageIs ==
  ASSUME NEW p, NEW s, PagesInv(p, s), NEW t, NEW n, NEW y, Holding(p, t, n) # {}, y = First(Holding(p, t, n)),
         NEW g, g = SwapPage(p, s, t, n)
  PROVE  /\ y \in Frames /\ n \in Frames /\ p.table[y].tid = t /\ p.table[y].page_num = n
         /\ FramesOK(g) /\ g.status = s.status /\ g.open = (s.open \cup {n}) \ {y}
         /\ \A x \in Frames : g.data[x] = IF x = n THEN s.data[y] ELSE IF x = y THEN s.data[n] ELSE s.data[x]
<1>0. TableInv(p) /\ FramesOK(s)
  BY DEF PagesInv
<1>1. y \in Frames /\ n \in Frames /\ y \in Holding(p, t, n)
  <2>1. Holding(p, t, n) \in SUBSET Frames
    BY DEF Holding
  <2>. QED BY <1>0, <2>1, HoldingFrames, LeastFrame
<1>2. p.table[y].tid = t /\ p.table[y].page_num = n
  BY <1>1 DEF Holding
<1>3. g = [s EXCEPT !.data[y] = s.data[n], !.data[n] = s.data[y], !.open = (@ \cup {n}) \ {y}]
  BY DEF SwapPage
<1>4. PICK o \in SUBSET Frames : o = (s.open \cup {n}) \ {y}
  BY <1>0, <1>1, DataAt
<1>5. PICK a \in Bytes, b \in Bytes : a = s.data[n] /\ b = s.data[y]
  BY <1>0, <1>1, DataAt
<1>6. Rewritten(s, g, y, a, n, b, o)
  BY <1>3, <1>4, <1>5 DEF Rewritten
<1>7. PICK e, z : e = g /\ z = y
  OBVIOUS
<1>8. /\ FramesOK(e) /\ e.status = s.status /\ e.open = o
      /\ \A x \in Frames : e.data[x] = IF x = n THEN b ELSE IF x = z THEN a ELSE s.data[x]
  <2>1. Rewritten(s, e, z, a, n, b, o) /\ z \in Frames
    BY <1>1, <1>6, <1>7
  <2>. QED BY <1>0, <1>1, <2>1, NewData
<1>. QED BY <1>1, <1>2, <1>4, <1>5, <1>7, <1>8

LEMMA MoveHeadBytesIs ==
  ASSUME NEW p, NEW s, FramesOK(s), NEW t, NEW y \in Frames, y # 0, y \in s.open
  PROVE  LET g == MoveHeadBytes(p, s, t, y)
         IN  /\ g.open = (s.open \cup {0}) \ {y}
             /\ \A x \in Frames : g.data[x] = IF x = y THEN s.data[0] ELSE IF x = 0 THEN s.data[y] ELSE s.data[x]
<1>. DEFINE b == MoveHeadBytes(p, s, t, y)
<1>0. 0 \in Frames
  BY FrameNumbers
<1>1. PICK m : m = [s EXCEPT !.open = @ \cup {0}]
  OBVIOUS
<1>2. m.open = s.open \cup {0} /\ m.data = s.data /\ FramesOK(m)
  BY <1>0, <1>1 DEF FramesOK
<1>3. b = [m EXCEPT !.data[0] = s.data[y], !.data[y] = s.data[0], !.open = @ \ {y}]
  BY <1>1 DEF MoveHeadBytes
<1>. HIDE DEF b
<1>4. PICK o \in SUBSET Frames : o = (s.open \cup {0}) \ {y}
  BY <1>0, DataAt
<1>5. PICK c \in Bytes, d \in Bytes : c = s.data[y] /\ d = s.data[0]
  BY <1>0, DataAt
<1>6. PICK z \in Frames : z = 0
  BY <1>0
<1>7. PICK g : g = b
  OBVIOUS
<1>8. Rewritten(m, g, z, c, y, d, o)
  BY <1>2, <1>3, <1>4, <1>5, <1>6, <1>7 DEF Rewritten
<1>9. /\ g.open = o
      /\ \A x \in Frames : g.data[x] = IF x = y THEN d ELSE IF x = z THEN c ELSE m.data[x]
  <2>1. FramesOK(m)
    BY <1>2
  <2>2. /\ FramesOK(g) /\ g.status = m.status /\ g.open = o
        /\ \A x \in Frames : g.data[x] = IF x = y THEN d ELSE IF x = z THEN c ELSE m.data[x]
    BY <1>8, <2>1, NewData
  <2>. QED BY <2>2
<1>. QED BY <1>2, <1>4, <1>5, <1>6, <1>7, <1>9 DEF b

LEMMA SwapEmptyPageIs ==
  ASSUME NEW s, FramesOK(s), NEW f \in Frames, NEW y \in Frames, NEW b \in Bytes,
         NEW g, g = SwapEmptyPage(s, f, y, b)
  PROVE  /\ FramesOK(g) /\ g.status = s.status /\ g.open = (s.open \ {f}) \cup {y}
         /\ \A x \in Frames : g.data[x] = IF x = y THEN b ELSE IF x = f THEN s.data[y] ELSE s.data[x]
<1>1. g = [s EXCEPT !.data[f] = s.data[y], !.data[y] = b, !.open = (@ \ {f}) \cup {y}]
  BY DEF SwapEmptyPage
<1>2. PICK o \in SUBSET Frames : o = (s.open \ {f}) \cup {y}
  BY DataAt
<1>3. PICK a \in Bytes : a = s.data[y]
  BY DataAt
<1>4. Rewritten(s, g, f, a, y, b, o)
  BY <1>1, <1>2, <1>3 DEF Rewritten
<1>5. PICK e : e = g
  OBVIOUS
<1>6. /\ FramesOK(e) /\ e.status = s.status /\ e.open = o
      /\ \A x \in Frames : e.data[x] = IF x = y THEN b ELSE IF x = f THEN a ELSE s.data[x]
  <2>1. Rewritten(s, e, f, a, y, b, o)
    BY <1>4, <1>5
  <2>. QED BY <2>1, NewData
<1>. QED BY <1>2, <1>3, <1>5, <1>6

\* Entries that hold t's pages are in use, and so is the frame that a page is
\* numbered after.
LEMMA HeldIsUsed ==
  ASSUME NEW p, TableInv(p), NEW t \in Threads, NEW n, NEW y \in Frames,
         p.table[y].tid = t, p.table[y].page_num = n
  PROVE  p.table[y].inUse = 1 /\ n \in Frames /\ p.table[n].inUse = 1
<1>0. TableOK(p) /\ Filled(p) /\ Numbered(p)
  BY DEF TableInv
<1>1. p.table[y].inUse = 1
  BY <1>0, UsedTids
<1>2. n \in Frames /\ p.table[n].page_num = n
  BY <1>0 DEF Numbered
<1>3. PICK u \in 0 .. Total : UsedUpto(p, u)
  BY <1>0 DEF Filled
<1>4. y < u
  BY <1>3, NobodyAssumption, FrameNumbers DEF UsedUpto, FreeEntry
<1>5. n < u
  <2>1. CASE n = 0
    BY <1>3, <1>4, <2>1, FrameNumbers
  <2>2. CASE n # 0
    BY <1>2, <1>3, <2>2, FrameNumbers DEF UsedUpto, FreeEntry
  <2>. QED BY <2>1, <2>2
<1>. QED BY <1>1, <1>2, <1>3, <1>5 DEF UsedUpto

\* The pages s, which have been got to from r, are t's to use.
Fine(p, r, s, t) == PagesInv(p, s) /\ Tame(p, s, t, {}) /\ Saved(r, s)

\* If the page table tells the truth after a fault that was served, it did so
\* before, and the two pages that were exchanged hold the same.
LEMMA AccessFine ==
  ASSUME NEW p, NEW r, NEW s, NEW t \in Threads, Fine(p, r, s, t), NEW n \in Nat
  PROVE  Fine(p, r, Access(p, s, t, n), t)
<1>. PICK a : a = Access(p, s, t, n)
  OBVIOUS
<1>. SUFFICES Fine(p, r, a, t)
  OBVIOUS
<1>0. PagesInv(p, s) /\ Tame(p, s, t, {}) /\ Saved(r, s) /\ TableInv(p) /\ FramesOK(s)
  BY DEF Fine, PagesInv
<1>1. PagesInv(p, a)
  BY <1>0, AccessKeeps
<1>2. PICK w : w = IF n \in s.open THEN s ELSE SwapPage(p, s, t, n)
  OBVIOUS
<1>3. /\ s.status # "ok" => a = s
      /\ s.status = "ok" /\ w.status # "ok" => a = w
      /\ s.status = "ok" /\ w.status = "ok" /\ n \notin w.open => a = [w EXCEPT !.status = "hang"]
      /\ s.status = "ok" /\ w.status = "ok" /\ n \in w.open =>
           a = IF w.data[n] = <<t, n>> THEN w ELSE [w EXCEPT !.status = "alien"]
  BY <1>2 DEF Access
<1>4. FramesOK(w) /\ Saved(r, w)
  <2>1. CASE n \in s.open
    BY <1>0, <1>2, <2>1
  <2>2. CASE n \notin s.open /\ Holding(p, t, n) = {}
    <3>1. w = [s EXCEPT !.status = "exit"] /\ "exit" \in Statuses
      BY <1>2, <2>2 DEF SwapPage, Statuses
    <3>2. FramesOK(w) /\ w.data = s.data
      BY <1>0, <3>1, NewStatus
    <3>. QED BY <1>0, <3>2, SavedSame, SavedThen
  <2>3. CASE n \notin s.open /\ Holding(p, t, n) # {}
    <3>1. PICK y : y = First(Holding(p, t, n))
      OBVIOUS
    <3>2. w = SwapPage(p, s, t, n)
      BY <1>2, <2>3
    <3>3. /\ y \in Frames /\ n \in Frames /\ FramesOK(w)
          /\ \A x \in Frames : w.data[x] = IF x = n THEN s.data[y] ELSE IF x = y THEN s.data[n] ELSE s.data[x]
      BY <1>0, <2>3, <3>1, <3>2, SwapPageIs
    <3>4. Moved(s, w, y, n)
      BY <3>3 DEF Moved
    <3>5. Saved(s, w)
      BY <3>3, <3>4, SavedMoved
    <3>. QED BY <1>0, <3>3, <3>5, SavedThen
  <2>. QED BY <2>1, <2>2, <2>3
<1>5. Saved(r, a)
  <2>1. a.data = s.data \/ a.data = w.data
    <3>1. \A e \in Statuses : [w EXCEPT !.status = e].data = w.data
      BY <1>4, NewStatus
    <3>2. "hang" \in Statuses /\ "alien" \in Statuses
      BY DEF Statuses
    <3>. QED BY <1>3, <3>1, <3>2
  <2>. QED BY <1>0, <1>4, <2>1 DEF Saved
<1>6. CASE a.status # "ok"
  BY <1>1, <1>5, <1>6 DEF Fine, Tame
<1>7. CASE a.status = "ok"
  <2>1. s.status = "ok" /\ w.status = "ok" /\ n \in w.open /\ w.data[n] = <<t, n>> /\ a = w
    <3>1. \A e \in Statuses : [w EXCEPT !.status = e].status = e
      BY <1>4, NewStatus
    <3>2. "hang" \in Statuses /\ "alien" \in Statuses /\ "ok" # "hang" /\ "ok" # "alien"
      BY DEF Statuses
    <3>. QED BY <1>3, <1>7, <3>1, <3>2
  <2>2. CASE n \in s.open
    BY <1>0, <1>2, <2>1, <2>2 DEF Fine
  <2>3. CASE n \notin s.open
    <3>0. Holding(p, t, n) # {}
      <4>1. ASSUME Holding(p, t, n) = {} PROVE w.status = "exit"
        <5>1. w = [s EXCEPT !.status = "exit"] /\ "exit" \in Statuses
          BY <1>2, <2>3, <4>1 DEF SwapPage, Statuses
        <5>. QED BY <1>0, <5>1, NewStatus
      <4>. QED BY <2>1, <4>1
    <3>1. PICK y : y = First(Holding(p, t, n))
      OBVIOUS
    <3>2. w = SwapPage(p, s, t, n)
      BY <1>2, <2>3
    <3>3. /\ y \in Frames /\ n \in Frames /\ p.table[y].tid = t /\ p.table[y].page_num = n
          /\ w.open = (s.open \cup {n}) \ {y}
          /\ \A x \in Frames : w.data[x] = IF x = n THEN s.data[y] ELSE IF x = y THEN s.data[n] ELSE s.data[x]
      BY <1>0, <3>0, <3>1, <3>2, SwapPageIs
    <3>4. y # n /\ p.table[y].inUse = 1 /\ p.table[n].inUse = 1
      <4>1. y # n
        BY <2>1, <3>3
      <4>2. p.table[y].inUse = 1 /\ p.table[n].inUse = 1
        BY <1>0, <3>3, HeldIsUsed
      <4>. QED BY <4>1, <4>2
    <3>5. /\ \A x \in Frames : p.table[x].inUse = 0 => s.data[x] = Blank
          /\ (\A x \in Frames : Told(p, s, x)) => OpenTo(p, s, t)
      BY <1>0, <2>1 DEF Tame
    <3>6. \A x \in Frames : p.table[x].inUse = 0 => w.data[x] = Blank
      BY <3>3, <3>4, <3>5
    <3>7. ASSUME \A x \in Frames : Told(p, w, x) PROVE OpenTo(p, w, t)
      <4>1. w.data[y] = <<t, n>> /\ <<p.table[n].tid, p.table[n].page_num>> = <<t, n>>
        BY <2>1, <3>3, <3>4, <3>7 DEF Told
      <4>2. \A x \in Frames : w.data[x] = s.data[x]
        BY <2>1, <3>3, <3>4, <4>1
      <4>3. OpenTo(p, s, t)
        BY <3>5, <3>7, <4>2 DEF Told
      <4>4. p.table[n].tid = t
        BY <4>1
      <4>. QED BY <3>3, <4>3, <4>4 DEF OpenTo
    <3>8. Tame(p, w, t, {})
      BY <3>6, <3>7 DEF Tame
    <3>. QED BY <1>1, <1>5, <2>1, <3>8 DEF Fine
  <2>. QED BY <2>2, <2>3
<1>. QED BY <1>6, <1>7

\* What every access keeps, all of them do.
LEMMA AccessPagesFine ==
  ASSUME NEW p, NEW r, NEW s, NEW t \in Threads, Fine(p, r, s, t), NEW ps, Len(ps) \in Nat,
         \A k \in 1 .. Len(ps) : ps[k] \in Nat
  PROVE  Fine(p, r, AccessPages(p, s, t, ps), t)
<1>. PICK N \in Nat : N = Len(ps)
  OBVIOUS
<1>0. PICK g : Steps(p, s, t, ps, N, g)
  BY AccessPagesIs
<1>1. /\ AccessPages(p, s, t, ps) = g[N]
      /\ g[0] = s
      /\ \A k \in 1 .. N : g[k] = Access(p, g[k - 1], t, ps[k])
  BY <1>0 DEF Steps
<1>. DEFINE S == {k \in 0 .. N : ~ Fine(p, r, g[k], t)}
<1>2. ASSUME NEW k \in 1 .. N, Fine(p, r, g[k - 1], t) PROVE Fine(p, r, g[k], t)
  BY <1>1, <1>2, AccessFine
<1>3. S = {}
  <2>. SUFFICES ASSUME S # {} PROVE FALSE
    OBVIOUS
  <2>1. S \in SUBSET Nat
    OBVIOUS
  <2>2. PICK m \in S : \A j \in S : m <= j
    BY <2>1, LeastNat
  <2>3. m # 0
    BY <1>1
  <2>4. m \in 1 .. N /\ m - 1 \in 0 .. N /\ m - 1 \notin S
    BY <2>2, <2>3
  <2>. QED BY <1>2, <2>2, <2>4
<1>4. N \in 0 .. N
  OBVIOUS
<1>. QED BY <1>1, <1>3, <1>4

LEMMA HeadersFine ==
  ASSUME NEW p, NEW r, NEW s, NEW t \in Threads, Fine(p, r, s, t), NEW h \in Seq(Block),
         NEW is, Len(is) \in Nat, \A k \in 1 .. Len(is) : is[k] \in 1 .. Len(h)
  PROVE  Fine(p, r, AccessHeaders(p, s, t, h, is), t)
<1>1. PICK ps : ps = [k \in 1 .. Len(is) |-> PageOf(h[is[k]].at)]
  OBVIOUS
<1>2. Len(ps) = Len(is) /\ \A k \in 1 .. Len(is) : ps[k] = PageOf(h[is[k]].at)
  BY <1>1
<1>3. \A k \in 1 .. Len(is) : PageOf(h[is[k]].at) \in Nat
  BY BlockAt, Pages
<1>4. AccessHeaders(p, s, t, h, is) = AccessPages(p, s, t, ps)
  BY <1>1 DEF AccessHeaders
<1>. QED BY <1>2, <1>3, <1>4, AccessPagesFine

LEMMA UptoFine ==
  ASSUME NEW p, NEW r, NEW s, NEW t \in Threads, Fine(p, r, s, t), NEW h \in Seq(Block), NEW i \in 1 .. Len(h)
  PROVE  Fine(p, r, AccessHeaders(p, s, t, h, Upto(i)), t)
<1>0. Len(h) \in Nat /\ i \in Nat \ {0}
  BY LenProperties
<1>1. PICK is : is = Upto(i)
  OBVIOUS
<1>2. Len(is) = i /\ \A k \in 1 .. i : is[k] = k
  BY <1>0, <1>1 DEF Upto
<1>3. Len(is) \in Nat /\ \A k \in 1 .. Len(is) : is[k] \in 1 .. Len(h)
  BY <1>0, <1>2
<1>. QED BY <1>1, <1>3, HeadersFine

LEMMA NeighboursFine ==
  ASSUME NEW p, NEW r, NEW s, NEW t \in Threads, Fine(p, r, s, t), NEW h, Chain(h), NEW i \in 1 .. Len(h)
  PROVE  Fine(p, r, AccessHeaders(p, s, t, h, Neighbours(h, i)), t)
<1>0. h \in Seq(Block) /\ Len(h) \in Nat \ {0}
  BY ChainLength
<1>1. PICK is : is = Neighbours(h, i)
  OBVIOUS
<1>2. is = <<>> \/ (i < Len(h) /\ is = <<i + 1>>) \/ (i + 1 < Len(h) /\ is = <<i + 1, i + 2>>)
  BY <1>0, <1>1 DEF Neighbours
<1>3. Len(is) \in Nat /\ \A k \in 1 .. Len(is) : is[k] \in 1 .. Len(h)
  <2>1. CASE is = <<>>
    BY <2>1
  <2>2. CASE i < Len(h) /\ is = <<i + 1>>
    <3>1. Len(is) = 1 /\ is[1] = i + 1 /\ i + 1 \in 1 .. Len(h)
      BY <1>0, <2>2
    <3>. QED BY <3>1
  <2>3. CASE i + 1 < Len(h) /\ is = <<i + 1, i + 2>>
    <3>1. Len(is) = 2 /\ is[1] = i + 1 /\ is[2] = i + 2 /\ i + 1 \in 1 .. Len(h) /\ i + 2 \in 1 .. Len(h)
      BY <1>0, <2>3
    <3>. QED BY <3>1
  <2>. QED BY <1>2, <2>1, <2>2, <2>3
<1>. QED BY <1>0, <1>1, <1>3, HeadersFine

LEMMA TakeBytesFine ==
  ASSUME NEW p, NEW r, NEW s, NEW t \in Threads, Fine(p, r, s, t), NEW h, NEW g, Chain(g), NEW i,
         Len(g) > Len(h) => i + 1 \in 1 .. Len(g)
  PROVE  Fine(p, r, TakeBytes(p, s, t, h, g, i), t)
<1>1. CASE Len(g) > Len(h)
  <2>1. PICK n \in Nat : n = PageOf(g[i + 1].at)
    BY <1>1, ChainLength, BlockAt, Pages
  <2>2. TakeBytes(p, s, t, h, g, i) = Access(p, s, t, n)
    BY <1>1, <2>1 DEF TakeBytes
  <2>. QED BY <2>2, AccessFine
<1>2. CASE ~ (Len(g) > Len(h))
  BY <1>2 DEF TakeBytes
<1>. QED BY <1>1, <1>2

-----------------------------------------------------------------------------
(***************************************************************************)
(* What moves entries along with the bytes                                 *)
(***************************************************************************)

\* Entries and bytes of the frames 0 and y are exchanged: what is told is told.
LEMMA MoveHeadFine ==
  ASSUME NEW p, NEW s, PagesInv(p, s), NEW t \in Threads, Tame(p, s, t, {}), s.status = "ok",
         NEW y \in HeadFrames(p, t), NEW q, q = MoveHead(p, y), PagesInv(q, s),
         NEW b, b = MoveHeadBytes(q, s, t, y)
  PROVE  Tame(q, b, t, {}) /\ Saved(s, b)
<1>0. /\ TableInv(p) /\ TableOK(p) /\ FramesOK(s) /\ TableInv(q) /\ Numbered(q)
      /\ y \in Frames /\ 0 \in Frames /\ p.table[y].tid = t /\ p.table[y].page_num = 0
  BY FrameNumbers DEF HeadFrames, Holding, PagesInv, TableInv
<1>1. \A z \in Frames : q.table[z] = IF z = y THEN p.table[0] ELSE IF z = 0 THEN p.table[y] ELSE p.table[z]
  BY <1>0, MoveHeadIs
<1>2. p.table[y].inUse = 1 /\ p.table[0].inUse = 1
  BY <1>0, HeldIsUsed
<1>3. /\ \A x \in Frames : p.table[x].inUse = 0 => s.data[x] = Blank
      /\ (\A x \in Frames : Told(p, s, x)) => OpenTo(p, s, t)
  BY DEF Tame
<1>4. CASE y = 0
  <2>1. b = s
    BY <1>4 DEF MoveHeadBytes
  <2>2. \A z \in Frames : q.table[z] = p.table[z]
    BY <1>1, <1>4
  <2>3. Memory \subseteq Frames
    BY FrameNumbers
  <2>. QED BY <1>3, <2>1, <2>2, <2>3, SavedSame DEF Tame, Told, OpenTo
<1>5. CASE y # 0 /\ y \in s.open
  <2>4. PICK o : o = (s.open \cup {0}) \ {y}
    OBVIOUS
  <2>7. PICK g : g = b
    OBVIOUS
  <2>8. /\ g.open = o
        /\ \A x \in Frames : g.data[x] = IF x = y THEN s.data[0] ELSE IF x = 0 THEN s.data[y] ELSE s.data[x]
    BY <1>0, <1>5, <2>4, <2>7, MoveHeadBytesIs
  <2>9. Saved(s, g)
    <3>1. Moved(s, g, 0, y)
      BY <1>0, <1>5, <2>8 DEF Moved
    <3>. QED BY <1>0, <3>1, SavedMoved
  <2>10. \A x \in Frames : q.table[x].inUse = 0 => g.data[x] = Blank
    BY <1>0, <1>1, <1>2, <1>3, <2>8
  <2>11. ASSUME \A x \in Frames : Told(q, g, x) PROVE OpenTo(q, g, t)
    <3>1. ASSUME NEW x \in Frames PROVE Told(p, s, x)
      <4>1. CASE x = 0
        <5>1. g.data[y] = s.data[0] /\ q.table[y] = p.table[0] /\ Told(q, g, y)
          BY <1>0, <1>1, <2>8, <2>11
        <5>. QED BY <4>1, <5>1 DEF Told
      <4>2. CASE x = y
        <5>1. g.data[0] = s.data[y] /\ q.table[0] = p.table[y] /\ Told(q, g, 0)
          BY <1>0, <1>1, <1>5, <2>8, <2>11
        <5>. QED BY <4>2, <5>1 DEF Told
      <4>3. CASE x # 0 /\ x # y
        BY <1>1, <2>8, <2>11, <4>3 DEF Told
      <4>. QED BY <4>1, <4>2, <4>3
    <3>2. OpenTo(p, s, t)
      BY <1>3, <3>1
    <3>3. ASSUME NEW x \in g.open \cap Memory, q.table[x].inUse = 1 PROVE q.table[x].tid = t
      <4>0. x \in Frames /\ x # y
        BY <2>4, <2>8, FrameNumbers
      <4>1. CASE x = 0
        BY <1>0, <1>1, <1>5, <4>1
      <4>2. CASE x # 0
        BY <1>1, <2>4, <2>8, <3>2, <3>3, <4>0, <4>2 DEF OpenTo
      <4>. QED BY <4>1, <4>2
    <3>. QED BY <3>3 DEF OpenTo
  <2>. QED BY <2>7, <2>9, <2>10, <2>11 DEF Tame
<1>6. CASE y # 0 /\ y \notin s.open
  <2>1. PICK m : m = [s EXCEPT !.open = @ \cup {0}]
    OBVIOUS
  <2>2. m.data = s.data /\ FramesOK(m)
    BY <1>0, <2>1 DEF FramesOK
  <2>3. Holding(q, t, y) = {}
    <3>1. q.table[y].page_num = 0
      BY <1>0, <1>1 DEF TableInv, Numbered
    <3>. QED BY <1>0, <1>6, <3>1 DEF Numbered, Holding
  <2>4. PICK e : e = SwapPage(q, m, t, y)
    OBVIOUS
  <2>5. e = [m EXCEPT !.status = "exit"] /\ "exit" \in Statuses
    BY <2>3, <2>4 DEF SwapPage, Statuses
  <2>6. e.status = "exit" /\ e.data = s.data
    BY <2>2, <2>5, NewStatus
  <2>7. b = e
    BY <1>6, <2>1, <2>4, <2>6 DEF MoveHeadBytes
  <2>. QED BY <2>6, <2>7, SavedSame DEF Tame
<1>. QED BY <1>4, <1>5, <1>6

LEMMA FreeFrame ==
  ASSUME NEW p, TableInv(p), Unused(p) # {}, NEW f, f = First(Unused(p))
  PROVE  f \in Frames /\ p.table[f].inUse = 0 /\ (f # 0 => p.table[0].inUse = 1)
<1>1. PICK u \in 0 .. Total : UsedUpto(p, u)
  BY DEF TableInv, Filled
<1>2. f = u /\ u \in Frames
  BY <1>1, UnusedIs
<1>3. p.table[f] = FreeEntry
  BY <1>1, <1>2, FrameNumbers DEF UsedUpto
<1>4. f # 0 => 0 < u /\ 0 \in Frames
  BY <1>2, FrameNumbers
<1>. QED BY <1>1, <1>2, <1>3, <1>4 DEF UsedUpto, FreeEntry

\* What frame y held is in frame f, which was empty, and y is t's.
LEMMA NewPageFine ==
  ASSUME NEW p, NEW s, FramesOK(s), NEW t \in Threads, NEW n \in Nat, NEW F \in SUBSET Frames,
         Tame(p, s, t, F), s.status = "ok",
         NEW f \in Frames, NEW y \in Frames, s.data[f] = Blank,
         F \subseteq {f}, f \notin F => p.table[f].inUse = 0, f # y => p.table[y].inUse = 1,
         NEW q, \A x \in Frames : q.table[x] = IF x = y THEN Entry(t, n) ELSE IF x = f THEN p.table[y] ELSE p.table[x],
         NEW b, b = SwapEmptyPage(s, f, y, <<t, n>>)
  PROVE  Tame(q, b, t, {}) /\ Saved(s, b)
<1>0. Entry(t, n).tid = t /\ Entry(t, n).page_num = n /\ Entry(t, n).inUse = 1 /\ <<t, n>> \in Bytes
  BY EntryIs DEF Bytes
<1>1. PICK v \in Bytes : v = <<t, n>>
  BY <1>0
<1>2. b = SwapEmptyPage(s, f, y, v)
  BY <1>1
<1>3. PICK g : g = b
  OBVIOUS
<1>4. /\ FramesOK(g) /\ g.status = s.status /\ g.open = (s.open \ {f}) \cup {y}
      /\ \A x \in Frames : g.data[x] = IF x = y THEN v ELSE IF x = f THEN s.data[y] ELSE s.data[x]
  BY <1>2, <1>3, SwapEmptyPageIs, SMTT(30)
<1>5. /\ \A x \in Frames : p.table[x].inUse = 0 \/ x \in F => s.data[x] = Blank
      /\ (\A x \in Frames \ F : Told(p, s, x)) => OpenTo(p, s, t)
  BY DEF Tame
<1>6. Saved(s, g)
  <2>1. Moved(s, g, y, f)
    BY <1>4 DEF Moved
  <2>. QED BY <2>1, SavedMoved
<1>7. \A x \in Frames : q.table[x].inUse = 0 => g.data[x] = Blank
  BY <1>0, <1>4, <1>5
<1>8. ASSUME \A x \in Frames : Told(q, g, x) PROVE OpenTo(q, g, t)
  <2>1. ASSUME NEW x \in Frames \ F PROVE Told(p, s, x)
    <3>1. CASE x = f
      <4>1. p.table[f].inUse = 0
        BY <3>1
      <4>. QED BY <3>1, <4>1 DEF Told
    <3>2. CASE x # f /\ x = y
      <4>1. g.data[f] = s.data[y] /\ q.table[f] = p.table[y] /\ Told(q, g, f)
        BY <1>4, <1>8, <3>2
      <4>. QED BY <3>2, <4>1 DEF Told
    <3>3. CASE x # f /\ x # y
      BY <1>4, <1>8, <3>3 DEF Told
    <3>. QED BY <3>1, <3>2, <3>3
  <2>2. OpenTo(p, s, t)
    BY <1>5, <2>1
  <2>3. ASSUME NEW x \in g.open \cap Memory, q.table[x].inUse = 1 PROVE q.table[x].tid = t
    <3>0. x \in Frames
      BY FrameNumbers
    <3>1. CASE x = y
      BY <1>0, <3>0, <3>1
    <3>2. CASE x # y
      <4>1. x # f /\ x \in s.open
        BY <1>4, <3>2
      <4>2. q.table[x] = p.table[x]
        BY <3>0, <3>2, <4>1
      <4>. QED BY <2>2, <2>3, <4>1, <4>2 DEF OpenTo
    <3>. QED BY <3>1, <3>2
  <2>. QED BY <2>3 DEF OpenTo
<1>9. Tame(q, g, t, {})
  BY <1>7, <1>8 DEF Tame
<1>. QED BY <1>3, <1>6, <1>9

\* requestPage() gives t an empty frame to use.
LEMMA RequestFine ==
  ASSUME NEW p, NEW s, FramesOK(s), NEW t \in Threads, Tame(p, s, t, {}), s.status = "ok",
         NEW f \in Frames, p.table[f].inUse = 0,
         NEW q, q.table[f] = Entry(t, 0), \A x \in Frames \ {f} : q.table[x] = p.table[x],
         NEW g, g.data = s.data, g.open = s.open \cup {f}
  PROVE  Tame(q, g, t, {f}) /\ Saved(s, g)
<1>0. Entry(t, 0).tid = t /\ Entry(t, 0).inUse = 1
  BY DEF Entry
<1>1. /\ \A x \in Frames : p.table[x].inUse = 0 => s.data[x] = Blank
      /\ (\A x \in Frames : Told(p, s, x)) => OpenTo(p, s, t)
  BY DEF Tame
<1>2. \A x \in Frames : q.table[x].inUse = 0 \/ x \in {f} => g.data[x] = Blank
  BY <1>0, <1>1
<1>3. ASSUME \A x \in Frames \ {f} : Told(q, g, x) PROVE OpenTo(q, g, t)
  <2>1. ASSUME NEW x \in Frames PROVE Told(p, s, x)
    <3>1. CASE x = f
      BY <1>1, <3>1 DEF Told
    <3>2. CASE x # f
      BY <1>3, <3>2 DEF Told
    <3>. QED BY <3>1, <3>2
  <2>2. OpenTo(p, s, t)
    BY <1>1, <2>1
  <2>3. ASSUME NEW x \in g.open \cap Memory, q.table[x].inUse = 1 PROVE q.table[x].tid = t
    <3>0. x \in Frames
      BY FrameNumbers
    <3>1. CASE x = f
      BY <1>0, <3>1
    <3>2. CASE x # f
      BY <2>2, <2>3, <3>0, <3>2 DEF OpenTo
    <3>. QED BY <3>1, <3>2
  <2>. QED BY <2>3 DEF OpenTo
<1>. QED BY <1>2, <1>3, SavedSame DEF Tame

LEMMA HeadFine ==
  ASSUME AllocInv, NEW t \in Threads, ~ NoHead(t), Tame(pt, fr, t, {}), fr.status = "ok"
  PROVE  Fine(HeadTable(t), fr, HeadBytes(t), t)
<1>. PICK q : q = HeadTable(t)
  OBVIOUS
<1>. PICK b : b = HeadBytes(t)
  OBVIOUS
<1>0. PagesInv(pt, fr) /\ TableInv(pt) /\ TableOK(pt) /\ FramesOK(fr) /\ 0 \in Frames /\ 0 \in Nat
  BY FrameNumbers DEF AllocInv, PagesInv, TableInv
<1>1. PagesInv(q, b)
  BY HeadKeeps
<1>2. CASE HasHead(t)
  <2>1. PICK y : y = First(HeadFrames(pt, t))
    OBVIOUS
  <2>2. y \in HeadFrames(pt, t)
    <3>1. HeadFrames(pt, t) # {} /\ HeadFrames(pt, t) \in SUBSET Frames
      BY <1>2, FrameNumbers DEF HasHead, HeadFrames
    <3>. QED BY <2>1, <3>1, LeastFrame
  <2>3. q = MoveHead(pt, y) /\ b = MoveHeadBytes(q, fr, t, y)
    BY <1>2, <2>1 DEF HeadTable, HeadBytes
  <2>4. PagesInv(q, fr)
    <3>1. TableInv(MoveHead(pt, y)) /\ Kept(pt, MoveHead(pt, y)) /\ Settled(pt, MoveHead(pt, y))
      BY <1>0, <2>2, MoveHeadKeeps
    <3>. QED BY <1>0, <2>3, <3>1, DataFollows DEF PagesInv
  <2>5. Tame(q, b, t, {}) /\ Saved(fr, b)
    BY <1>0, <2>2, <2>3, <2>4, MoveHeadFine
  <2>. QED BY <1>1, <2>5 DEF Fine
<1>3. CASE ~ HasHead(t)
  <2>1. PICK f : f = First(Unused(pt))
    OBVIOUS
  <2>2. q = NewHead(pt, t, f) /\ b = SwapEmptyPage(fr, f, 0, <<t, 0>>) /\ Unused(pt) # {}
    BY <1>3, <2>1 DEF HeadTable, HeadBytes, NoHead
  <2>3. f \in Frames /\ pt.table[f].inUse = 0 /\ (f # 0 => pt.table[0].inUse = 1)
    BY <1>0, <2>1, <2>2, FreeFrame
  <2>4. \A x \in Frames : q.table[x] = IF x = 0 THEN Entry(t, 0) ELSE IF x = f THEN pt.table[0] ELSE pt.table[x]
    BY <1>0, <2>2, <2>3, NewHeadIs
  <2>5. fr.data[f] = Blank
    BY <2>3 DEF Tame
  <2>6. Tame(q, b, t, {}) /\ Saved(fr, b)
    <3>1. PICK y \in Frames, n \in Nat : y = 0 /\ n = 0
      BY <1>0
    <3>2. /\ \A x \in Frames : q.table[x] = IF x = y THEN Entry(t, n) ELSE IF x = f THEN pt.table[y] ELSE pt.table[x]
          /\ b = SwapEmptyPage(fr, f, y, <<t, n>>) /\ (f # y => pt.table[y].inUse = 1)
      BY <2>2, <2>3, <2>4, <3>1
    <3>3. PICK F \in SUBSET Frames : F = {}
      OBVIOUS
    <3>4. F \subseteq {f} /\ Tame(pt, fr, t, F)
      BY <3>3
    <3>. QED BY <1>0, <2>3, <2>5, <3>2, <3>4, NewPageFine
  <2>. QED BY <1>1, <2>6 DEF Fine
<1>. QED BY <1>2, <1>3

-----------------------------------------------------------------------------
(***************************************************************************)
(* The invariant                                                           *)
(***************************************************************************)

\* The frame that the request r has found and not used yet.
Got(r) == {r.page} \ {NULL}

Calm ==
  /\ Tame(pt, fr, current_tid, Got(pending[current_tid]))
  /\ \A t \in Threads : pending[t].page # NULL => fr.status = "ok"

IsolationInv == AllocInv /\ Calm

LEMMA NothingGot == NoRequest.page = NULL /\ Got(NoRequest) = {}
BY DEF NoRequest, Got

LEMMA RunningTame ==
  ASSUME IsolationInv, NEW t \in Threads, Running(t)
  PROVE  /\ current_tid = t /\ fr.status = "ok" /\ Tame(pt, fr, t, {})
         /\ \A u \in Threads : pending[u] = NoRequest
BY RunningAlone, NothingGot DEF IsolationInv, Calm, Running

LEMMA CalmNew ==
  ASSUME current_tid' \in Threads, Tame(pt', fr', current_tid', {}),
         \A t \in Threads : pending'[t].page = NULL
  PROVE  Calm'
BY DEF Calm, Got

LEMMA StatusFine ==
  ASSUME NEW p, NEW r, NEW s, NEW t, Fine(p, r, s, t), NEW e \in Statuses, e = s.status \/ e # "ok",
         NEW g, g = [s EXCEPT !.status = e]
  PROVE  Fine(p, r, g, t)
<1>1. FramesOK(g) /\ g.data = s.data /\ g.open = s.open /\ g.status = e
  BY NewStatus DEF Fine, PagesInv
<1>2. PagesInv(p, g)
  BY StatusKeeps DEF Fine
<1>3. Saved(r, g)
  BY <1>1 DEF Fine, Saved
<1>4. Tame(p, g, t, {})
  BY <1>1 DEF Fine, Tame, Told, OpenTo
<1>. QED BY <1>2, <1>3, <1>4 DEF Fine

LEMMA FineNow ==
  ASSUME IsolationInv, NEW t \in Threads, Running(t)
  PROVE  Fine(pt, fr, fr, t)
<1>1. Tame(pt, fr, t, {}) /\ PagesInv(pt, fr)
  BY RunningTame DEF IsolationInv, AllocInv
<1>. QED BY <1>1, SavedSame DEF Fine

LEMMA MallocFine ==
  ASSUME IsolationInv, NEW t \in Threads, NEW size \in Sizes, Malloc(t, size)
  PROVE  Calm' /\ Saved(fr, fr')
<1>. DEFINE q == HeadTable(t)
            b == HeadBytes(t)
<1>0. /\ Running(t) /\ ~ NoHead(t) /\ pt' = q /\ current_tid' = t /\ AllocInv
      /\ size \in Nat \ {0}
  BY SizesAssumption DEF Malloc, Running, IsolationInv
<1>1. /\ fr.status = "ok" /\ Tame(pt, fr, t, {})
      /\ \A u \in Threads : pending[u] = NoRequest
  BY <1>0, RunningTame
<1>2. PICK h : h = HeadChain(t)
  OBVIOUS
<1>3. Fine(q, fr, b, t) /\ Chain(h)
  BY <1>0, <1>1, <1>2, HeadFine, HeadKeeps
<1>4. PICK i : i = Found(h, size)
  OBVIOUS
<1>5. i = Len(h) /\ i \in 1 .. Len(h) /\ h \in Seq(Block)
  BY <1>3, <1>4, FoundIs, ChainLength
<1>6. PICK s : s = AccessHeaders(q, b, t, h, Upto(i))
  OBVIOUS
<1>7. PICK g : g = Take(h, i, size, written[t])
  OBVIOUS
<1>8. /\ s.status = "ok" /\ Free(h[i]) /\ h[i].size >= size =>
           fr' = TakeBytes(q, s, t, h, g, i) /\ pending' = pending
      /\ ~ (s.status = "ok" /\ Free(h[i]) /\ h[i].size >= size) =>
           /\ fr' = s
           /\ \/ pending' = pending
              \/ pending' = [pending EXCEPT ![t] = [NoRequest EXCEPT !.size = size, !.curr = i]]
  BY <1>2, <1>4, <1>6, <1>7 DEF Malloc
<1>. HIDE DEF q, b
<1>9. Fine(q, fr, s, t)
  BY <1>3, <1>5, <1>6, UptoFine
<1>10. Fine(q, fr, fr', t)
  <2>1. CASE s.status = "ok" /\ Free(h[i]) /\ h[i].size >= size
    <3>1. Chain(g) /\ (Len(g) > Len(h) => i + 1 \in 1 .. Len(g))
      BY <1>0, <1>3, <1>5, <1>7, <2>1, TakeKeeps
    <3>. QED BY <1>8, <1>9, <2>1, <3>1, TakeBytesFine
  <2>2. CASE ~ (s.status = "ok" /\ Free(h[i]) /\ h[i].size >= size)
    BY <1>8, <1>9, <2>2
  <2>. QED BY <2>1, <2>2
<1>11. \A u \in Threads : pending'[u].page = NULL
  <2>1. CASE pending' = pending
    BY <1>1, <2>1, NothingGot
  <2>2. CASE pending' = [pending EXCEPT ![t] = [NoRequest EXCEPT !.size = size, !.curr = i]]
    <3>1. PICK r : r = [NoRequest EXCEPT !.size = size, !.curr = i]
      OBVIOUS
    <3>2. r.page = NULL
      BY <3>1 DEF NoRequest
    <3>3. pending' = [pending EXCEPT ![t] = r]
      BY <2>2, <3>1
    <3>4. pending \in [Threads -> Requests]
      BY <1>0 DEF AllocInv
    <3>5. \A u \in Threads : pending'[u] = r \/ pending'[u] = pending[u]
      BY <3>3, <3>4
    <3>. QED BY <1>1, <3>2, <3>5, NothingGot
  <2>. QED BY <1>8, <2>1, <2>2
<1>. QED BY <1>0, <1>10, <1>11, CalmNew DEF Fine

LEMMA GetPageFine ==
  ASSUME IsolationInv, NEW t \in Threads, GetPage(t)
  PROVE  Calm' /\ Saved(fr, fr')
<1>. PICK f : f = First(Unused(pt))
  OBVIOUS
<1>0. /\ current_tid' = current_tid /\ current_tid = t /\ fr.status = "ok"
      /\ pending[t].page = NULL /\ Unused(pt) # {}
      /\ pt' = RequestPage(pt, t, f) /\ fr' = [fr EXCEPT !.open = @ \cup {f}]
      /\ pending' = [pending EXCEPT ![t].page = f, ![t].n = @ + 1]
  BY DEF GetPage, Getting
<1>1. TableInv(pt) /\ FramesOK(fr) /\ pending \in [Threads -> Requests]
  BY DEF IsolationInv, AllocInv, PagesInv
<1>2. Tame(pt, fr, t, {})
  BY <1>0 DEF IsolationInv, Calm, Got
<1>3. /\ f \in Frames
      /\ pt'.table[f] = Entry(t, 0)
      /\ \A z \in Frames \ {f} : pt'.table[z] = pt.table[z]
  BY <1>0, <1>1, RequestPageKeeps
<1>4. pt.table[f].inUse = 0
  BY <1>0, <1>1, FreeFrame
<1>5. fr'.data = fr.data /\ fr'.open = fr.open \cup {f} /\ fr'.status = fr.status
  BY <1>0, <1>1 DEF FramesOK
<1>6. PICK q, g : q = pt' /\ g = fr'
  OBVIOUS
<1>7. Tame(q, g, t, {f}) /\ Saved(fr, g)
  <2>1. PICK p, s : p = pt /\ s = fr
    OBVIOUS
  <2>2. FramesOK(s) /\ Tame(p, s, t, {}) /\ s.status = "ok"
    BY <1>0, <1>1, <1>2, <2>1
  <2>3. f \in Frames /\ p.table[f].inUse = 0
    BY <1>3, <1>4, <2>1
  <2>4. q.table[f] = Entry(t, 0) /\ \A x \in Frames \ {f} : q.table[x] = p.table[x]
    BY <1>3, <1>6, <2>1
  <2>5. g.data = s.data /\ g.open = s.open \cup {f}
    BY <1>5, <1>6, <2>1
  <2>6. Tame(q, g, t, {f}) /\ Saved(s, g)
    BY <2>2, <2>3, <2>4, <2>5, RequestFine
  <2>. QED BY <2>1, <2>6
<1>8. pending'[t].page = f
  <2>. DEFINE some == [pending EXCEPT ![t].page = f]
  <2>1. some[t].page = f /\ DOMAIN some = Threads
    BY <1>1 DEF Requests
  <2>2. pending' = [some EXCEPT ![t] = [some[t] EXCEPT !.n = some[t].n + 1]]
    BY <1>0, <1>1
  <2>3. pending'[t] = [some[t] EXCEPT !.n = some[t].n + 1]
    <3>. HIDE DEF some
    <3>. QED BY <2>1, <2>2
  <2>. HIDE DEF some
  <2>. QED BY <2>1, <2>3
<1>9. Got(pending'[t]) = {f}
  BY <1>3, <1>8, NullAssumption, FrameNumbers DEF Got
<1>. QED BY <1>0, <1>5, <1>6, <1>7, <1>9 DEF Calm

LEMMA NoPageFine ==
  ASSUME IsolationInv, NEW t \in Threads, NoPage(t)
  PROVE  Calm' /\ Saved(fr, fr')
<1>0. /\ current_tid' = current_tid /\ pt' = pt /\ fr' = fr /\ current_tid = t
      /\ pending' = [pending EXCEPT ![t] = NoRequest] /\ pending[t].page = NULL /\ fr.status = "ok"
  BY DEF NoPage, Getting
<1>1. pending \in [Threads -> Requests]
  BY DEF IsolationInv, AllocInv
<1>2. Tame(pt, fr, t, {})
  BY <1>0 DEF IsolationInv, Calm, Got
<1>3. Got(pending'[t]) = {}
  BY <1>0, <1>1, NothingGot
<1>. QED BY <1>0, <1>2, <1>3, SavedSame DEF Calm

LEMMA UsePageFine ==
  ASSUME IsolationInv, NEW t \in Threads, UsePage(t)
  PROVE  Calm' /\ Saved(fr, fr')
<1>1. /\ Getting(t) /\ fr.status = "ok" /\ pending[t].page # NULL /\ current_tid' = current_tid /\ AllocInv
  BY DEF UsePage, Getting, IsolationInv
<1>2. /\ ChainsInv(pt, heap) /\ PagesInv(pt, fr) /\ FramesOK(fr)
      /\ pending \in [Threads -> Requests] /\ TableInv(pt) /\ TableOK(pt)
  BY <1>1 DEF AllocInv, PagesInv, TableInv
<1>3. PICK r : r = pending[t]
  OBVIOUS
<1>4. PICK old : old = heap[t]
  OBVIOUS
<1>5. PICK at \in Nat : at = PageOf(old[r.curr].at)
  BY <1>1, <1>3, <1>4, Request
<1>6. /\ current_tid = t /\ r \in Requests /\ Asked(pt, t, old, r)
      /\ \A u \in Threads : u # t => pending[u] = NoRequest
      /\ Chain(old)
      /\ r.size \in Nat \ {0} /\ r.curr \in Nat /\ r.n \in Nat
  BY <1>1, <1>3, <1>4, Request
<1>7. PICK h : h = Extended(old, r.curr, r.n)
  OBVIOUS
<1>8. PICK j : j = IF Free(old[r.curr]) THEN r.curr ELSE r.curr + 1
  OBVIOUS
<1>9. PICK next \in Nat : next = at + r.n
  BY <1>6
<1>10. PICK f \in Frames : f = r.page
  BY <1>1, <1>3, <1>6 DEF Asked, PageFound
<1>11. /\ r.n >= 1 /\ Known(pt, t, next - 1) /\ next <= f /\ pt.table[f] = Entry(t, 0)
       /\ pt.table[0].tid = t /\ r.curr \in 1 .. Len(old)
       /\ ~ Free(old[r.curr]) => IF r.n = 1 THEN r.curr = Len(old)
                                 ELSE r.curr = Len(old) - 1 /\ Free(old[Len(old)])
  <2>1. PageFound(pt, t, at, r) /\ pt.table[0].tid = t /\ r.curr \in 1 .. Len(old)
    BY <1>1, <1>3, <1>5, <1>6 DEF Asked
  <2>2. /\ r.n >= 1 /\ Known(pt, t, next - 1) /\ next <= f /\ pt.table[f] = Entry(t, 0)
    <3>1. /\ r.n >= 1 /\ Known(pt, t, at + (r.n - 1)) /\ at + r.n <= r.page
          /\ pt.table[r.page] = Entry(t, 0)
      BY <2>1, Zenon DEF PageFound
    <3>2. Known(pt, t, next - 1)
      <4>1. at + (r.n - 1) = next - 1
        BY <1>6, <1>9
      <4>. QED BY <3>1, <4>1
    <3>. QED BY <1>9, <1>10, <3>1, <3>2
  <2>. QED BY <1>1, <1>3, <1>6, <2>1, <2>2 DEF Asked
<1>12. next \in Nat \ {0} /\ f \in Frames \ {0} /\ r.n \in Nat \ {0}
  BY <1>6, <1>9, <1>11, FrameNumbers
<1>13. /\ pt' = TakeNext(pt, t, f, next)
       /\ next \in Frames /\ NextNumber(pt, next) = next
       /\ TableInv(pt') /\ Kept(pt, pt') /\ Settled(pt, pt')
       /\ pt'.table[0] = pt.table[0] /\ Known(pt', t, next)
  <2>1. pt' = TakeNext(pt, t, f, next)
    BY <1>3, <1>4, <1>5, <1>9, <1>10 DEF UsePage
  <2>. QED BY <1>2, <1>11, <1>12, <2>1, TakeNextKeeps
<1>14. PICK moved : moved = SwapEmptyPage(fr, f, next, <<t, next>>)
  OBVIOUS
<1>15. PICK s : s = AccessHeaders(pt', moved, t, h, <<r.curr, j>>)
  OBVIOUS
<1>16. PICK g : g = Take(h, j, r.size, written[t])
  OBVIOUS
<1>17. /\ r.size > h[j].size =>
            /\ fr' = s
            /\ pending' = [pending EXCEPT ![t] = Again(r)]
       /\ ~ (r.size > h[j].size) =>
            /\ fr' = TakeBytes(pt', s, t, h, g, j)
            /\ pending' = [pending EXCEPT ![t] = NoRequest]
  BY <1>3, <1>4, <1>5, <1>7, <1>8, <1>9, <1>10, <1>13, <1>14, <1>15, <1>16 DEF UsePage
<1>18. PagesInv(pt', moved)
  <2>1. PagesInv(pt', fr)
    BY <1>2, <1>13, DataFollows DEF PagesInv
  <2>. QED BY <1>12, <1>13, <1>14, <2>1, SwapEmptyPageKeeps
<1>19. \A z \in Frames : pt'.table[z] = IF z = next THEN Entry(t, next)
                                         ELSE IF z = f THEN pt.table[next] ELSE pt.table[z]
  <2>1. \A z \in Frames : pt'.table[z] = IF z = next THEN Entry(t, NextNumber(pt, next))
                                         ELSE IF z = f THEN pt.table[next] ELSE pt.table[z]
    <3>1. TableOK(pt) /\ t \in Threads /\ f \in Frames /\ next \in Frames /\ NextNumber(pt, next) \in Nat
      BY <1>2, <1>12, <1>13
    <3>2. LET q == TakeNext(pt, t, f, next)
          IN  /\ TableOK(q)
              /\ \A z \in Frames : q.table[z] = IF z = next THEN Entry(t, NextNumber(pt, next))
                                                ELSE IF z = f THEN pt.table[next] ELSE pt.table[z]
              /\ q.numFreePagesMem = pt.numFreePagesMem /\ q.numFreePagesSF = pt.numFreePagesSF
      BY <3>1, TakeNextIs
    <3>. QED BY <1>13, <3>2
  <2>. QED BY <1>13, <2>1
<1>20. f # next => pt.table[next].inUse = 1
  <2>1. pt.table[f].inUse = 1
    BY <1>11 DEF Entry
  <2>2. PICK u \in 0 .. Total : UsedUpto(pt, u)
    BY <1>2 DEF TableInv, Filled
  <2>3. f < u
    BY <2>1, <2>2, FrameNumbers DEF UsedUpto, FreeEntry
  <2>. QED BY <1>11, <1>13, <2>2, <2>3, FrameNumbers DEF UsedUpto
<1>21. Fine(pt', fr, moved, t)
  <2>1. PICK F \in SUBSET Frames : F = {f}
    OBVIOUS
  <2>2. Got(r) = F
    BY <1>1, <1>3, <1>10, <2>1 DEF Got
  <2>3. Tame(pt, fr, t, F)
    BY <1>3, <1>6, <2>2 DEF IsolationInv, Calm
  <2>4. fr.data[f] = Blank
    BY <1>1, <2>1, <2>3 DEF Tame
  <2>5. PICK q : q = pt'
    OBVIOUS
  <2>6. Tame(q, moved, t, {}) /\ Saved(fr, moved)
    <3>1. F \subseteq {f} /\ f \in F
      BY <2>1
    <3>2. \A x \in Frames : q.table[x] = IF x = next THEN Entry(t, next)
                                         ELSE IF x = f THEN pt.table[next] ELSE pt.table[x]
      BY <1>19, <2>5
    <3>. QED BY <1>1, <1>2, <1>13, <1>14, <1>20, <2>3, <2>4, <3>1, <3>2, NewPageFine
  <2>. QED BY <1>18, <2>5, <2>6 DEF Fine
<1>22. /\ Chain(h) /\ j = Len(h) /\ Free(h[j]) /\ r.curr \in 1 .. Len(h)
  <2>1. PICK c \in 1 .. Len(old), n \in Nat \ {0} : c = r.curr /\ n = r.n
    BY <1>11, <1>12
  <2>2. ~ Free(old[c]) => IF n = 1 THEN c = Len(old) ELSE c = Len(old) - 1 /\ Free(old[Len(old)])
    BY <1>11, <2>1
  <2>3. LET e == Extended(old, c, n)
            k == IF Free(old[c]) THEN c ELSE c + 1
        IN  /\ Chain(e) /\ k = Len(e) /\ Free(e[k])
            /\ c \in 1 .. Len(e) /\ e[c].at = old[c].at /\ (Free(e[c]) <=> Free(old[c]))
    BY <1>6, <2>2, ExtendedKeeps
  <2>. QED BY <1>7, <1>8, <2>1, <2>3
<1>23. j \in 1 .. Len(h) /\ h \in Seq(Block) /\ Len(h) \in Nat
  BY <1>22, ChainLength
<1>24. Fine(pt', fr, s, t)
  <2>1. PICK is : is = <<r.curr, j>>
    OBVIOUS
  <2>2. Len(is) = 2 /\ is[1] = r.curr /\ is[2] = j
    BY <2>1
  <2>3. Len(is) \in Nat /\ \A k \in 1 .. Len(is) : is[k] \in 1 .. Len(h)
    BY <1>22, <1>23, <2>2
  <2>. QED BY <1>15, <1>21, <1>23, <2>1, <2>3, HeadersFine
<1>25. CASE r.size > h[j].size
  <2>1. \A u \in Threads : pending'[u].page = NULL
    <3>1. pending' = [pending EXCEPT ![t] = Again(r)]
      BY <1>17, <1>25
    <3>2. Again(r).page = NULL /\ \A u \in Threads : u # t => pending[u].page = NULL
      BY <1>6, NothingGot DEF Again, Requests
    <3>. QED BY <1>2, <3>1, <3>2
  <2>. QED BY <1>1, <1>6, <1>17, <1>24, <1>25, <2>1, CalmNew DEF Fine
<1>26. CASE ~ (r.size > h[j].size)
  <2>1. h[j].size >= r.size
    BY <1>6, <1>23, <1>26, BlockAt
  <2>2. Chain(g) /\ (Len(g) > Len(h) => j + 1 \in 1 .. Len(g))
    <3>1. PICK size \in Nat \ {0} : size = r.size
      BY <1>6
    <3>2. h[j].size >= size /\ g = Take(h, j, size, written[t])
      BY <1>16, <2>1, <3>1
    <3>. QED BY <1>22, <3>2, TakeKeeps
  <2>3. Fine(pt', fr, fr', t)
    BY <1>17, <1>24, <1>26, <2>2, TakeBytesFine
  <2>4. \A u \in Threads : pending'[u].page = NULL
    BY <1>2, <1>6, <1>17, <1>26, NothingGot
  <2>. QED BY <1>1, <1>6, <2>3, <2>4, CalmNew DEF Fine
<1>. QED BY <1>25, <1>26

LEMMA LibraryMallocFine ==
  ASSUME IsolationInv, NEW t \in Threads, NEW size \in Sizes, LibraryMalloc(t, size)
  PROVE  Calm' /\ Saved(fr, fr')
<1>0. Running(t) /\ current_tid' = current_tid /\ pt' = pt /\ pending' = pending
  BY DEF LibraryMalloc
<1>1. current_tid = t /\ fr.status = "ok" /\ \A u \in Threads : pending[u].page = NULL
  BY <1>0, RunningTame, NothingGot
<1>2. fr' = fr \/ \E e \in {"ok", "wild"} : fr' = [fr EXCEPT !.status = e]
  BY DEF LibraryMalloc
<1>3. Fine(pt, fr, fr, t)
  BY <1>0, FineNow
<1>4. Fine(pt, fr, fr', t)
  <2>1. ASSUME NEW e \in {"ok", "wild"}, fr' = [fr EXCEPT !.status = e] PROVE Fine(pt, fr, fr', t)
    <3>1. e \in Statuses /\ (e = fr.status \/ e # "ok")
      BY <1>1 DEF Statuses
    <3>. QED BY <1>3, <2>1, <3>1, StatusFine
  <2>. QED BY <1>2, <1>3, <2>1
<1>. QED BY <1>0, <1>1, <1>4, CalmNew DEF Fine

\* mydeallocate() moves no bytes after it read the headers.
LEMMA FreeBlockFine ==
  ASSUME NEW p, NEW s, NEW r, NEW t, Fine(p, s, r, t), NEW o, NEW h, NEW i, FreeBlock(o, h, i, r)
  PROVE  Fine(p, s, fr', t)
<1>1. PICK g : g = Release(h, i)
  OBVIOUS
<1>2. \/ \E end \in {r.status, "wild"} : fr' = [r EXCEPT !.status = end]
      \/ fr' = [r EXCEPT !.status = IF PrevIsFree(g, i) /\ i = Len(g) THEN "exit" ELSE @]
  BY <1>1 DEF FreeBlock
<1>3. r.status \in Statuses /\ "wild" \in Statuses /\ "exit" \in Statuses
  <2>1. "wild" \in Statuses /\ "exit" \in Statuses
    BY DEF Statuses
  <2>2. 0 \in Frames /\ FramesOK(r)
    BY FrameNumbers DEF Fine, PagesInv
  <2>. QED BY <2>1, <2>2, DataAt
<1>4. PICK e \in {r.status, "wild", "exit"} : fr' = [r EXCEPT !.status = e]
  BY <1>2
<1>5. e \in Statuses /\ (e = r.status \/ e # "ok")
  BY <1>3, <1>4
<1>. QED BY <1>4, <1>5, StatusFine

LEMMA LibraryFreeFine ==
  ASSUME IsolationInv, NEW t \in Threads, NEW i, LibraryFree(t, i)
  PROVE  Calm' /\ Saved(fr, fr')
<1>0. /\ Running(t) /\ current_tid' = current_tid /\ pt' = pt /\ pending' = pending
      /\ FreeBlock(Library, heap[Library], i, fr)
  BY DEF LibraryFree
<1>1. current_tid = t /\ \A u \in Threads : pending[u].page = NULL
  BY <1>0, RunningTame, NothingGot
<1>2. Fine(pt, fr, fr', t)
  <2>1. PICK h, r : h = heap[Library] /\ r = fr
    OBVIOUS
  <2>2. Fine(pt, fr, r, t) /\ FreeBlock(Library, h, i, r)
    BY <1>0, <2>1, FineNow
  <2>. QED BY <2>2, FreeBlockFine
<1>. QED BY <1>0, <1>1, <1>2, CalmNew DEF Fine

LEMMA DeallocFine ==
  ASSUME IsolationInv, NEW t \in Threads, NEW i \in Nat, Dealloc(t, i)
  PROVE  Calm' /\ Saved(fr, fr')
<1>. DEFINE q == HeadTable(t)
            b == HeadBytes(t)
<1>0. /\ Running(t) /\ ~ NoHead(t) /\ pt' = q /\ current_tid' = current_tid /\ pending' = pending /\ AllocInv
  BY DEF Dealloc, IsolationInv
<1>1. /\ current_tid = t /\ fr.status = "ok" /\ Tame(pt, fr, t, {})
      /\ \A u \in Threads : pending[u].page = NULL
  BY <1>0, RunningTame, NothingGot
<1>2. PICK h : h = HeadChain(t)
  OBVIOUS
<1>3. Fine(q, fr, b, t) /\ Chain(h)
  BY <1>0, <1>1, <1>2, HeadFine, HeadKeeps
<1>4. PICK s : s = IF i \in 1 .. Len(h) /\ InBounds(h[i], PAGE_SIZE)
                   THEN AccessHeaders(q, b, t, h, Upto(i)) ELSE b
  OBVIOUS
<1>5. PICK r : r = AccessHeaders(q, s, t, h, Neighbours(h, i))
  OBVIOUS
<1>6. \/ i \in 1 .. Len(h) /\ FreeBlock(t, h, i, r)
      \/ fr' = s
  BY <1>2, <1>4, <1>5 DEF Dealloc
<1>. HIDE DEF q, b
<1>7. h \in Seq(Block) /\ Len(h) \in Nat \ {0}
  BY <1>3, ChainLength
<1>8. Fine(q, fr, s, t)
  <2>1. CASE i \in 1 .. Len(h) /\ InBounds(h[i], PAGE_SIZE)
    BY <1>3, <1>4, <1>7, <2>1, UptoFine
  <2>2. CASE ~ (i \in 1 .. Len(h) /\ InBounds(h[i], PAGE_SIZE))
    BY <1>3, <1>4, <2>2
  <2>. QED BY <2>1, <2>2
<1>9. Fine(q, fr, fr', t)
  <2>1. CASE i \in 1 .. Len(h) /\ FreeBlock(t, h, i, r)
    <3>1. Fine(q, fr, r, t)
      BY <1>3, <1>5, <1>8, <2>1, NeighboursFine
    <3>. QED BY <2>1, <3>1, FreeBlockFine
  <2>2. CASE fr' = s
    BY <1>8, <2>2
  <2>. QED BY <1>6, <2>1, <2>2
<1>. QED BY <1>0, <1>1, <1>9, CalmNew DEF Fine

LEMMA TouchFine ==
  ASSUME IsolationInv, NEW t \in Threads, NEW i \in 1 .. Len(heap[t]), Touch(t, i)
  PROVE  Calm' /\ Saved(fr, fr')
<1>0. Running(t) /\ UNCHANGED <<pt, current_tid, heap, written, pending>>
  BY DEF Touch
<1>1. heap[t] \in Seq(Block) /\ Fine(pt, fr, fr, t)
  BY <1>0, FineNow DEF IsolationInv, AllocInv, ChainsInv, Owners
<1>2. PICK b \in Block : b = heap[t][i]
  BY <1>1, BlockAt
<1>3. b.at + META \in Nat /\ After(b) - 1 \in Nat
  BY SizesAssumption DEF Block, After
<1>4. PICK first \in Nat, last \in Nat : first = PageOf(b.at + META) /\ last = PageOf(After(b) - 1)
  BY <1>3, Pages
<1>5. PICK n \in Nat : n = IF last >= first THEN last - first + 1 ELSE 0
  <2>1. (IF last >= first THEN last - first + 1 ELSE 0) \in Nat
    OBVIOUS
  <2>. QED BY <2>1
<1>6. 1 .. (last - first + 1) = 1 .. n
  BY <1>5
<1>7. fr' = AccessPages(pt, fr, t, [k \in 1 .. (last - first + 1) |-> first + k - 1])
  BY <1>2, <1>4 DEF Touch
<1>8. PICK ps : ps = [k \in 1 .. n |-> first + k - 1]
  OBVIOUS
<1>9. Len(ps) = n /\ \A k \in 1 .. n : ps[k] = first + k - 1 /\ first + k - 1 \in Nat
  BY <1>8
<1>10. fr' = AccessPages(pt, fr, t, ps)
  BY <1>6, <1>7, <1>8
<1>11. Fine(pt, fr, fr', t)
  <2>1. Len(ps) \in Nat /\ \A k \in 1 .. Len(ps) : ps[k] \in Nat
    BY <1>9
  <2>. QED BY <1>1, <1>10, <2>1, AccessPagesFine
<1>12. current_tid = t /\ \A u \in Threads : pending[u].page = NULL
  BY <1>0, RunningTame, NothingGot
<1>. QED BY <1>0, <1>11, <1>12, CalmNew DEF Fine

\* After a switch the frames in memory that may be accessed are the next
\* thread's, whether or not it is the one that was running.
LEMMA SwitchFine ==
  ASSUME IsolationInv, ~ Interruptible, NEW u \in Threads, Switch(u)
  PROVE  Calm' /\ Saved(fr, fr')
<1>. PICK c : c = current_tid
  OBVIOUS
<1>0. /\ fr.status = "ok" /\ pt' = pt /\ pending' = pending /\ current_tid' = u
      /\ pending[c] = NoRequest /\ fr' = MprotectSetter(pt, fr, u, c)
  BY DEF Switch
<1>1. /\ FramesOK(fr) /\ TableOK(pt) /\ c \in Threads /\ Memory \subseteq Frames
      /\ \A t \in Threads : pending[t] = NoRequest
  BY <1>0, FrameNumbers DEF IsolationInv, AllocInv, PendingInv, PagesInv, TableInv
<1>2. \A t \in Threads : pending'[t].page = NULL
  BY <1>0, <1>1, NothingGot
<1>3. Tame(pt, fr, c, {})
  BY <1>0, NothingGot DEF IsolationInv, Calm
<1>4. /\ fr'.data = fr.data
      /\ \A y \in Memory : y \in fr'.open =>
           pt.table[y].tid # c /\ (y \in fr.open \/ pt.table[y].tid = u)
  <2>. DEFINE Of(t) == {y \in Memory : pt.table[y].tid = t}
  <2>1. fr' = [fr EXCEPT !.open = (@ \cup Of(u)) \ Of(c)]
    BY <1>0 DEF MprotectSetter
  <2>2. fr'.data = fr.data /\ fr'.open = (fr.open \cup Of(u)) \ Of(c)
    BY <1>1, <2>1 DEF FramesOK
  <2>. QED BY <2>2
<1>5. \A y \in Frames : pt.table[y].inUse = 0 => fr'.data[y] = Blank
  BY <1>0, <1>3, <1>4 DEF Tame
<1>6. ASSUME \A y \in Frames : Told(pt, fr', y) PROVE OpenTo(pt, fr', u)
  <2>1. OpenTo(pt, fr, c)
    BY <1>0, <1>3, <1>4, <1>6 DEF Tame, Told
  <2>. QED BY <1>4, <2>1 DEF OpenTo
<1>7. Tame(pt', fr', current_tid', {})
  BY <1>0, <1>5, <1>6 DEF Tame
<1>8. Saved(fr, fr')
  BY <1>4, SavedSame
<1>. QED BY <1>0, <1>2, <1>7, <1>8, CalmNew

LEMMA IsolationSteps ==
  ASSUME IsolationInv, ~ Interruptible, [Next]_vars
  PROVE  IsolationInv' /\ Saved(fr, fr')
<1>0. AllocInv'
  BY AllocSteps DEF IsolationInv
<1>1. CASE \E t \in Threads, size \in Sizes : Malloc(t, size)
  BY <1>0, <1>1, MallocFine DEF IsolationInv
<1>2. CASE \E t \in Threads : GetPage(t)
  BY <1>0, <1>2, GetPageFine DEF IsolationInv
<1>3. CASE \E t \in Threads : NoPage(t)
  BY <1>0, <1>3, NoPageFine DEF IsolationInv
<1>4. CASE \E t \in Threads : UsePage(t)
  BY <1>0, <1>4, UsePageFine DEF IsolationInv
<1>5. CASE \E t \in Threads : \E i \in 0 .. Len(heap[t]) : Dealloc(t, i)
  <2>0. PICK t \in Threads : \E i \in 0 .. Len(heap[t]) : Dealloc(t, i)
    BY <1>5
  <2>1. PICK i \in 0 .. Len(heap[t]) : Dealloc(t, i)
    BY <2>0
  <2>2. heap[t] \in Seq(Block)
    BY DEF IsolationInv, AllocInv, ChainsInv, Owners
  <2>3. i \in Nat
    BY <2>2, LenProperties
  <2>. QED BY <1>0, <2>1, <2>3, DeallocFine DEF IsolationInv
<1>6. CASE \E t \in Threads, size \in Sizes : LibraryMalloc(t, size)
  BY <1>0, <1>6, LibraryMallocFine DEF IsolationInv
<1>7. CASE \E t \in Threads : \E i \in 1 .. Len(heap[Library]) : LibraryFree(t, i)
  BY <1>0, <1>7, LibraryFreeFine DEF IsolationInv
<1>8. CASE \E t \in Threads : \E i \in 1 .. Len(heap[t]) : Touch(t, i)
  BY <1>0, <1>8, TouchFine DEF IsolationInv
<1>9. CASE \E u \in Threads : Switch(u)
  BY <1>0, <1>9, SwitchFine DEF IsolationInv
<1>10. CASE vars' = vars
  BY <1>10, SavedSame DEF vars, IsolationInv, AllocInv, PendingInv, Calm
<1>. QED BY <1>1, <1>2, <1>3, <1>4, <1>5, <1>6, <1>7, <1>8, <1>9, <1>10 DEF Next

LEMMA InitCalm ==
  ASSUME Init
  PROVE  IsolationInv
<1>1. /\ pt = InitTable /\ fr = InitFrames /\ current_tid \in Threads
      /\ pending = [t \in Threads |-> NoRequest] /\ AllocInv
  BY InitHolds DEF Init
<1>2. /\ \A y \in Frames : pt.table[y].inUse = 0 /\ fr.data[y] = Blank
      /\ \A t \in Threads : pending[t].page = NULL
  BY <1>1, InitPages, NothingGot DEF FreeEntry
<1>3. Got(pending[current_tid]) = {}
  BY <1>1, NothingGot
<1>4. OpenTo(pt, fr, current_tid)
  <2>1. Memory \subseteq Frames
    BY FrameNumbers
  <2>. QED BY <1>2, <2>1 DEF OpenTo
<1>5. Calm
  BY <1>2, <1>3, <1>4 DEF Calm, Tame
<1>. QED BY <1>1, <1>5 DEF IsolationInv

LEMMA IsolationImplies ==
  ASSUME IsolationInv
  PROVE  Isolated /\ FreePageIsEmpty
<1>1. ASSUME Truthful, NEW y \in fr.open \cap Memory, fr.data[y] # Blank
      PROVE  fr.data[y][1] = current_tid
  <2>1. /\ fr.status = "ok" /\ y \in Frames
        /\ \A x \in Frames : Told(pt, fr, x)
    BY <1>1, FrameNumbers DEF Truthful, TableMatches, Told
  <2>2. OpenTo(pt, fr, current_tid)
    BY <2>1 DEF IsolationInv, Calm, Tame
  <2>3. pt.table[y].inUse = 1 /\ fr.data[y] = <<pt.table[y].tid, pt.table[y].page_num>>
    BY <1>1, <2>1 DEF Told
  <2>. QED BY <1>1, <2>2, <2>3 DEF OpenTo
<1>2. ASSUME NEW t \in Threads, pending[t].page # NULL
      PROVE  fr.data[pending[t].page] = Blank
  <2>1. t = current_tid /\ fr.status = "ok" /\ pending[t].page \in Frames
    <3>1. pending[t] # NoRequest
      BY <1>2, NothingGot
    <3>. QED BY <1>2, <3>1 DEF IsolationInv, AllocInv, PendingInv, Calm, Requests
  <2>2. pending[t].page \in Got(pending[t])
    BY <1>2 DEF Got
  <2>. QED BY <2>1, <2>2 DEF IsolationInv, Calm, Tame
<1>. QED BY <1>1, <1>2 DEF Isolated, FreePageIsEmpty

\* The invariant that says which bytes the frames hold is inductive.
THEOREM IsolationInvariant ==
  ASSUME Interruptible = FALSE
  PROVE  Spec => []IsolationInv
<1>1. Init => IsolationInv
  BY InitCalm
<1>2. IsolationInv /\ [Next]_vars => IsolationInv'
  BY IsolationSteps
<1>. QED BY <1>1, <1>2, PTL DEF Spec

\* Where the page table is right, the pages in memory that a thread can access are
\* its own.
THEOREM ThreadsAreIsolated ==
  ASSUME Interruptible = FALSE
  PROVE  Spec => []Isolated
<1>1. IsolationInv => Isolated
  BY IsolationImplies
<1>. QED BY <1>1, IsolationInvariant, PTL

\* The frame that requestPage() found is still empty when it is moved into.
THEOREM FreePageStaysEmpty ==
  ASSUME Interruptible = FALSE
  PROVE  Spec => []FreePageIsEmpty
<1>1. IsolationInv => FreePageIsEmpty
  BY IsolationImplies
<1>. QED BY <1>1, IsolationInvariant, PTL

\* No step destroys the bytes of a page.
THEOREM PagesAreKept ==
  ASSUME Interruptible = FALSE
  PROVE  Spec => DataKept
<1>. DEFINE Keeps ==
       \A y \in Frames :
         LET with(s) == {z \in Frames : s[z] = fr.data[y]}
         IN  fr.data[y] # Blank => Cardinality(with(fr.data)) <= Cardinality(with(fr'.data))
<1>1. IsolationInv /\ [Next]_vars => [Keeps]_vars
  <2>. SUFFICES ASSUME IsolationInv, [Next]_vars PROVE Keeps
    OBVIOUS
  <2>1. Saved(fr, fr')
    BY IsolationSteps
  <2>2. PICK r, s : r = fr /\ s = fr'
    OBVIOUS
  <2>3. ASSUME NEW y \in Frames, r.data[y] # Blank
        PROVE  Cardinality({z \in Frames : r.data[z] = r.data[y]})
               <= Cardinality({z \in Frames : s.data[z] = r.data[y]})
    <3>1. PICK v : v = r.data[y]
      OBVIOUS
    <3>2. Saved(r, s) /\ v # Blank
      BY <2>1, <2>2, <2>3, <3>1
    <3>3. Cardinality({z \in Frames : r.data[z] = v}) <= Cardinality({z \in Frames : s.data[z] = v})
      BY <3>2, SavedCounts
    <3>. QED BY <3>1, <3>3
  <2>. QED BY <2>2, <2>3
<1>2. Spec => [][Keeps]_vars
  BY <1>1, IsolationInvariant, PTL DEF Spec
<1>. QED BY <1>1, IsolationInvariant, PTL DEF Spec, DataKept
=============================================================================

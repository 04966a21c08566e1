--------------------------- MODULE SchedulerQueues ---------------------------
(***************************************************************************)
(* The lists of Scheduler match the states of the threads, a join delivers *)
(* the right value, schedule() finds a thread to run and the process ends  *)
(* with its last thread, for any constants, as long as the signal stays    *)
(* out of the windows in which the code leaves a thread between two of its *)
(* lists (the code masks it nowhere): it may arrive at CallBoundaries      *)
(* only.  Under the same hypothesis Scheduler implements ThreadContract.   *)
(***************************************************************************)
EXTENDS SchedulerProofs, SchedulerRefinement, FiniteSetTheorems, SequenceTheorems

-----------------------------------------------------------------------------
(***************************************************************************)
(* What enqueue(), dequeue() and maintenance() of Scheduler do to the      *)
(* lists their links form, for any heap and any constants.  The order of a *)
(* list is given by positions that grow along it, so that taking a thread  *)
(* out moves none of the others.                                           *)
(***************************************************************************)

USE ThreadsAssumption, QueuesAssumption DEF ThreadOrNull

\* Which list each thread is on, NULL for none.
Places == [Threads -> Queues \cup {NULL}]

\* The list of queue q in heap h has exactly the threads that "on" places there,
\* in the order of their positions, and ends at rear.
Linked(h, q, on, pos) ==
  LET front == h.queue[q].front
      rear  == h.queue[q].rear
  IN  /\ front # NULL => on[front] = q
      /\ rear # NULL  => on[rear] = q
      /\ \A t \in Threads :
           on[t] = q =>
             /\ front # NULL /\ pos[front] <= pos[t]
             /\ rear # NULL  /\ pos[t] <= pos[rear]
             /\ IF t = rear
                THEN h.next[t] = NULL
                ELSE /\ h.next[t] # NULL
                     /\ on[h.next[t]] = q
                     /\ pos[t] < pos[h.next[t]]
             /\ \A s \in Threads :
                  on[s] = q =>
                    /\ pos[s] = pos[t] => s = t
                    /\ t # rear /\ pos[t] < pos[s] => pos[h.next[t]] <= pos[s]

\* Every queue of h is such a list, and a thread on none has no successor.
Lists(h, on) ==
  /\ \E pos \in [Threads -> Nat] : \A q \in Queues : Linked(h, q, on, pos)
  /\ \A t \in Threads : on[t] = NULL => h.next[t] = NULL

\* What a list says of a thread on it.
LEMMA LinkedAt ==
  ASSUME NEW h \in Heap, NEW on \in Places, NEW pos \in [Threads -> Nat], NEW q \in Queues,
         Linked(h, q, on, pos), NEW s \in Threads, on[s] = q
  PROVE  /\ h.queue[q].front \in Threads /\ on[h.queue[q].front] = q
         /\ h.queue[q].rear \in Threads /\ on[h.queue[q].rear] = q
         /\ pos[h.queue[q].front] <= pos[s] /\ pos[s] <= pos[h.queue[q].rear]
         /\ s = h.queue[q].rear => h.next[s] = NULL
         /\ s # h.queue[q].rear => /\ h.next[s] \in Threads /\ on[h.next[s]] = q
                                  /\ pos[s] < pos[h.next[s]]
<1>1. h.next[s] \in ThreadOrNull /\ h.queue[q].front \in ThreadOrNull /\ h.queue[q].rear \in ThreadOrNull
  BY DEF Heap
<1>. QED BY <1>1 DEF Linked

\* enqueue() of a thread on no list puts it on the list of q, the others stay.
LEMMA EnqueueLists ==
  ASSUME NEW h \in Heap, NEW on \in Places, Lists(h, on),
         NEW q \in Queues, NEW t \in Threads, on[t] = NULL
  PROVE  Lists(Enqueue(h, q, t), [on EXCEPT ![t] = q])
<1>. DEFINE g == Enqueue(h, q, t)
            to == [on EXCEPT ![t] = q]
            rear == h.queue[q].rear
<1>1. PICK pos \in [Threads -> Nat] : \A r \in Queues : Linked(h, r, on, pos)
  BY DEF Lists
<1>. DEFINE new == [pos EXCEPT ![t] = IF rear = NULL THEN 0 ELSE pos[rear] + 1]
<1>t. /\ rear \in Threads \cup {NULL}
      /\ rear # NULL => rear # t /\ on[rear] = q
      /\ h.next[t] = NULL /\ q # NULL
      /\ \A r \in Queues : h.queue[r].front # t /\ h.queue[r].rear # t
  BY <1>1 DEF Lists, Linked, Heap
<1>p. /\ new \in [Threads -> Nat]
      /\ \A s \in Threads : s # t => new[s] = pos[s]
      /\ new[t] = IF rear = NULL THEN 0 ELSE pos[rear] + 1
  BY <1>t
<1>o. /\ to[t] = q
      /\ \A s \in Threads : s # t => to[s] = on[s]
  BY DEF Places
<1>g. /\ \A s \in Threads : g.next[s] = IF s = rear THEN t ELSE h.next[s]
      /\ \A r \in Queues : r # q => g.queue[r] = h.queue[r]
      /\ g.queue[q].front = IF rear = NULL THEN t ELSE h.queue[q].front
      /\ g.queue[q].rear = t
  BY <1>t DEF Enqueue, Heap
<1>. HIDE DEF g, to, new
<1>2. ASSUME NEW r \in Queues, r # q PROVE Linked(g, r, to, new)
  BY <1>1, <1>t, <1>p, <1>o, <1>g, <1>2 DEF Linked, Heap, Places
<1>3. Linked(g, q, to, new)
  <2>1. Linked(h, q, on, pos)
    BY <1>1
  <2>2. CASE rear = NULL
    BY <2>1, <2>2, <1>t, <1>p, <1>o, <1>g DEF Linked, Heap, Places
  <2>3. CASE rear # NULL
    BY <2>1, <2>3, <1>t, <1>p, <1>o, <1>g DEF Linked, Heap, Places
  <2>. QED BY <2>2, <2>3
<1>4. ASSUME NEW s \in Threads, to[s] = NULL PROVE g.next[s] = NULL
  BY <1>4, <1>t, <1>o, <1>g DEF Lists
<1>. QED BY <1>2, <1>3, <1>4, <1>p DEF Lists, g, to

\* dequeue() takes the front off its list, the others stay in their order.
LEMMA DequeueLists ==
  ASSUME NEW h \in Heap, NEW on \in Places, Lists(h, on),
         NEW q \in Queues, h.queue[q].front # NULL
  PROVE  Lists(Dequeue(h, q), [on EXCEPT ![h.queue[q].front] = NULL])
<1>. DEFINE g == Dequeue(h, q)
            f == h.queue[q].front
            to == [on EXCEPT ![f] = NULL]
<1>1. PICK pos \in [Threads -> Nat] : \A r \in Queues : Linked(h, r, on, pos)
  BY DEF Lists
<1>t. f \in Threads /\ on[f] = q /\ q # NULL
  BY <1>1 DEF Linked, Heap
<1>o. /\ to[f] = NULL
      /\ \A s \in Threads : s # f => to[s] = on[s]
  BY <1>t DEF Places
<1>g. /\ \A s \in Threads : g.next[s] = IF s = f THEN NULL ELSE h.next[s]
      /\ \A r \in Queues : r # q => g.queue[r] = h.queue[r]
      /\ g.queue[q].front = h.next[f]
      /\ g.queue[q].rear = IF h.next[f] = NULL THEN NULL ELSE h.queue[q].rear
  BY <1>t DEF Dequeue, Heap
<1>. HIDE DEF g, to
<1>2. ASSUME NEW r \in Queues, r # q PROVE Linked(g, r, to, pos)
  BY <1>1, <1>t, <1>o, <1>g, <1>2 DEF Linked, Heap, Places
<1>3. Linked(g, q, to, pos)
  <2>1. Linked(h, q, on, pos)
    BY <1>1
  <2>2. CASE h.next[f] = NULL
    BY <2>1, <2>2, <1>t, <1>o, <1>g DEF Linked, Heap, Places
  <2>3. CASE h.next[f] # NULL
    <3>. DEFINE rear == h.queue[q].rear
                second == h.next[f]
    <3>1. /\ second \in Threads /\ on[second] = q /\ pos[f] < pos[second]
          /\ rear \in Threads /\ on[rear] = q /\ rear # f
      BY <2>1, <2>3, <1>t DEF Linked, Heap
    <3>2. ASSUME NEW s \in Threads, on[s] = q, s # f
          PROVE  /\ pos[second] <= pos[s] /\ pos[s] <= pos[rear]
                 /\ s = rear => h.next[s] = NULL
                 /\ s # rear => /\ h.next[s] \in Threads /\ on[h.next[s]] = q
                                /\ pos[s] < pos[h.next[s]] /\ h.next[s] # f
      <4>1. pos[f] < pos[s]
        BY <2>1, <3>2, <1>t DEF Linked
      <4>2. pos[second] <= pos[s]
        BY <2>1, <3>1, <3>2, <4>1, <1>t DEF Linked
      <4>3. /\ pos[s] <= pos[rear] /\ (s = rear => h.next[s] = NULL)
            /\ s # rear => /\ h.next[s] \in Threads /\ on[h.next[s]] = q
                           /\ pos[s] < pos[h.next[s]]
        BY <2>1, <3>2, LinkedAt
      <4>. QED BY <4>1, <4>2, <4>3
    <3>3. ASSUME NEW s \in Threads, NEW u \in Threads, on[s] = q, on[u] = q
          PROVE  /\ pos[s] = pos[u] => s = u
                 /\ u # rear /\ pos[u] < pos[s] => pos[h.next[u]] <= pos[s]
      BY <2>1, <3>3 DEF Linked
    <3>4. /\ g.queue[q].front = second /\ g.queue[q].rear = rear
          /\ to[second] = q /\ to[rear] = q
      BY <1>o, <1>g, <2>3, <3>1
    <3>5. ASSUME NEW s \in Threads, to[s] = q
          PROVE  on[s] = q /\ s # f /\ g.next[s] = h.next[s]
      BY <1>o, <1>g, <1>t, <3>5
    <3>. HIDE DEF f, rear, second
    <3>. QED BY <1>o, <1>t, <3>1, <3>2, <3>3, <3>4, <3>5 DEF Linked
  <2>. QED BY <2>2, <2>3
<1>4. ASSUME NEW s \in Threads, to[s] = NULL PROVE g.next[s] = NULL
  BY <1>4, <1>t, <1>o, <1>g DEF Lists
<1>. QED BY <1>2, <1>3, <1>4 DEF Lists, g, to

\* maintenance() takes ptr out of the list of level i, where prev is the thread
\* before it if there is one, and forgets its successor: the others stay in their
\* order, and the successor is the same as the one still read off the old links.
LEMMA UnlinkLists ==
  ASSUME NEW h \in Heap, NEW on \in Places, Lists(h, on), NEW i \in Queues,
         NEW ptr \in Threads, on[ptr] = i, NEW prev \in ThreadOrNull,
         ptr # h.queue[i].front => prev # NULL /\ on[prev] = i /\ h.next[prev] = ptr
  PROVE  Lists([Unlink(h, i, ptr, prev) EXCEPT !.next[ptr] = NULL], [on EXCEPT ![ptr] = NULL])
<1>. DEFINE g == [Unlink(h, i, ptr, prev) EXCEPT !.next[ptr] = NULL]
            to == [on EXCEPT ![ptr] = NULL]
            front == h.queue[i].front
            rear == h.queue[i].rear
            after == h.next[ptr]
<1>1. PICK pos \in [Threads -> Nat] : \A r \in Queues : Linked(h, r, on, pos)
  BY DEF Lists
<1>t. /\ i # NULL /\ front \in Threads /\ on[front] = i
      /\ rear \in Threads /\ on[rear] = i /\ after \in ThreadOrNull
      /\ ptr # front => prev \in Threads /\ on[prev] = i /\ h.next[prev] = ptr
  BY <1>1 DEF Linked, Heap
<1>o. /\ to[ptr] = NULL
      /\ \A s \in Threads : s # ptr => to[s] = on[s]
  BY DEF Places
<1>g. /\ g.next[ptr] = NULL
      /\ \A s \in Threads : s # ptr =>
           g.next[s] = IF ptr # front /\ s = prev THEN after ELSE h.next[s]
      /\ \A r \in Queues : r # i => g.queue[r] = h.queue[r]
      /\ g.queue[i].front = IF ptr = front THEN after ELSE front
      /\ g.queue[i].rear = IF after # NULL THEN rear ELSE IF ptr = front THEN NULL ELSE prev
  BY <1>t DEF Unlink, Heap
<1>2. ASSUME NEW s \in Threads, on[s] = i
      PROVE  /\ pos[front] <= pos[s] /\ pos[s] <= pos[rear]
             /\ s = rear => h.next[s] = NULL
             /\ s # rear => /\ h.next[s] \in Threads /\ on[h.next[s]] = i
                            /\ pos[s] < pos[h.next[s]]
  BY <1>1, <1>2, <1>t DEF Linked, Heap
<1>3. ASSUME NEW s \in Threads, NEW u \in Threads, on[s] = i, on[u] = i
      PROVE  /\ pos[s] = pos[u] => s = u
             /\ u # rear /\ pos[u] < pos[s] => pos[h.next[u]] <= pos[s]
  BY <1>1, <1>3 DEF Linked
<1>. HIDE DEF g, to
<1>4. ASSUME NEW r \in Queues, r # i PROVE Linked(g, r, to, pos)
  BY <1>1, <1>t, <1>o, <1>g, <1>4 DEF Linked, Heap, Places
<1>5. after = NULL <=> ptr = rear
  BY <1>2, <1>t
<1>6. Linked(g, i, to, pos)
  <2>0. \A s \in Threads : to[s] = i => on[s] = i /\ s # ptr
    BY <1>o, <1>t
  <2>1. CASE ptr = front
    <3>1. \A s \in Threads : to[s] = i => pos[ptr] < pos[s] /\ g.next[s] = h.next[s]
      BY <1>2, <1>3, <1>g, <2>0, <2>1
    <3>2. \A s \in Threads : to[s] = i => after # NULL /\ pos[after] <= pos[s]
      BY <1>2, <1>3, <1>5, <1>t, <2>0, <2>1, <3>1
    <3>3. after # NULL => on[after] = i /\ after # ptr
      BY <1>2, <1>5
    <3>4. g.queue[i].front = after /\ g.queue[i].rear = IF after = NULL THEN NULL ELSE rear
      BY <1>g, <2>1
    <3>5. \A s \in Threads : to[s] = i => h.next[s] # ptr
      BY <1>2, <1>t, <2>0, <2>1, <3>1
    <3>. QED BY <1>2, <1>3, <1>5, <1>o, <1>t, <2>0, <3>1, <3>2, <3>3, <3>4, <3>5 DEF Linked
  <2>2. CASE ptr # front
    <3>1. /\ prev \in Threads /\ on[prev] = i /\ h.next[prev] = ptr /\ prev # rear
          /\ pos[prev] < pos[ptr] /\ prev # ptr
      BY <1>2, <1>t, <2>2
    <3>2. \A s \in Threads : on[s] = i /\ s # prev => h.next[s] # ptr
      BY <1>2, <1>3, <1>t, <3>1
    <3>3. \A s \in Threads : to[s] = i /\ pos[prev] < pos[s] => pos[ptr] < pos[s]
      BY <1>3, <2>0, <3>1
    <3>4. g.queue[i].front = front /\ g.queue[i].rear = IF after = NULL THEN prev ELSE rear
      BY <1>g, <2>2
    <3>5. \A s \in Threads : to[s] = i => g.next[s] = IF s = prev THEN after ELSE h.next[s]
      BY <1>g, <2>0, <2>2
    <3>6. CASE after = NULL
      <4>1. \A s \in Threads : to[s] = i => pos[s] <= pos[prev]
        BY <1>2, <1>5, <2>0, <3>1, <3>3, <3>6
      <4>. QED BY <1>2, <1>3, <1>o, <1>t, <2>0, <2>2, <3>1, <3>2, <3>4, <3>5, <3>6, <4>1 DEF Linked
    <3>7. CASE after # NULL
      <4>1. /\ after \in Threads /\ on[after] = i /\ pos[ptr] < pos[after] /\ rear # ptr
            /\ after # ptr
        BY <1>2, <1>5, <3>7
      <4>2. \A s \in Threads : to[s] = i /\ pos[prev] < pos[s] => pos[after] <= pos[s]
        BY <1>3, <2>0, <3>3, <4>1
      <4>. QED BY <1>2, <1>3, <1>o, <1>t, <2>0, <2>2, <3>1, <3>2, <3>4, <3>5, <3>7, <4>1, <4>2 DEF Linked
    <3>. QED BY <3>6, <3>7
  <2>. QED BY <2>1, <2>2
<1>7. ASSUME NEW s \in Threads, to[s] = NULL PROVE g.next[s] = NULL
  <2>1. CASE s = ptr
    BY <1>g, <2>1
  <2>2. CASE s # ptr
    BY <1>7, <1>t, <1>o, <1>g, <2>2 DEF Lists
  <2>. QED BY <2>1, <2>2
<1>. QED BY <1>4, <1>6, <1>7 DEF Lists, g, to

-----------------------------------------------------------------------------
(***************************************************************************)
(* From the lists to Chain and WellFormed, which follow the links from the *)
(* front.  Both are about a recursive function: every argument by          *)
(* induction is one by the least number at which the claim would fail.     *)
(***************************************************************************)

\* A set of numbers that is not empty has a least one.
LEMMA LeastNat ==
  ASSUME NEW S \in SUBSET Nat, S # {}
  PROVE  \E m \in S : \A n \in S : m <= n
<1>. DEFINE T == {1 .. n : n \in S}
<1>1. T \subseteq FiniteSubsetsOf(Nat) /\ T # {}
  <2>1. ASSUME NEW n \in S PROVE 1 .. n \in FiniteSubsetsOf(Nat)
    <3>1. n \in Int /\ 1 \in Int
      OBVIOUS
    <3>2. IsFiniteSet(1 .. n)
      BY <3>1, FS_Interval
    <3>3. 1 .. n \in SUBSET Nat
      OBVIOUS
    <3>. QED BY <3>2, <3>3 DEF FiniteSubsetsOf
  <2>. QED BY <2>1
<1>2. PICK x \in T : \A y \in T : ~ (<<y, x>> \in StrictSubsetOrdering(Nat))
  BY <1>1, FS_StrictSubsetOrderingWellFounded, WFMin
<1>3. PICK m \in S : x = 1 .. m
  OBVIOUS
<1>4. ASSUME NEW n \in S, n < m PROVE FALSE
  <2>1. <<1 .. n, 1 .. m>> \in StrictSubsetOrdering(Nat)
    BY <1>4 DEF StrictSubsetOrdering
  <2>. QED BY <1>2, <1>3, <2>1
<1>. QED BY <1>4

\* What comes after e in the list: nothing after the end.
After(h, e) == IF e = NULL THEN NULL ELSE h.next[e]

\* f lists the first k elements of the queue q of h, NULL past the end.
Follows(h, q, k, f) ==
  /\ f \in [1 .. k -> ThreadOrNull]
  /\ \A n \in 1 .. k : f[n] = IF n = 1 THEN h.queue[q].front ELSE After(h, f[n - 1])

\* The links can be followed any number of times.
LEMMA FollowsExists ==
  ASSUME NEW h \in Heap, NEW q \in Queues, NEW N \in Nat
  PROVE  \E f : Follows(h, q, N, f)
<1>. DEFINE S == {k \in Nat : ~ \E f : Follows(h, q, k, f)}
<1>. SUFFICES ASSUME S # {} PROVE FALSE
  OBVIOUS
<1>1. PICK k \in S : \A n \in S : k <= n
  BY LeastNat
<1>2. CASE k = 0
  <2>1. Follows(h, q, 0, [n \in 1 .. 0 |-> NULL])
    BY DEF Follows
  <2>. QED BY <1>1, <1>2, <2>1
<1>3. CASE k # 0
  <2>1. k - 1 \in Nat /\ k - 1 \notin S
    BY <1>1, <1>3
  <2>2. PICK f : Follows(h, q, k - 1, f)
    BY <2>1
  <2>. DEFINE e == IF k = 1 THEN h.queue[q].front ELSE After(h, f[k - 1])
              g == [n \in 1 .. k |-> IF n = k THEN e ELSE f[n]]
  <2>3. e \in ThreadOrNull
    BY <1>3, <2>2 DEF Follows, After, Heap
  <2>4. \A n \in 1 .. k : g[n] = IF n = k THEN e ELSE f[n]
    OBVIOUS
  <2>5. \A n \in 1 .. k : n # k => n \in 1 .. (k - 1) /\ f[n] \in ThreadOrNull
    BY <2>2 DEF Follows
  <2>6. g \in [1 .. k -> ThreadOrNull]
    BY <2>3, <2>5
  <2>7. ASSUME NEW n \in 1 .. k
        PROVE  g[n] = IF n = 1 THEN h.queue[q].front ELSE After(h, g[n - 1])
    <3>1. n # 1 => n - 1 \in 1 .. k /\ g[n - 1] = f[n - 1]
      BY <2>4
    <3>2. CASE n = k
      BY <2>4, <3>1, <3>2
    <3>3. CASE n # k
      <4>1. f[n] = IF n = 1 THEN h.queue[q].front ELSE After(h, f[n - 1])
        BY <2>2, <2>5, <3>3 DEF Follows
      <4>. QED BY <2>4, <3>1, <3>3, <4>1
    <3>. QED BY <3>2, <3>3
  <2>. HIDE DEF g
  <2>8. Follows(h, q, k, g)
    BY <2>6, <2>7 DEF Follows
  <2>. QED BY <1>1, <2>8
<1>. QED BY <1>2, <1>3

\* Nth(q) in any heap.
NthIn(h, q) ==
  LET nth[n \in 1 .. Cardinality(Threads)] ==
        IF n = 1 THEN h.queue[q].front
                 ELSE IF nth[n - 1] = NULL THEN NULL ELSE h.next[nth[n - 1]]
  IN  nth

\* It is the list of q.
LEMMA NthFollows ==
  ASSUME NEW h \in Heap, NEW q \in Queues
  PROVE  Follows(h, q, Cardinality(Threads), NthIn(h, q))
<1>. DEFINE N == Cardinality(Threads)
            Body(nth) == [n \in 1 .. N |->
                            IF n = 1 THEN h.queue[q].front
                            ELSE IF nth[n - 1] = NULL THEN NULL ELSE h.next[nth[n - 1]]]
<1>1. N \in Nat
  BY FiniteAssumption, FS_CardinalityType DEF N
<1>2. PICK f : Follows(h, q, N, f)
  BY <1>1, FollowsExists
<1>3. f = Body(f)
  BY <1>2 DEF Follows, After
<1>4. NthIn(h, q) = CHOOSE nth : nth = Body(nth)
  BY DEF NthIn
<1>. HIDE DEF Body
<1>5. NthIn(h, q) = Body(NthIn(h, q))
  BY <1>3, <1>4, Zenon
<1>. USE DEF Body
<1>. DEFINE nth == NthIn(h, q)
<1>6. \A n \in 1 .. N : nth[n] = IF n = 1 THEN h.queue[q].front ELSE After(h, nth[n - 1])
  BY <1>5 DEF After
<1>7. nth = [n \in 1 .. N |-> nth[n]]
  BY <1>5
<1>. HIDE DEF nth, N, Body
<1>. DEFINE S == {n \in 1 .. N : nth[n] \notin ThreadOrNull}
<1>8. S = {}
  <2>. SUFFICES ASSUME S # {} PROVE FALSE
    OBVIOUS
  <2>1. S \in SUBSET Nat
    BY <1>1
  <2>2. PICK n \in S : \A m \in S : n <= m
    BY <2>1, LeastNat
  <2>3. CASE n = 1
    BY <1>6, <2>2, <2>3 DEF Heap
  <2>4. CASE n # 1
    <3>1. n - 1 \in 1 .. N /\ nth[n - 1] \in ThreadOrNull
      BY <1>1, <2>2, <2>4
    <3>2. nth[n] = After(h, nth[n - 1])
      BY <1>6, <2>2, <2>4
    <3>. QED BY <2>2, <3>1, <3>2 DEF After, Heap
  <2>. QED BY <2>3, <2>4
<1>9. nth \in [1 .. N -> ThreadOrNull]
  BY <1>7, <1>8
<1>. QED BY <1>6, <1>9 DEF Follows, nth, N

\* A list as long as all the threads together reaches every thread on it.
LEMMA FollowsReaches ==
  ASSUME NEW h \in Heap, NEW on \in Places, NEW pos \in [Threads -> Nat], NEW q \in Queues,
         Linked(h, q, on, pos), NEW f, Follows(h, q, Cardinality(Threads), f)
  PROVE  {f[n] : n \in 1 .. Cardinality(Threads)} \ {NULL} = {t \in Threads : on[t] = q}
<1>. DEFINE N == Cardinality(Threads)
            front == h.queue[q].front
            rear == h.queue[q].rear
<1>n. N \in Nat /\ N # 0
  BY FiniteAssumption, FS_CardinalityType, FS_EmptySet
<1>m. 1 \in 1 .. N
  BY <1>n
<1>f. /\ \A n \in 1 .. N : f[n] \in ThreadOrNull
      /\ f[1] = front
      /\ \A n \in 1 .. N : n # 1 => f[n] = After(h, f[n - 1])
  BY <1>m DEF Follows
<1>s. ASSUME NEW S \in SUBSET (1 .. N), S # {}
      PROVE  \E m \in S : \A k \in S : m <= k
  <2>1. S \in SUBSET Nat
    BY <1>n
  <2>. QED BY <1>s, <2>1, LeastNat
<1>. HIDE DEF N
<1>1. ASSUME NEW n \in 1 .. N, f[n] # NULL PROVE on[f[n]] = q
  <2>. DEFINE S == {m \in 1 .. N : f[m] # NULL /\ on[f[m]] # q}
  <2>. SUFFICES ASSUME S # {} PROVE FALSE
    BY <1>1
  <2>1. PICK m \in S : \A k \in S : m <= k
    BY <1>s
  <2>2. m # 1
    BY <1>f, <2>1 DEF Linked
  <2>3. m - 1 \in 1 .. N /\ m - 1 \notin S /\ f[m] = After(h, f[m - 1])
    BY <1>n, <1>f, <2>1, <2>2
  <2>4. f[m - 1] \in Threads /\ on[f[m - 1]] = q /\ h.next[f[m - 1]] # NULL
    BY <1>f, <2>1, <2>3 DEF After
  <2>5. on[h.next[f[m - 1]]] = q
    BY <2>4, LinkedAt
  <2>. QED BY <2>1, <2>3, <2>4, <2>5 DEF After
<1>2. ASSUME NEW n \in 1 .. N, NEW m \in 1 .. N, n < m, f[m] # NULL
      PROVE  f[n] # NULL /\ pos[f[n]] < pos[f[m]]
  <2>. DEFINE Bad(k) == f[k] # NULL /\ \E j \in 1 .. N : j < k /\ ~ (f[j] # NULL /\ pos[f[j]] < pos[f[k]])
              S == {k \in 1 .. N : Bad(k)}
  <2>. SUFFICES ASSUME S # {} PROVE FALSE
    BY <1>2
  <2>1. PICK k \in S : \A j \in S : k <= j
    BY <1>s
  <2>2. k \in 1 .. N /\ f[k] # NULL
    OBVIOUS
  <2>3. PICK j \in 1 .. N : j < k /\ ~ (f[j] # NULL /\ pos[f[j]] < pos[f[k]])
    OBVIOUS
  <2>4. k - 1 \in 1 .. N /\ ~ Bad(k - 1) /\ f[k] = After(h, f[k - 1])
    BY <1>n, <1>f, <2>1, <2>2, <2>3
  <2>5. f[k - 1] \in Threads /\ on[f[k - 1]] = q /\ h.next[f[k - 1]] = f[k]
    BY <1>f, <1>1, <2>2, <2>4 DEF After
  <2>6. pos[f[k - 1]] < pos[f[k]]
    BY <2>2, <2>5, LinkedAt
  <2>7. CASE j = k - 1
    BY <2>3, <2>5, <2>6, <2>7
  <2>8. CASE j # k - 1
    <3>1. j < k - 1
      BY <2>3, <2>4, <2>8
    <3>2. f[j] # NULL /\ pos[f[j]] < pos[f[k - 1]]
      BY <2>4, <2>5, <3>1
    <3>3. f[j] \in Threads /\ f[k] \in Threads
      BY <1>f, <2>2, <3>2
    <3>. QED BY <2>3, <2>5, <2>6, <3>2, <3>3
  <2>. QED BY <2>7, <2>8
<1>3. ASSUME NEW t \in Threads, on[t] = q PROVE \E n \in 1 .. N : f[n] = t
  <2>1. /\ front \in Threads /\ rear \in Threads /\ on[rear] = q
        /\ pos[front] <= pos[t] /\ pos[t] <= pos[rear]
    BY <1>3, LinkedAt
  <2>2. \E n \in 1 .. N : f[n] = rear
    <3>. SUFFICES ASSUME \A n \in 1 .. N : f[n] # rear PROVE FALSE
      OBVIOUS
    <3>1. \A n \in 1 .. N : f[n] # NULL
      <4>. DEFINE S == {n \in 1 .. N : f[n] = NULL}
      <4>. SUFFICES ASSUME S # {} PROVE FALSE
        OBVIOUS
      <4>1. PICK n \in S : \A m \in S : n <= m
        BY <1>s
      <4>2. n # 1
        BY <1>f, <2>1, <4>1
      <4>3. n - 1 \in 1 .. N /\ f[n - 1] # NULL /\ f[n] = After(h, f[n - 1])
        BY <1>n, <1>f, <4>1, <4>2
      <4>4. f[n - 1] \in Threads /\ on[f[n - 1]] = q
        BY <1>f, <1>1, <4>3
      <4>5. h.next[f[n - 1]] \in Threads
        BY <4>3, <4>4, LinkedAt
      <4>. QED BY <4>1, <4>3, <4>5 DEF After
    <3>2. f \in Injection(1 .. N, Threads \ {rear})
      <4>1. \A n \in 1 .. N : f[n] \in Threads \ {rear}
        BY <1>f, <3>1
      <4>2. f = [n \in 1 .. N |-> f[n]]
        BY DEF Follows, N
      <4>3. f \in [1 .. N -> Threads \ {rear}]
        BY <4>1, <4>2
      <4>4. \A n, m \in 1 .. N : f[n] = f[m] => n = m
        <5>1. ASSUME NEW n \in 1 .. N, NEW m \in 1 .. N, n < m PROVE f[n] # f[m]
          BY <1>2, <3>1, <4>1, <5>1
        <5>. QED BY <5>1, <1>n
      <4>. QED BY <4>3, <4>4 DEF Injection, IsInjective
    <3>3. IsFiniteSet(Threads \ {rear}) /\ Cardinality(Threads \ {rear}) = N - 1
      BY <2>1, FiniteAssumption, FS_RemoveElement DEF N
    <3>4. Cardinality(1 .. N) = N
      BY <1>n, FS_Interval
    <3>5. Cardinality(1 .. N) <= Cardinality(Threads \ {rear})
      BY <3>2, <3>3, FS_Injection
    <3>. QED BY <1>n, <3>3, <3>4, <3>5
  <2>. DEFINE S == {n \in 1 .. N : f[n] # NULL /\ pos[t] <= pos[f[n]]}
  <2>3. PICK n \in S : \A m \in S : n <= m
    BY <1>s, <2>1, <2>2
  <2>4. f[n] \in Threads /\ on[f[n]] = q
    BY <1>f, <1>1, <2>3
  <2>5. CASE n = 1
    <3>1. pos[t] = pos[front]
      BY <1>f, <2>1, <2>3, <2>5
    <3>. QED BY <1>3, <1>f, <2>4, <2>5, <3>1 DEF Linked
  <2>6. CASE n # 1
    <3>1. n - 1 \in 1 .. N /\ n - 1 \notin S /\ f[n] = After(h, f[n - 1])
      BY <1>n, <1>f, <2>3, <2>6
    <3>2. /\ f[n - 1] \in Threads /\ on[f[n - 1]] = q /\ h.next[f[n - 1]] = f[n]
          /\ pos[f[n - 1]] < pos[t]
      BY <1>f, <1>1, <2>4, <3>1 DEF After
    <3>3. f[n - 1] # rear
      BY <2>1, <3>2
    <3>4. pos[f[n]] <= pos[t]
      BY <1>3, <3>2, <3>3 DEF Linked
    <3>5. pos[f[n]] = pos[t]
      BY <2>3, <2>4, <3>4
    <3>. QED BY <1>3, <2>4, <3>5 DEF Linked
  <2>. QED BY <2>5, <2>6
<1>4. ASSUME NEW n \in 1 .. N, f[n] # NULL PROVE f[n] \in Threads /\ on[f[n]] = q
  BY <1>1, <1>4, <1>f
<1>. QED BY <1>3, <1>4 DEF N

\* When the links are lists, Chain gives the threads placed on a queue and each
\* queue is well formed.
LEMMA ChainsAreLists ==
  ASSUME mem \in Heap, NEW on \in Places, Lists(mem, on), NEW q \in Queues
  PROVE  Chain(q) = {t \in Threads : on[t] = q} /\ WellFormed(q)
<1>1. PICK pos \in [Threads -> Nat] : \A r \in Queues : Linked(mem, r, on, pos)
  BY DEF Lists
<1>2. Chain(q) = {t \in Threads : on[t] = q}
  <2>1. Nth(q) = NthIn(mem, q)
    BY DEF Nth, NthIn
  <2>. QED BY <1>1, <2>1, NthFollows, FollowsReaches DEF Chain
<1>3. mem.queue[q].front \in ThreadOrNull /\ mem.queue[q].rear \in ThreadOrNull
  BY DEF Heap
<1>4. CASE mem.queue[q].front = NULL
  <2>1. \A t \in Threads : on[t] # q
    BY <1>1, <1>4 DEF Linked
  <2>2. mem.queue[q].rear = NULL
    BY <1>1, <1>3, <2>1 DEF Linked
  <2>3. WellFormed(q)
    BY <1>4, <2>2 DEF WellFormed
  <2>. QED BY <1>2, <2>3
<1>5. CASE mem.queue[q].front # NULL
  <2>1. mem.queue[q].front \in Threads /\ on[mem.queue[q].front] = q
    BY <1>1, <1>3, <1>5 DEF Linked
  <2>2. mem.queue[q].rear \in Threads /\ on[mem.queue[q].rear] = q
    BY <1>1, <2>1, LinkedAt
  <2>3. mem.next[mem.queue[q].rear] = NULL
    BY <1>1, <2>2, LinkedAt
  <2>. QED BY <1>2, <1>5, <2>2, <2>3 DEF WellFormed
<1>. QED BY <1>2, <1>4, <1>5

-----------------------------------------------------------------------------
\* The statements of a library call before which no thread is in the middle of
\* an enqueue, a dequeue, a wake-up or an exit.
CallBoundaries == {"user", "schedule", "returned", "join_test", "join_value", "join_run",
                   "lock_test", "unlock_test"}

\* The signal stays out of the windows.
WindowsClosed == Preemptible \subseteq CallBoundaries

USE LevelsAssumption, CycleAssumption

-----------------------------------------------------------------------------
\* A thread that is not running was switched away at a boundary.
AtBoundaries ==
  /\ phase = "setup" => currentThread = NULL
  /\ \A t \in Threads : pc[t] \in CallBoundaries \/ (t = currentThread /\ sched = "idle")

\* A step of a thread is a step of the current one and touches no other's call.
LEMMA ThreadFrame ==
  ASSUME TypeInv, NEW t \in Threads, LibraryStep(t) \/ ClientStep(t)
  PROVE  /\ phase = "live" /\ sched = "idle" /\ currentThread = t
         /\ currentThread' = t /\ phase' # "setup"
         /\ \A u \in Threads \ {t} : /\ pc'[u] = pc[u]
                                    /\ call'[u] = call[u]
                                    /\ holds'[u] = holds[u]
         /\ CallSchedule(t) \/ (sched' = "idle" /\ scan' = scan)
<1>. USE DEF At, Goto, Begin, Return
<1>t. /\ pc \in [Threads -> PCs] /\ call \in [Threads -> CallRecord]
      /\ holds \in [Threads -> SUBSET Mutexes]
  BY DEF TypeInv, TypeOK
<1>1. ASSUME LibraryStep(t)
      PROVE  /\ At(t, pc[t]) /\ currentThread' = currentThread /\ phase' # "setup"
             /\ \A u \in Threads \ {t} : pc'[u] = pc[u] /\ call'[u] = call[u]
             /\ CallSchedule(t) \/ (sched' = "idle" /\ scan' = scan)
  <2>1. call[t].op \in {"create", "lock", "unlock"} \/ ~EnqueueRear(t)
    BY OpAt DEF EnqueueRear, EnqueuePCs
  <2>. QED
    BY <1>1, <1>t, <2>1 DEF LibraryStep, CallSchedule, EnqueueTest, EnqueueFront, EnqueueNext,
       EnqueueRear, ExitValue, JoinTest, JoinValue, JoinRun, LockTest, LockBlock, UnlockTest,
       DequeueFront, DequeueNext, DequeueRear, UnlockState, UnlockFlag, schedulerVars
<1>2. ASSUME LibraryStep(t)
      PROVE  \A u \in Threads \ {t} : holds'[u] = holds[u]
  BY <1>2, <1>t DEF LibraryStep, CallSchedule, EnqueueTest, EnqueueFront, EnqueueNext,
     EnqueueRear, ExitValue, JoinTest, JoinValue, JoinRun, LockTest, LockBlock, UnlockTest,
     DequeueFront, DequeueNext, DequeueRear, UnlockState, UnlockFlag
<1>3. ASSUME ClientStep(t)
      PROVE  /\ At(t, pc[t]) /\ currentThread' = currentThread /\ phase' # "setup"
             /\ \A u \in Threads \ {t} : pc'[u] = pc[u] /\ call'[u] = call[u] /\ holds'[u] = holds[u]
             /\ sched' = "idle" /\ scan' = scan
  BY <1>3, <1>t DEF ClientStep, Create, Join, Yield, Exit, Lock, Unlock, Finish, schedulerVars,
     clientVars
<1>. QED BY <1>1, <1>2, <1>3

\* A thread changes over only at a boundary: schedule() is called there, and the
\* signal arrives there.
LEMMA BoundariesStep ==
  ASSUME WindowsClosed, TypeInv, AtBoundaries, Next
  PROVE  AtBoundaries'
<1>. USE DEF AtBoundaries
<1>t. pc \in [Threads -> PCs] /\ call \in [Threads -> CallRecord]
  BY DEF TypeInv, TypeOK
<1>1. ASSUME NEW t \in Threads, FirstCreate(t) PROVE AtBoundaries'
  BY <1>1 DEF FirstCreate, clientVars, TypeInv, Current, CallBoundaries
<1>2. ASSUME NEW t \in Threads, LibraryStep(t) \/ ClientStep(t), ~CallSchedule(t) PROVE AtBoundaries'
  BY <1>2, ThreadFrame
<1>3. ASSUME NEW t \in Threads, CallSchedule(t) PROVE AtBoundaries'
  <2>1. LibraryStep(t)
    BY <1>3 DEF LibraryStep
  <2>2. call[t].op \in {"yield", "exit", "join", "lock"}
    BY <1>3, OpAt DEF CallSchedule, At
  <2>3. pc'[t] \in CallBoundaries
    BY <1>3, <1>t, <2>2 DEF CallSchedule, Goto, AfterSchedule, CallBoundaries
  <2>. QED BY <2>1, <2>3, ThreadFrame
<1>4. CASE SchedulerStep
  <2>1. sched # "idle" /\ UNCHANGED <<pc, phase>>
    BY <1>4 DEF SchedulerStep, MaintainNextLevel, MaintainKeep, MaintainPromote, Dispatch,
       DispatchLast, DispatchAlone, DispatchYield, DispatchExited, DispatchKeep, DispatchExpired,
       DispatchBlocked, Requeue, SwitchTo, LeaveSchedule, clientVars
  <2>. QED BY <2>1 DEF TypeInv, Current
<1>5. CASE Tick
  BY <1>5 DEF Tick, WindowsClosed, clientVars
<1>6. CASE TickIgnored \/ Ended
  BY <1>6 DEF TickIgnored, Ended, vars, schedulerVars, clientVars
<1>. QED BY <1>1, <1>2, <1>3, <1>4, <1>5, <1>6 DEF Next, LibraryStep

\* No state becomes NEW again, and schedule() changes no state to EXITED.
LEMMA SchedulerFrame ==
  ASSUME TypeInv, SchedulerStep \/ Tick \/ TickIgnored \/ Ended
  PROVE  /\ UNCHANGED <<phase, retval, flag, pc, call, holds>>
         /\ \A u \in Threads : \/ threadState'[u] = threadState[u]
                               \/ threadState'[u] \in {"QUEUED", "RUNNING"}
         /\ \/ currentThread' = currentThread
            \/ currentThread' \in Threads /\ threadState'[currentThread'] = "RUNNING"
         /\ currentThread' # currentThread => sched' = "idle" /\ currentThread \in Threads
<1>t. /\ threadState \in [Threads -> States] /\ mem \in Heap /\ priority \in [Threads -> Levels]
      /\ phase # "setup" => currentThread \in Threads
      /\ sched # "idle" => currentThread \in Threads
  BY DEF TypeInv, TypeOK, Heap, Current
<1>1. CASE Tick \/ TickIgnored \/ Ended
  BY <1>1 DEF Tick, TickIgnored, Ended, vars, schedulerVars, blockVars, clientVars
<1>2. CASE MaintainNextLevel \/ MaintainKeep \/ MaintainPromote
  BY <1>2 DEF MaintainNextLevel, MaintainKeep, MaintainPromote, blockVars, clientVars
<1>3. CASE Dispatch
  <2>1. sched # "idle" /\ UNCHANGED <<phase, retval, flag, pc, call, holds>>
    BY <1>3 DEF Dispatch, DispatchLast, DispatchAlone, DispatchYield, DispatchExited, DispatchKeep,
       DispatchExpired, DispatchBlocked, Requeue, SwitchTo, LeaveSchedule, clientVars
  <2>2. ASSUME NEW h \in Heap, NEW st \in [Threads -> States], SwitchTo(h, st),
               \A u \in Threads : st[u] = threadState[u] \/ st[u] = "QUEUED"
        PROVE  /\ \A u \in Threads : \/ threadState'[u] = threadState[u]
                                     \/ threadState'[u] \in {"QUEUED", "RUNNING"}
               /\ currentThread' \in Threads /\ threadState'[currentThread'] = "RUNNING"
               /\ sched' = "idle"
    <3>1. PICK i \in Levels : /\ IsNextLevel(h, i)
                              /\ currentThread' = h.queue[i].front
                              /\ threadState' = [st EXCEPT ![h.queue[i].front] = "RUNNING"]
      BY <2>2 DEF SwitchTo
    <3>2. h.queue[i].front \in Threads
      BY <3>1 DEF IsNextLevel, Heap, Queues
    <3>. QED BY <2>2, <3>1, <3>2 DEF SwitchTo, LeaveSchedule
  <2>3. ASSUME NEW p \in Levels, Requeue(currentThread, p)
        PROVE  /\ \A u \in Threads : \/ threadState'[u] = threadState[u]
                                     \/ threadState'[u] \in {"QUEUED", "RUNNING"}
               /\ currentThread' \in Threads /\ threadState'[currentThread'] = "RUNNING"
               /\ sched' = "idle"
    <3>1. Enqueue(mem, p, currentThread) \in Heap
      BY <1>t, <2>1, EnqueueType DEF Queues
    <3>2. [threadState EXCEPT ![currentThread] = "QUEUED"] \in [Threads -> States]
      BY <1>t DEF States
    <3>. QED BY <1>t, <2>1, <2>2, <2>3, <3>1, <3>2 DEF Requeue
  <2>4. CASE DispatchLast
    BY <1>t, <2>1, <2>4 DEF DispatchLast
  <2>5. ASSUME NEW e \in Elapsed, DispatchAlone(e) \/ DispatchKeep(e)
        PROVE  UNCHANGED <<threadState, currentThread>>
    BY <2>5 DEF DispatchAlone, DispatchKeep
  <2>6. CASE DispatchYield
    BY <1>t, <2>1, <2>3, <2>6 DEF DispatchYield
  <2>7. ASSUME NEW e \in Elapsed, DispatchExpired(e)
        PROVE  \E p \in Levels : Requeue(currentThread, p)
    BY <1>t, <2>1, <2>7 DEF DispatchExpired, Demoted, Levels
  <2>8. CASE DispatchExited
    BY <1>t, <2>1, <2>2, <2>8 DEF DispatchExited
  <2>9. ASSUME NEW e \in Elapsed, DispatchBlocked(e)
        PROVE  SwitchTo(mem, threadState)
    BY <2>9 DEF DispatchBlocked
  <2>. QED BY <1>t, <1>3, <2>1, <2>2, <2>3, <2>4, <2>5, <2>6, <2>7, <2>8, <2>9 DEF Dispatch
<1>. QED BY <1>1, <1>2, <1>3 DEF SchedulerStep

\* A thread that was never created is in no call and not the current one.
NewInv ==
  \A t \in Threads : threadState[t] = "NEW" => call[t].op = "none" /\ t # currentThread

LEMMA NewStep ==
  ASSUME TypeInv, AtBoundaries, NewInv, Next
  PROVE  NewInv'
<1>. USE DEF NewInv
<1>t. threadState \in [Threads -> States] /\ call \in [Threads -> CallRecord]
  BY DEF TypeInv, TypeOK
<1>1. ASSUME NEW t \in Threads, FirstCreate(t) PROVE NewInv'
  BY <1>1, <1>t DEF FirstCreate, clientVars
<1>2. ASSUME NEW t \in Threads, LibraryStep(t) \/ ClientStep(t) PROVE NewInv'
  <2>1. /\ currentThread = t /\ currentThread' = t
        /\ \A u \in Threads \ {t} : call'[u] = call[u]
    BY <1>2, ThreadFrame
  <2>2. \A u \in Threads : threadState'[u] = "NEW" => threadState[u] = "NEW"
    <3>1. pc[t] = "unlock_state" => call[t].elem \in Threads
      BY DEF TypeInv, CallsMatch, CallMatchesPC
    <3>2. CASE LibraryStep(t)
      BY <1>t, <3>1, <3>2 DEF LibraryStep, CallSchedule, EnqueueTest, EnqueueFront,
         EnqueueNext, EnqueueRear, ExitValue, JoinTest, JoinValue, JoinRun, LockTest, LockBlock,
         UnlockTest, DequeueFront, DequeueNext, DequeueRear, UnlockState, UnlockFlag, SetState, At,
         blockVars
    <3>3. CASE ClientStep(t)
      BY <1>t, <3>3 DEF ClientStep, Create, Join, Yield, Exit, Lock, Unlock, Finish, SetState, blockVars
    <3>. QED BY <1>2, <3>2, <3>3
  <2>. QED BY <2>1, <2>2
<1>3. CASE SchedulerStep \/ Tick \/ TickIgnored \/ Ended
  BY <1>3, SchedulerFrame
<1>. QED BY <1>1, <1>2, <1>3 DEF Next

-----------------------------------------------------------------------------
\* u has passed its value to my_pthread_exit for good.
Gone(u) == call[u].op = "exit" /\ pc[u] # "exit_value"

\* JoinDeliversRetval is inductive with: retval of a thread that is Gone is what
\* it passed, of any other it is NULL, and a join reads it of a thread that is
\* Gone only.
JoinInv ==
  \A t \in Threads :
    /\ retval[t] = IF Gone(t) THEN call[t].arg ELSE NULL
    /\ pc[t] \in {"join_value", "join_run"} => Gone(call[t].arg)
    /\ pc[t] = "join_run" => call[t].got = retval[call[t].arg]

LEMMA JoinStep ==
  ASSUME WindowsClosed, TypeInv, TimerInv, AtBoundaries, NewInv, JoinInv, Next
  PROVE  JoinInv'
<1>t. /\ call \in [Threads -> CallRecord] /\ pc \in [Threads -> PCs]
      /\ retval \in [Threads -> Values \cup {NULL}]
  BY DEF TypeInv, TypeOK
\* Nothing happens to a thread that is Gone, and thread t is at a new statement
\* at which a joiner has what it should.
<1>k. ASSUME NEW t \in Threads,
             \A u \in Threads \ {t} : call'[u] = call[u] /\ pc'[u] = pc[u] /\ retval'[u] = retval[u],
             Gone(t) => Gone(t)' /\ UNCHANGED call /\ retval'[t] = retval[t],
             retval'[t] = IF Gone(t)' THEN call'[t].arg ELSE NULL,
             pc'[t] \in {"join_value", "join_run"} =>
               call[t].op = "join" /\ call'[t].arg = call[t].arg /\ Gone(call[t].arg),
             pc'[t] = "join_run" => call'[t].got = retval[call[t].arg]
      PROVE  JoinInv'
  <2>1. \A u \in Threads : Gone(u) => Gone(u)' /\ retval'[u] = retval[u] /\ call'[u] = call[u]
    BY <1>k DEF Gone
  <2>2. \A u \in Threads : pc[u] \in {"join_value", "join_run"} => call[u].arg \in Threads
    BY OpAt DEF TypeInv, CallsMatch, CallMatchesPC
  <2>3. call[t].op = "join" => call[t].arg \in Threads
    BY DEF TypeInv, CallsMatch, CallMatchesPC
  <2>4. ASSUME NEW u \in Threads \ {t}
        PROVE  /\ retval'[u] = IF Gone(u)' THEN call'[u].arg ELSE NULL
               /\ pc'[u] \in {"join_value", "join_run"} => Gone(call[u].arg)' /\ call'[u].arg = call[u].arg
               /\ pc'[u] = "join_run" => call'[u].got = retval'[call'[u].arg]
    BY <1>k, <2>1, <2>2 DEF JoinInv, Gone
  <2>5. /\ pc'[t] \in {"join_value", "join_run"} => Gone(call[t].arg)' /\ call'[t].arg = call[t].arg
        /\ pc'[t] = "join_run" => call'[t].got = retval'[call'[t].arg]
    BY <1>k, <2>1, <2>3
  <2>. QED BY <1>k, <2>4, <2>5 DEF JoinInv, Gone
<1>1. ASSUME NEW t \in Threads, FirstCreate(t) PROVE JoinInv'
  BY <1>1 DEF FirstCreate, clientVars, JoinInv, Gone
<1>2. ASSUME NEW t \in Threads, LibraryStep(t) PROVE JoinInv'
  <2>f. /\ currentThread = t
        /\ \A u \in Threads \ {t} : call'[u] = call[u] /\ pc'[u] = pc[u]
    BY <1>2, ThreadFrame
  <2>r. retval[t] = IF Gone(t) THEN call[t].arg ELSE NULL
    BY DEF JoinInv
  <2>1. CASE CallSchedule(t)
    <3>1. call[t].op \in {"yield", "exit", "join", "lock"}
      BY <2>1, OpAt DEF CallSchedule, At
    <3>2. /\ pc'[t] = AfterSchedule(call[t].op) /\ pc[t] = "schedule"
          /\ call[t].op # "yield" => call' = call
          /\ call[t].op = "yield" => call'[t].op = "none"
          /\ retval' = retval
      BY <1>t, <2>1 DEF CallSchedule, Goto, At, NoCall, NewCall, blockVars
    <3>. QED BY <1>k, <2>f, <2>r, <3>1, <3>2 DEF AfterSchedule, Gone
  <2>2. CASE ExitValue(t)
    <3>1. call[t].op = "exit" /\ pc[t] = "exit_value"
      BY <2>2, OpAt DEF ExitValue, At
    <3>2. pc'[t] = "schedule" /\ call' = call /\ retval' = [retval EXCEPT ![t] = call[t].arg]
      BY <1>t, <2>2 DEF ExitValue, Goto
    <3>. QED BY <1>t, <1>k, <2>f, <3>1, <3>2 DEF Gone
  <2>3. CASE JoinTest(t)
    <3>1. call[t].op = "join" /\ call[t].arg \in Threads
      BY <2>3, OpAt DEF JoinTest, At, TypeInv, CallsMatch, CallMatchesPC
    <3>2. /\ pc'[t] = IF threadState[call[t].arg] = "EXITED" THEN "join_value" ELSE "schedule"
          /\ call' = call /\ retval' = retval
      BY <1>t, <2>3 DEF JoinTest, Goto, blockVars
    <3>3. threadState[call[t].arg] = "EXITED" => Gone(call[t].arg)
      BY <2>f, <3>1 DEF TimerInv, AtBoundaries, CallBoundaries, Gone
    <3>. QED BY <1>k, <2>f, <2>r, <3>1, <3>2, <3>3 DEF Gone
  <2>4. CASE JoinValue(t)
    <3>1. /\ call[t].op = "join" /\ pc[t] = "join_value" /\ Gone(call[t].arg)
          /\ retval' = retval /\ pc'[t] = "join_run"
      BY <1>t, <2>4, OpAt DEF JoinValue, At, Goto, blockVars, JoinInv
    <3>. DEFINE c == [call[t] EXCEPT !.got = retval[call[t].arg]]
    <3>2. c.op = "join" /\ c.arg = call[t].arg /\ c.got = retval[call[t].arg]
      <4>1. call[t] \in CallRecord
        BY <1>t
      <4>. QED BY <3>1, <4>1 DEF CallRecord
    <3>3. call' = [call EXCEPT ![t] = c]
      BY <2>4 DEF JoinValue
    <3>. HIDE DEF c
    <3>4. call'[t] = c
      BY <1>t, <3>3
    <3>. QED BY <1>k, <2>f, <2>r, <3>1, <3>2, <3>4 DEF Gone
  <2>5. CASE \/ EnqueueTest(t) \/ EnqueueFront(t) \/ EnqueueNext(t) \/ EnqueueRear(t)
             \/ JoinRun(t) \/ LockTest(t) \/ LockBlock(t) \/ UnlockTest(t)
             \/ DequeueFront(t) \/ DequeueNext(t) \/ DequeueRear(t) \/ UnlockState(t)
             \/ UnlockFlag(t)
    <3>1. call[t].op # "exit" /\ retval' = retval
      BY <2>5, OpAt DEF EnqueueTest, EnqueueFront, EnqueueNext, EnqueueRear, JoinRun,
         LockTest, LockBlock, UnlockTest, DequeueFront, DequeueNext, DequeueRear, UnlockState,
         UnlockFlag, At, EnqueuePCs, blockVars
    <3>2. pc'[t] \notin {"join_value", "join_run"}
      <4>1. call[t].op \in {"create", "lock", "unlock"} \/ ~EnqueueRear(t)
        BY OpAt DEF EnqueueRear, At, EnqueuePCs
      <4>. QED
        BY <1>t, <2>5, <4>1 DEF EnqueueTest, EnqueueFront, EnqueueNext, EnqueueRear, JoinRun,
           LockTest, LockBlock, UnlockTest, DequeueFront, DequeueNext, DequeueRear, UnlockState,
           UnlockFlag, At, Goto, Return
    <3>3. call'[t].op # "exit"
      <4>1. call[t].op \in {"create", "lock", "unlock"} \/ ~EnqueueRear(t)
        BY OpAt DEF EnqueueRear, At, EnqueuePCs
      <4>2. CASE LockBlock(t) \/ DequeueFront(t) \/ UnlockState(t)
        <5>1. call[t] \in CallRecord
          BY <1>t
        <5>2. call'[t].op = call[t].op
          BY <1>t, <4>2, <5>1 DEF LockBlock, DequeueFront, UnlockState, CallRecord
        <5>. QED BY <3>1, <5>2
      <4>3. CASE EnqueueRear(t)
        <5>1. call[t].op = "create" => Return(t)
          BY <4>3 DEF EnqueueRear
        <5>2. call[t].op = "lock" => Begin(t, "lock", call[t].arg)
          BY <4>3 DEF EnqueueRear
        <5>3. call[t].op = "unlock" => UNCHANGED call
          BY <4>3 DEF EnqueueRear
        <5>. QED BY <1>t, <3>1, <4>1, <4>3, <5>1, <5>2, <5>3 DEF Return, Begin, NoCall, NewCall
      <4>4. CASE JoinRun(t) \/ LockTest(t) \/ UnlockFlag(t)
        BY <1>t, <3>1, <4>4 DEF JoinRun, LockTest, UnlockFlag, Return, NoCall, NewCall
      <4>5. CASE \/ EnqueueTest(t) \/ EnqueueFront(t) \/ EnqueueNext(t) \/ UnlockTest(t)
                 \/ DequeueNext(t) \/ DequeueRear(t)
        BY <3>1, <4>5 DEF EnqueueTest, EnqueueFront, EnqueueNext, UnlockTest, DequeueNext, DequeueRear
      <4>. QED BY <2>5, <4>2, <4>3, <4>4, <4>5
    <3>. QED BY <1>k, <2>f, <2>r, <3>1, <3>2, <3>3 DEF Gone
  <2>. QED BY <1>2, <2>1, <2>2, <2>3, <2>4, <2>5 DEF LibraryStep
<1>3. ASSUME NEW t \in Threads, ClientStep(t) PROVE JoinInv'
  <2>f. /\ currentThread = t
        /\ \A u \in Threads \ {t} : call'[u] = call[u] /\ pc'[u] = pc[u]
    BY <1>3, ThreadFrame
  <2>r. retval[t] = IF Gone(t) THEN call[t].arg ELSE NULL
    BY DEF JoinInv
  <2>1. CASE Finish(t)
    BY <2>1 DEF Finish, blockVars, clientVars, JoinInv, Gone
  <2>2. ASSUME NEW v \in Values \cup {NULL}, Exit(t, v) PROVE JoinInv'
    <3>1. call[t].op = "none" /\ retval' = retval
      BY <2>2, OpAt DEF Exit, At
    <3>2. /\ pc'[t] = IF v = NULL THEN "schedule" ELSE "exit_value"
          /\ call'[t] = NewCall("exit", v, NULL, NULL)
      BY <1>t, <2>2 DEF Exit, Goto, Begin
    <3>. QED BY <1>k, <2>f, <2>r, <3>1, <3>2 DEF Gone, NewCall
  <2>3. ASSUME NEW u \in Threads, Create(t, u) PROVE JoinInv'
    <3>1. call[t].op = "none" /\ ~Gone(u)
      BY <2>3, OpAt DEF Create, At, NewInv, Gone
    <3>2. retval[u] = NULL
      BY <3>1 DEF JoinInv
    <3>3. retval' = retval /\ pc'[t] = "enqueue" /\ call'[t].op = "create"
      BY <1>t, <2>3, <3>2 DEF Create, Goto, NewCall
    <3>. QED BY <1>k, <2>f, <2>r, <3>1, <3>3 DEF Gone
  <2>4. ASSUME NEW m \in Mutexes, Lock(t, m) \/ Unlock(t, m) PROVE JoinInv'
    <3>1. call[t].op = "none" /\ retval' = retval
      BY <2>4, OpAt DEF Lock, Unlock, At, blockVars
    <3>2. pc'[t] \in {"lock_test", "unlock_test"} /\ call'[t].op \in {"lock", "unlock"}
      BY <1>t, <2>4 DEF Lock, Unlock, Goto, Begin, NewCall
    <3>. QED BY <1>k, <2>f, <2>r, <3>1, <3>2 DEF Gone
  <2>5. ASSUME NEW u \in Threads, Join(t, u) \/ Yield(t) PROVE JoinInv'
    <3>1. call[t].op = "none" /\ retval' = retval
      BY <2>5, OpAt DEF Join, Yield, At
    <3>2. pc'[t] \in {"join_test", "schedule"} /\ call'[t].op \in {"join", "yield"}
      BY <1>t, <2>5 DEF Join, Yield, Goto, Begin, NewCall
    <3>. QED BY <1>k, <2>f, <2>r, <3>1, <3>2 DEF Gone
  <2>. QED BY <1>3, <2>1, <2>2, <2>3, <2>4, <2>5 DEF ClientStep
<1>4. CASE SchedulerStep \/ Tick \/ TickIgnored \/ Ended
  BY <1>4, SchedulerFrame DEF JoinInv, Gone
<1>. QED BY <1>1, <1>2, <1>3, <1>4 DEF Next

\* A join hands over the value its target passed to my_pthread_exit, NULL if none,
\* for any constants with the windows closed: the store of retval is past when a
\* joiner sees the state EXITED.
THEOREM JoinDelivers ==
  ASSUME WindowsClosed
  PROVE  Spec => []JoinDeliversRetval
<1>. DEFINE Inv == TimerInv /\ AtBoundaries /\ NewInv /\ JoinInv
<1>1. Init => Inv
  BY DEF Init, TimerInv, TimerArmed, AtBoundaries, NewInv, JoinInv, Gone, CallBoundaries, NoCall, NewCall
<1>2. TypeInv /\ Inv /\ [Next]_vars => Inv'
  <2>1. ASSUME Inv, UNCHANGED vars PROVE Inv'
    BY <2>1 DEF TimerInv, TimerArmed, AtBoundaries, NewInv, JoinInv, Gone, vars, schedulerVars,
                blockVars, clientVars
  <2>. QED BY <2>1, TimerStep, BoundariesStep, NewStep, JoinStep
<1>3. TypeInv /\ Inv => JoinDeliversRetval
  <2>1. ASSUME TypeInv, JoinInv, NEW t \in Threads, pc[t] = "join_run"
        PROVE  call[t].got = call[call[t].arg].arg
    <3>1. call[t].arg \in Threads
      BY <2>1, OpAt DEF TypeInv, CallsMatch, CallMatchesPC
    <3>. QED BY <2>1, <3>1 DEF JoinInv
  <2>. QED BY <2>1 DEF JoinDeliversRetval
<1>. QED BY <1>1, <1>2, <1>3, TypeInvariance, PTL DEF Spec

-----------------------------------------------------------------------------
(***************************************************************************)
(* QueuesMatchStates speaks of the states in which the signal may arrive.  *)
(* Between them a running thread may have a thread in its hands, off every *)
(* list, and stores of an enqueue or dequeue still to do.                  *)
(***************************************************************************)

\* The queue a thread belongs on by its state, NULL for none.
HomeIn(st, pr, t) ==
  CASE st[t] = "QUEUED"  -> pr[t]
    [] st[t] = "BLOCKED" -> call[t].arg
    [] OTHER             -> NULL

Home(t) == HomeIn(threadState, priority, t)

\* The current thread is at one of the statements in ps.
Running(ps) == currentThread \in Threads /\ pc[currentThread] \in ps

\* The current thread has t in its hands: it is about to enqueue it, or has
\* dequeued it and not yet changed its state.
InHand(t) ==
  /\ Running({"enqueue", "enqueue_front", "enqueue_next",
              "dequeue_next", "dequeue_rear", "unlock_state"})
  /\ t = call[currentThread].elem

Place(t) == IF InHand(t) THEN NULL ELSE Home(t)

On == [t \in Threads |-> Place(t)]

\* rear of queue q as dequeue() leaves it, once front is past the first element.
RearFixed(h, q) ==
  [next |-> h.next,
   queue |-> [h.queue EXCEPT
                ![q] = [front |-> @.front,
                        rear |-> IF @.front = NULL THEN NULL ELSE @.rear]]]

\* The heap with the stores still to do of an enqueue or dequeue at statement p,
\* whose locals are c.
Settle(h, p, c) ==
  CASE p = "enqueue_rear" -> [h EXCEPT !.queue[c.queue].rear = c.elem]
    [] p = "dequeue_next" -> RearFixed([h EXCEPT !.next[c.elem] = NULL], c.arg)
    [] p = "dequeue_rear" -> RearFixed(h, c.arg)
    [] OTHER              -> h

Settled == IF currentThread \in Threads
           THEN Settle(mem, pc[currentThread], call[currentThread])
           ELSE mem

\* The settled links are lists, and each thread is on the one it belongs on.
ListsInv == Lists(Settled, On)

\* What the states say of the threads and of the calls they are in.
StatesInv ==
  /\ \A t \in Threads \ {currentThread} :
       threadState[t] \in {"NEW", "QUEUED", "BLOCKED", "EXITED"}
  /\ currentThread \in Threads =>
       /\ threadState[currentThread] # "QUEUED"
       /\ threadState[currentThread] = "BLOCKED" /\ sched = "idle" =>
            pc[currentThread] \in EnqueuePCs \cup {"schedule"}
  /\ phase = "setup" => \A t \in Threads : threadState[t] = "NEW" /\ pc[t] = "user"
  /\ \A t \in Threads :
       /\ threadState[t] \in {"NEW", "EXITED"} => holds[t] = {}
       /\ threadState[t] = "BLOCKED" => call[t].op = "lock"
       /\ call[t].op = "exit" => threadState[t] = "EXITED"

\* What the tests of a call have found still holds at the stores they guard: the
\* process never follows NULL.
PendingInv ==
  /\ phase # "crashed"
  /\ currentThread \in Threads =>
       LET c == call[currentThread]
           p == pc[currentThread]
       IN  /\ p \in EnqueuePCs => Home(c.elem) = c.queue
           /\ p \in EnqueuePCs /\ c.op = "lock" =>
                c.elem = currentThread /\ threadState[currentThread] = "BLOCKED"
           /\ p = "enqueue_front" => mem.queue[c.queue].rear = NULL
           /\ p = "enqueue_next"  => mem.queue[c.queue].rear # NULL
           /\ p = "dequeue"       => mem.queue[c.arg].front # NULL
           /\ p \in {"dequeue_next", "dequeue_rear", "unlock_state"} =>
                threadState[c.elem] = "BLOCKED" /\ call[c.elem].arg = c.arg

\* ptr is on the list maintenance() is in, and prev is the thread before it.
ScanInv ==
  sched = "maintenance" =>
    /\ scan.level # 0
    /\ scan.ptr # NULL =>
         /\ Home(scan.ptr) = scan.level
         /\ scan.ptr # mem.queue[scan.level].front =>
              /\ scan.prev # NULL
              /\ Home(scan.prev) = scan.level
              /\ mem.next[scan.prev] = scan.ptr

\* QueuesMatchStates is inductive with all of these.
QueueInv == AtBoundaries /\ TimerInv /\ NewInv /\ StatesInv /\ PendingInv /\ ScanInv /\ ListsInv

\* schedule() finds nothing queued while the current thread is blocked: it
\* would let it go on as if it had the mutex.
Deadlocked == sched = "dispatch" /\ ~SomeQueued(mem) /\ threadState[currentThread] = "BLOCKED"

\* The places and the settled heap are what Lists speaks of.
LEMMA PlacesType ==
  ASSUME TypeInv, StatesInv
  PROVE  /\ \A t \in Threads : Home(t) \in Queues \cup {NULL}
         /\ On \in Places
         /\ Settled \in Heap
<1>1. ASSUME NEW t \in Threads PROVE Home(t) \in Queues \cup {NULL}
  <2>1. priority[t] \in Queues
    BY DEF TypeInv, TypeOK, Queues
  <2>2. threadState[t] = "BLOCKED" => call[t].arg \in Queues
    BY DEF StatesInv, TypeInv, CallsMatch, CallMatchesPC, Queues
  <2>. QED BY <2>1, <2>2 DEF Home, HomeIn
<1>2. On \in Places
  BY <1>1 DEF On, Place, Places
<1>3. mem \in Heap
  BY DEF TypeInv, TypeOK, Heap
<1>4. ASSUME NEW h \in Heap, NEW q \in Queues PROVE RearFixed(h, q) \in Heap
  BY DEF RearFixed, Heap
<1>5. ASSUME currentThread \in Threads
      PROVE  Settle(mem, pc[currentThread], call[currentThread]) \in Heap
  <2>. DEFINE c == call[currentThread]
              p == pc[currentThread]
  <2>1. p = "enqueue_rear" => c.queue \in Queues /\ c.elem \in Threads
    BY <1>5 DEF TypeInv, CallsMatch, CallMatchesPC, EnqueuePCs
  <2>2. p \in {"dequeue_next", "dequeue_rear"} => c.arg \in Queues /\ c.elem \in Threads
    BY <1>5, OpAt DEF TypeInv, CallsMatch, CallMatchesPC, Queues
  <2>3. CASE p = "enqueue_rear"
    <3>1. [mem EXCEPT !.queue[c.queue].rear = c.elem] \in Heap
      BY <1>3, <2>1, <2>3, HeapLinkType
    <3>. QED BY <2>3, <3>1 DEF Settle
  <2>4. CASE p = "dequeue_next"
    <3>1. [mem EXCEPT !.next[c.elem] = NULL] \in Heap
      BY <1>3, <2>2, <2>4, HeapLinkType
    <3>2. RearFixed([mem EXCEPT !.next[c.elem] = NULL], c.arg) \in Heap
      BY <1>4, <2>2, <2>4, <3>1
    <3>. QED BY <2>4, <3>2 DEF Settle
  <2>5. CASE p = "dequeue_rear"
    BY <1>3, <1>4, <2>2, <2>5 DEF Settle
  <2>6. CASE p \notin {"enqueue_rear", "dequeue_next", "dequeue_rear"}
    BY <1>3, <2>6 DEF Settle
  <2>. QED BY <2>3, <2>4, <2>5, <2>6
<1>. QED BY <1>1, <1>2, <1>3, <1>5 DEF Settled

\* At a boundary nothing is in hand and nothing is still to do.
LEMMA AtRest ==
  ASSUME ~Running(PCs \ CallBoundaries), currentThread \in Threads => pc[currentThread] \in PCs
  PROVE  Settled = mem /\ On = [t \in Threads |-> Home(t)]
<1>1. currentThread \in Threads => pc[currentThread] \in CallBoundaries
  BY DEF Running
<1>2. Settled = mem
  BY <1>1 DEF Settled, Settle, CallBoundaries
<1>3. \A t \in Threads : Place(t) = Home(t)
  BY <1>1 DEF Place, InHand, Running, CallBoundaries
<1>. QED BY <1>2, <1>3 DEF On

\* A step that changes neither the settled heap nor the places.
LEMMA SameLists ==
  ASSUME ListsInv, Settled' = Settled, \A u \in Threads : Place(u)' = Place(u)
  PROVE  ListsInv'
<1>1. On' = On
  BY DEF On
<1>. QED BY <1>1 DEF ListsInv

\* Run queues hold queued threads and wait queues blocked ones, whatever the
\* states st and the priorities pr.
LEMMA HomeCases ==
  ASSUME TypeInv, NEW st \in [Threads -> States], NEW pr \in [Threads -> Levels],
         NEW t \in Threads, st[t] = "BLOCKED" => call[t].op = "lock"
  PROVE  /\ HomeIn(st, pr, t) \in Queues \cup {NULL}
         /\ \A i \in Levels : HomeIn(st, pr, t) = i <=> st[t] = "QUEUED" /\ pr[t] = i
         /\ \A m \in Mutexes : HomeIn(st, pr, t) = m <=> st[t] = "BLOCKED" /\ call[t].arg = m
         /\ HomeIn(st, pr, t) = NULL <=> st[t] \notin {"QUEUED", "BLOCKED"}
<1>1. st[t] = "BLOCKED" => call[t].arg \in Mutexes
  BY DEF TypeInv, CallsMatch, CallMatchesPC
<1>2. pr[t] \in Levels
  OBVIOUS
<1>. QED BY <1>1, <1>2 DEF HomeIn, Queues

\* schedule() takes the next thread off a run queue: it was queued, and it is now
\* on no list.
LEMMA Switched ==
  ASSUME TypeInv, AtBoundaries, sched # "idle",
         NEW h \in Heap, NEW st \in [Threads -> States], NEW pr \in [Threads -> Levels],
         SwitchTo(h, st), priority' = pr, call' = call, pc' = pc,
         \A t \in Threads : st[t] = "BLOCKED" => call[t].op = "lock",
         Lists(h, [t \in Threads |-> HomeIn(st, pr, t)])
  PROVE  /\ currentThread' \in Threads /\ st[currentThread'] = "QUEUED"
         /\ threadState' = [st EXCEPT ![currentThread'] = "RUNNING"]
         /\ ListsInv'
<1>. DEFINE on == [t \in Threads |-> HomeIn(st, pr, t)]
<1>1. PICK i \in Levels : /\ h.queue[i].front # NULL
                          /\ currentThread' = h.queue[i].front
                          /\ mem' = Dequeue(h, i)
                          /\ threadState' = [st EXCEPT ![h.queue[i].front] = "RUNNING"]
  BY DEF SwitchTo, IsNextLevel
<1>i. i \in Queues
  BY DEF Queues
<1>2. on \in Places
  BY HomeCases DEF Places
<1>3. currentThread' \in Threads /\ on[currentThread'] = i
  <2>1. h.queue[i].front \in ThreadOrNull
    BY <1>i DEF Heap
  <2>2. on[h.queue[i].front] = i
    BY <1>1, <1>i DEF Lists, Linked
  <2>. QED BY <1>1, <2>1, <2>2
<1>4. st[currentThread'] = "QUEUED"
  BY <1>3, HomeCases
<1>5. Lists(mem', [on EXCEPT ![currentThread'] = NULL])
  BY <1>1, <1>2, <1>i, DequeueLists
<1>6. pc' \in [Threads -> PCs] /\ pc'[currentThread'] \in CallBoundaries
  BY <1>3 DEF AtBoundaries, TypeInv, TypeOK
<1>7. Settled' = mem' /\ On' = [t \in Threads |-> Home(t)']
  <2>1. Settled' = mem'
    BY <1>3, <1>6 DEF Settled, Settle, CallBoundaries
  <2>2. \A t \in Threads : Place(t)' = Home(t)'
    BY <1>6 DEF Place, InHand, Running, CallBoundaries
  <2>. QED BY <2>1, <2>2 DEF On
<1>8. \A t \in Threads : Home(t)' = [on EXCEPT ![currentThread'] = NULL][t]
  <2>1. \A t \in Threads : Home(t)' = HomeIn(threadState', pr, t)
    BY DEF Home, HomeIn
  <2>2. \A t \in Threads : t # currentThread' => threadState'[t] = st[t]
    BY <1>1
  <2>3. threadState'[currentThread'] = "RUNNING"
    BY <1>1, <1>3
  <2>. QED BY <1>3, <2>1, <2>2, <2>3 DEF HomeIn
<1>9. On' = [on EXCEPT ![currentThread'] = NULL]
  BY <1>7, <1>8
<1>. QED BY <1>1, <1>3, <1>4, <1>5, <1>7, <1>9 DEF ListsInv

\* The current thread, put away on the run queue of level p, is on its list.
LEMMA RequeueLists ==
  ASSUME TypeInv, QueueInv, sched # "idle", currentThread \in Threads, NEW p \in Levels,
         threadState[currentThread] \in {"YIELD", "JOINING", "RUNNING"},
         NEW st, st = [threadState EXCEPT ![currentThread] = "QUEUED"],
         NEW pr, pr = [priority EXCEPT ![currentThread] = p]
  PROVE  /\ st \in [Threads -> States] /\ pr \in [Threads -> Levels]
         /\ Enqueue(mem, p, currentThread) \in Heap
         /\ Lists(Enqueue(mem, p, currentThread), [t \in Threads |-> HomeIn(st, pr, t)])
<1>t. /\ threadState \in [Threads -> States] /\ priority \in [Threads -> Levels] /\ mem \in Heap
      /\ p \in Queues
  BY DEF TypeInv, TypeOK, Heap, Queues
<1>l. On = [t \in Threads |-> Home(t)] /\ Lists(mem, On) /\ On \in Places
  <2>1. ~Running(PCs \ CallBoundaries) /\ pc[currentThread] \in PCs
    BY DEF Running, QueueInv, AtBoundaries, TypeInv, TypeOK
  <2>. QED BY <2>1, AtRest, PlacesType DEF QueueInv, ListsInv
<1>1. Home(currentThread) = NULL
  BY DEF Home, HomeIn
<1>2. Lists(Enqueue(mem, p, currentThread), [On EXCEPT ![currentThread] = p])
  BY <1>t, <1>l, <1>1, EnqueueLists
<1>3. \A t \in Threads : HomeIn(st, pr, t) = IF t = currentThread THEN p ELSE Home(t)
  BY <1>t DEF HomeIn, Home
<1>4. [On EXCEPT ![currentThread] = p] = [t \in Threads |-> HomeIn(st, pr, t)]
  BY <1>l, <1>3
<1>5. Enqueue(mem, p, currentThread) \in Heap
  BY <1>t, EnqueueType
<1>6. st \in [Threads -> States] /\ pr \in [Threads -> Levels]
  BY <1>t DEF States
<1>. QED BY <1>2, <1>4, <1>5, <1>6

\* Dispatch leaves the lists and the states matching: the current thread goes on
\* unless it is blocked, or is put on the run queue of its new priority, or has
\* exited or is on a wait queue already.
LEMMA DispatchQueues ==
  ASSUME TypeInv, QueueInv, ~Deadlocked, Dispatch
  PROVE  ListsInv' /\ StatesInv'
<1>. USE DEF QueueInv
<1>t. /\ threadState \in [Threads -> States] /\ priority \in [Threads -> Levels] /\ mem \in Heap
      /\ call \in [Threads -> CallRecord]
  BY DEF TypeInv, TypeOK, Heap
<1>s. /\ sched # "idle" /\ UNCHANGED <<phase, pc, call, holds>> /\ currentThread \in Threads
      /\ phase # "setup"
  BY DEF Dispatch, DispatchLast, DispatchAlone, DispatchYield, DispatchExited, DispatchKeep,
     DispatchExpired, DispatchBlocked, Requeue, SwitchTo, LeaveSchedule, clientVars, TypeInv, Current
<1>b. \A t \in Threads : threadState[t] = "BLOCKED" => call[t].op = "lock"
  BY DEF StatesInv
<1>l. Settled = mem /\ On = [t \in Threads |-> Home(t)] /\ Lists(mem, On)
  <2>1. ~Running(PCs \ CallBoundaries) /\ (currentThread \in Threads => pc[currentThread] \in PCs)
    BY <1>s DEF Running, AtBoundaries, TypeInv, TypeOK
  <2>. QED BY <2>1, AtRest DEF ListsInv
\* The current thread goes on.
<1>g. ASSUME UNCHANGED <<currentThread, threadState, priority, mem>>,
             threadState[currentThread] # "BLOCKED"
      PROVE  ListsInv' /\ StatesInv'
  <2>1. Settled' = Settled /\ \A u \in Threads : Place(u)' = Place(u)
    BY <1>g, <1>s DEF Settled, Place, InHand, Running, Home, HomeIn
  <2>2. StatesInv'
    BY <1>g, <1>s DEF StatesInv
  <2>. QED BY <2>1, <2>2, SameLists
\* The current thread, queued by now, blocked or exited, gives way to another.
<1>w. ASSUME NEW h \in Heap, NEW st \in [Threads -> States], NEW pr \in [Threads -> Levels],
             \A t \in Threads \ {currentThread} : st[t] = threadState[t],
             st[currentThread] \in {"QUEUED", "BLOCKED", "EXITED"},
             st[currentThread] = "BLOCKED" => threadState[currentThread] = "BLOCKED",
             st[currentThread] = "EXITED" => threadState[currentThread] = "EXITED",
             call[currentThread].op = "exit" => st[currentThread] = "EXITED",
             SwitchTo(h, st), priority' = pr,
             Lists(h, [t \in Threads |-> HomeIn(st, pr, t)])
      PROVE  ListsInv' /\ StatesInv'
  <2>1. \A t \in Threads : st[t] = "BLOCKED" => call[t].op = "lock"
    BY <1>s, <1>b, <1>w
  <2>2. /\ currentThread' \in Threads /\ st[currentThread'] = "QUEUED"
        /\ threadState' = [st EXCEPT ![currentThread'] = "RUNNING"]
        /\ ListsInv'
    BY <1>s, <1>w, <2>1, Switched
  <2>3. \A t \in Threads : threadState'[t] = IF t = currentThread' THEN "RUNNING" ELSE st[t]
    BY <2>2
  <2>4. call[currentThread'].op # "exit"
    BY <1>w, <2>2 DEF StatesInv
  <2>5. StatesInv'
    <3>1. \A t \in Threads \ {currentThread'} :
            threadState'[t] \in {"NEW", "QUEUED", "BLOCKED", "EXITED"}
      BY <1>w, <2>3 DEF StatesInv
    <3>2. threadState'[currentThread'] = "RUNNING"
      BY <2>2, <2>3
    <3>3. \A t \in Threads :
            /\ threadState'[t] \in {"NEW", "EXITED"} => threadState'[t] = threadState[t]
            /\ threadState'[t] = "BLOCKED" => call[t].op = "lock"
            /\ call[t].op = "exit" => threadState'[t] = "EXITED"
      BY <1>w, <2>1, <2>3, <2>4 DEF StatesInv
    <3>. QED BY <1>s, <3>1, <3>2, <3>3 DEF StatesInv
  <2>. QED BY <2>2, <2>5
<1>q. ASSUME NEW p \in Levels, Requeue(currentThread, p),
             threadState[currentThread] \in {"YIELD", "JOINING", "RUNNING"}
      PROVE  ListsInv' /\ StatesInv'
  <2>. DEFINE st == [threadState EXCEPT ![currentThread] = "QUEUED"]
              pr == [priority EXCEPT ![currentThread] = p]
  <2>5. /\ st \in [Threads -> States] /\ pr \in [Threads -> Levels]
        /\ Enqueue(mem, p, currentThread) \in Heap
        /\ Lists(Enqueue(mem, p, currentThread), [t \in Threads |-> HomeIn(st, pr, t)])
    BY <1>s, <1>q, RequeueLists, ZenonT(30)
  <2>6. SwitchTo(Enqueue(mem, p, currentThread), st) /\ priority' = pr
    BY <1>q, SMTT(30) DEF Requeue
  <2>7. call[currentThread].op # "exit"
    BY <1>q, <1>s DEF StatesInv
  <2>8. /\ \A t \in Threads \ {currentThread} : st[t] = threadState[t]
        /\ st[currentThread] = "QUEUED"
    BY <1>t, <1>s
  <2>. HIDE DEF st, pr
  <2>. QED BY <1>w, <2>5, <2>6, <2>7, <2>8
<1>x. ASSUME SwitchTo(mem, threadState), UNCHANGED priority,
             threadState[currentThread] \in {"BLOCKED", "EXITED"}
      PROVE  ListsInv' /\ StatesInv'
  <2>1. Lists(mem, [t \in Threads |-> HomeIn(threadState, priority, t)])
    BY <1>l DEF Home
  <2>2. call[currentThread].op = "exit" => threadState[currentThread] = "EXITED"
    BY <1>s DEF StatesInv
  <2>. QED BY <1>t, <1>w, <1>x, <2>1, <2>2
<1>1. CASE DispatchLast
  BY <1>1, <1>g DEF DispatchLast
<1>2. ASSUME NEW e \in Elapsed, DispatchAlone(e) PROVE ListsInv' /\ StatesInv'
  BY <1>2, <1>g DEF DispatchAlone, Deadlocked
<1>3. ASSUME NEW e \in Elapsed, DispatchKeep(e) PROVE ListsInv' /\ StatesInv'
  BY <1>3, <1>g DEF DispatchKeep
<1>4. CASE DispatchYield
  BY <1>4, <1>t, <1>s, <1>q DEF DispatchYield
<1>5. ASSUME NEW e \in Elapsed, DispatchExpired(e) PROVE ListsInv' /\ StatesInv'
  <2>1. Demoted(priority[currentThread]) \in Levels
    BY <1>t, <1>s DEF Demoted, Levels
  <2>. QED BY <1>5, <1>q, <2>1 DEF DispatchExpired
<1>6. CASE DispatchExited
  BY <1>6, <1>x DEF DispatchExited
<1>7. ASSUME NEW e \in Elapsed, DispatchBlocked(e) PROVE ListsInv' /\ StatesInv'
  BY <1>7, <1>x DEF DispatchBlocked
<1>. QED BY <1>1, <1>2, <1>3, <1>4, <1>5, <1>6, <1>7 DEF Dispatch

-----------------------------------------------------------------------------
\* A call's statement that is no store to a list, by a thread that is on none.
LEMMA QuietLists ==
  ASSUME TypeInv, ListsInv, NEW t \in Threads, currentThread = t, currentThread' = t,
         UNCHANGED <<mem, priority>>, threadState' \in [Threads -> States],
         \A u \in Threads \ {t} : threadState'[u] = threadState[u] /\ call'[u] = call[u],
         threadState[t] \notin {"QUEUED", "BLOCKED"}, threadState'[t] \notin {"QUEUED", "BLOCKED"},
         {pc[t], pc'[t]} \cap (EnqueuePCs \cup {"dequeue_next", "dequeue_rear", "unlock_state"}) = {}
  PROVE  ListsInv'
<1>1. Settled' = Settled
  BY DEF Settled, Settle, EnqueuePCs
<1>2. ASSUME NEW u \in Threads PROVE Place(u)' = Place(u)
  BY DEF Place, InHand, Running, Home, HomeIn, EnqueuePCs
<1>. QED BY <1>1, <1>2, SameLists

\* Every statement of a call that touches no list keeps the lists.
LEMMA QuietStep ==
  ASSUME TypeInv, QueueInv, NEW t \in Threads,
         \/ CallSchedule(t) \/ ExitValue(t) \/ JoinTest(t) \/ JoinValue(t) \/ JoinRun(t)
         \/ LockTest(t) \/ UnlockTest(t) \/ UnlockFlag(t) \/ Yield(t) \/ Finish(t)
         \/ \E u \in Threads : Join(t, u)
         \/ \E v \in Values \cup {NULL} : Exit(t, v)
         \/ \E m \in Mutexes : Lock(t, m) \/ Unlock(t, m)
  PROVE  ListsInv'
<1>. USE DEF QueueInv
<1>t. /\ threadState \in [Threads -> States] /\ call \in [Threads -> CallRecord]
      /\ pc \in [Threads -> PCs]
  BY DEF TypeInv, TypeOK
<1>f. /\ sched = "idle" /\ currentThread = t /\ currentThread' = t
      /\ \A u \in Threads \ {t} : call'[u] = call[u]
  BY ThreadFrame DEF LibraryStep, ClientStep
<1>1. CASE CallSchedule(t)
  <2>1. call[t].op \in {"yield", "exit", "join", "lock"} /\ pc[t] = "schedule"
    BY <1>1, OpAt DEF CallSchedule, At
  <2>2. /\ pc'[t] = AfterSchedule(call[t].op)
        /\ UNCHANGED <<mem, priority, threadState>>
        /\ call[t].op # "yield" => call' = call
    BY <1>t, <1>1 DEF CallSchedule, Goto, blockVars
  <2>3. pc'[t] \in {"user", "returned", "join_test", "lock_test"}
    BY <2>1, <2>2 DEF AfterSchedule
  <2>4. Settled' = Settled
    BY <1>f, <2>1, <2>2, <2>3 DEF Settled, Settle
  <2>5. threadState[t] = "BLOCKED" => call' = call
    BY <2>2 DEF StatesInv
  <2>6. ASSUME NEW u \in Threads PROVE Place(u)' = Place(u)
    BY <1>f, <2>1, <2>2, <2>3, <2>5 DEF Place, InHand, Running, Home, HomeIn
  <2>. QED BY <2>4, <2>6, SameLists
<1>2. CASE ~CallSchedule(t)
  <2>1. /\ UNCHANGED <<mem, priority>>
        /\ pc[t] \notin EnqueuePCs \cup {"schedule", "dequeue_next", "dequeue_rear", "unlock_state"}
        /\ pc'[t] \notin EnqueuePCs \cup {"dequeue_next", "dequeue_rear", "unlock_state"}
    BY <1>t, <1>2 DEF ExitValue, JoinTest, JoinValue, JoinRun, LockTest, UnlockTest, UnlockFlag,
       Yield, Finish, Join, Exit, Lock, Unlock, At, Goto, Return, blockVars, clientVars, EnqueuePCs
  <2>2. \/ UNCHANGED threadState
        \/ \E s \in {"RUNNING", "YIELD", "EXITED", "JOINING"} : SetState(t, s)
    BY <1>2 DEF ExitValue, JoinTest, JoinValue, JoinRun, LockTest, UnlockTest, UnlockFlag,
       Yield, Finish, Join, Exit, Lock, Unlock, blockVars
  <2>3. threadState[t] \notin {"QUEUED", "BLOCKED"}
    BY <1>f, <2>1 DEF StatesInv
  <2>4. /\ threadState' \in [Threads -> States]
        /\ \A u \in Threads \ {t} : threadState'[u] = threadState[u]
        /\ threadState'[t] \notin {"QUEUED", "BLOCKED"}
    BY <1>t, <2>2, <2>3 DEF SetState, States
  <2>. QED BY <1>f, <2>1, <2>3, <2>4, QuietLists
<1>. QED BY <1>1, <1>2

\* Taking a thread in hand, or changing the state of one in hand, touches no list.
LEMMA HandStep ==
  ASSUME TypeInv, QueueInv, NEW t \in Threads,
         \/ LockBlock(t) \/ EnqueueTest(t) \/ UnlockState(t)
         \/ \E c \in Threads : Create(t, c)
  PROVE  ListsInv'
<1>. USE DEF QueueInv
<1>t. /\ threadState \in [Threads -> States] /\ call \in [Threads -> CallRecord]
      /\ pc \in [Threads -> PCs] /\ mem \in Heap /\ priority \in [Threads -> Levels]
  BY DEF TypeInv, TypeOK, Heap
<1>f. /\ sched = "idle" /\ currentThread = t /\ currentThread' = t
      /\ \A u \in Threads \ {t} : call'[u] = call[u]
  BY ThreadFrame DEF LibraryStep, ClientStep
\* Thread e is in hand after the step, and was on no list before it.
<1>k. ASSUME NEW e \in Threads, Place(e) = NULL, call'[t].elem = e,
             pc'[t] \in {"enqueue", "enqueue_front", "enqueue_next"},
             pc[t] \notin {"enqueue_rear", "dequeue_next", "dequeue_rear"},
             ~InHand(e) => ~\E u \in Threads : InHand(u),
             UNCHANGED mem, \A u \in Threads \ {e} : Home(u)' = Home(u)
      PROVE  ListsInv'
  <2>1. Settled' = Settled
    BY <1>f, <1>k DEF Settled, Settle
  <2>2. Place(e)' = NULL
    BY <1>f, <1>k DEF Place, InHand, Running
  <2>3. ASSUME NEW u \in Threads \ {e} PROVE Place(u)' = Place(u)
    <3>1. ~InHand(u)'
      BY <1>f, <1>k DEF InHand
    <3>2. ~InHand(u)
      BY <1>k DEF InHand
    <3>. QED BY <1>k, <3>1, <3>2 DEF Place
  <2>. QED BY <1>k, <2>1, <2>2, <2>3, SameLists
<1>1. CASE LockBlock(t)
  <2>1. pc[t] = "lock_block" /\ UNCHANGED <<mem, priority>>
    BY <1>1 DEF LockBlock, At
  <2>2. Place(t) = NULL
    BY <1>f, <2>1 DEF StatesInv, EnqueuePCs, Place, Home, HomeIn
  <2>3. call'[t].elem = t
    <3>1. call[t] \in CallRecord
      BY <1>t
    <3>. QED BY <1>1, <1>t, <3>1 DEF LockBlock, CallRecord
  <2>4. pc'[t] = "enqueue"
    BY <1>1, <1>t DEF LockBlock, Goto
  <2>5. \A u \in Threads \ {t} : Home(u)' = Home(u)
    BY <1>1, <1>t, <1>f, <2>1 DEF LockBlock, SetState, Home, HomeIn
  <2>6. ~\E u \in Threads : InHand(u)
    BY <1>f, <2>1 DEF InHand, Running
  <2>. QED BY <1>k, <2>1, <2>2, <2>3, <2>4, <2>5, <2>6
<1>2. CASE EnqueueTest(t)
  <2>1. pc[t] = "enqueue" /\ UNCHANGED <<mem, priority, call, threadState>>
    BY <1>2 DEF EnqueueTest, At, blockVars
  <2>2. pc'[t] \in {"enqueue_front", "enqueue_next"}
    BY <1>2, <1>t DEF EnqueueTest, Goto
  <2>3. call[t].elem \in Threads
    BY <2>1 DEF TypeInv, CallsMatch, CallMatchesPC, EnqueuePCs
  <2>4. InHand(call[t].elem)
    BY <1>f, <2>1 DEF InHand, Running
  <2>5. \A u \in Threads : Home(u)' = Home(u)
    BY <2>1 DEF Home, HomeIn
  <2>. QED BY <1>k, <2>1, <2>2, <2>3, <2>4, <2>5 DEF Place
<1>3. CASE UnlockState(t)
  <2>1. pc[t] = "unlock_state" /\ UNCHANGED <<mem, priority>>
    BY <1>3 DEF UnlockState, At
  <2>2. pc'[t] = "enqueue"
    BY <1>3, <1>t DEF UnlockState, Goto
  <2>3. call[t].elem \in Threads
    BY <2>1 DEF TypeInv, CallsMatch, CallMatchesPC
  <2>4. InHand(call[t].elem)
    BY <1>f, <2>1 DEF InHand, Running
  <2>5. call'[t].elem = call[t].elem /\ call'[t].arg = call[t].arg
    <3>1. call[t] \in CallRecord
      BY <1>t
    <3>. QED BY <1>3, <1>t, <3>1 DEF UnlockState, CallRecord
  <2>6. \A u \in Threads : call'[u].arg = call[u].arg
    BY <1>f, <2>5
  <2>7. \A u \in Threads \ {call[t].elem} : Home(u)' = Home(u)
    BY <1>3, <1>t, <2>1, <2>6 DEF UnlockState, SetState, Home, HomeIn
  <2>. QED BY <1>k, <2>1, <2>2, <2>3, <2>4, <2>5, <2>7 DEF Place
<1>4. ASSUME NEW c \in Threads, Create(t, c) PROVE ListsInv'
  <2>1. pc[t] = "user" /\ threadState[c] = "NEW" /\ c # t
    BY <1>4, <1>f DEF Create, At, NewInv
  <2>2. ~\E u \in Threads : InHand(u)
    BY <1>f, <2>1 DEF InHand, Running
  <2>3. Place(c) = NULL
    BY <2>1, <2>2 DEF Place, Home, HomeIn
  <2>4. mem' = mem
    <3>1. Settled = mem
      BY <1>f, <2>1 DEF Settled, Settle
    <3>2. mem.next[c] = NULL
      BY <2>3, <3>1 DEF ListsInv, Lists, On
    <3>3. [mem.next EXCEPT ![c] = NULL] = mem.next
      BY <1>t, <3>2 DEF Heap
    <3>. QED BY <1>4, <1>t, <3>3 DEF Create, Heap
  <2>5. call'[t].elem = c /\ pc'[t] = "enqueue"
    BY <1>4, <1>t DEF Create, Goto, NewCall
  <2>6. threadState[t] # "BLOCKED"
    BY <1>f, <2>1 DEF StatesInv, EnqueuePCs
  <2>7. \A u \in Threads \ {c} : Home(u)' = Home(u)
    <3>1. \A u \in Threads \ {c} : threadState'[u] = threadState[u] /\ priority'[u] = priority[u]
      BY <1>4, <1>t DEF Create, SetState
    <3>. QED BY <1>f, <2>6, <3>1 DEF Home, HomeIn
  <2>. QED BY <1>k, <2>1, <2>2, <2>3, <2>4, <2>5, <2>7
<1>. QED BY <1>1, <1>2, <1>3, <1>4

\* The rest of an enqueue does what the whole does: after each of its stores the
\* settled heap is the one that enqueue() leaves.
LEMMA EnqueueStep ==
  ASSUME TypeInv, QueueInv, NEW t \in Threads,
         EnqueueFront(t) \/ EnqueueNext(t) \/ EnqueueRear(t)
  PROVE  ListsInv'
<1>. USE DEF QueueInv
<1>t. /\ threadState \in [Threads -> States] /\ call \in [Threads -> CallRecord]
      /\ pc \in [Threads -> PCs] /\ mem \in Heap /\ priority \in [Threads -> Levels]
  BY DEF TypeInv, TypeOK, Heap
<1>f. /\ sched = "idle" /\ currentThread = t /\ currentThread' = t
      /\ \A u \in Threads \ {t} : call'[u] = call[u]
  BY ThreadFrame DEF LibraryStep, ClientStep
<1>. DEFINE e == call[t].elem
            q == call[t].queue
            rear == mem.queue[q].rear
<1>p. pc[t] \in EnqueuePCs
  BY DEF EnqueueFront, EnqueueNext, EnqueueRear, At, EnqueuePCs
<1>e. e \in Threads /\ q \in Queues /\ Home(e) = q
  BY <1>f, <1>p DEF TypeInv, CallsMatch, CallMatchesPC, PendingInv
<1>1. CASE EnqueueFront(t) \/ EnqueueNext(t)
  <2>1. pc[t] \in {"enqueue_front", "enqueue_next"} /\ UNCHANGED <<call, threadState, priority>>
    BY <1>1 DEF EnqueueFront, EnqueueNext, At, blockVars
  <2>2. Settled = mem /\ InHand(e)
    BY <1>f, <2>1 DEF Settled, Settle, InHand, Running
  <2>3. On \in Places /\ On[e] = NULL
    BY <1>e, <2>2, PlacesType DEF On, Place
  <2>4. Lists(Enqueue(mem, q, e), [On EXCEPT ![e] = q])
    BY <1>t, <1>e, <2>2, <2>3, EnqueueLists DEF ListsInv
  <2>5. \/ rear = NULL /\ mem' = [mem EXCEPT !.queue[q].front = e]
        \/ rear # NULL /\ mem' = [mem EXCEPT !.next[rear] = e]
    BY <1>1, <1>f, <2>1 DEF EnqueueFront, EnqueueNext, At, PendingInv
  <2>6. pc'[t] = "enqueue_rear"
    BY <1>1, <1>t, <1>f, <2>1 DEF EnqueueFront, EnqueueNext, At, Goto, PendingInv
  <2>7. Settled' = [mem' EXCEPT !.queue[q].rear = e]
    BY <1>f, <2>1, <2>6 DEF Settled, Settle
  <2>8. [mem' EXCEPT !.queue[q].rear = e] = Enqueue(mem, q, e)
    <3>. HIDE DEF e, q
    <3>1. CASE rear = NULL
      BY <1>t, <1>e, <2>5, <3>1, SMTT(30) DEF Enqueue, Heap
    <3>2. CASE rear # NULL
      BY <1>t, <1>e, <2>5, <3>2, SMTT(30) DEF Enqueue, Heap
    <3>. QED BY <3>1, <3>2
  <2>9. On' = [On EXCEPT ![e] = q]
    <3>1. \A u \in Threads : u = e => Place(u)' = q
      BY <1>e, <1>f, <2>1, <2>6 DEF Place, InHand, Running, Home, HomeIn
    <3>2. \A u \in Threads \ {e} : Place(u)' = Place(u)
      BY <1>f, <2>1, <2>6 DEF Place, InHand, Running, Home, HomeIn
    <3>3. \A u \in Threads : Place(u)' = IF u = e THEN q ELSE Place(u)
      BY <3>1, <3>2
    <3>. HIDE DEF e, q
    <3>. QED BY <1>e, <3>3 DEF On
  <2>. QED BY <2>4, <2>7, <2>8, <2>9 DEF ListsInv
<1>2. CASE EnqueueRear(t)
  <2>1. pc[t] = "enqueue_rear" /\ UNCHANGED <<threadState, priority>>
    BY <1>2 DEF EnqueueRear, At, blockVars
  <2>2. Settled = mem'
    BY <1>2, <1>f, <2>1 DEF EnqueueRear, Settled, Settle
  <2>3. /\ call[t].op = "create" => Return(t)
        /\ call[t].op = "lock" => Goto(t, "schedule") /\ Begin(t, "lock", call[t].arg)
        /\ call[t].op = "unlock" => Goto(t, "unlock_flag") /\ UNCHANGED call
    BY <1>2 DEF EnqueueRear
  <2>4. call[t].op \in {"create", "lock", "unlock"}
    BY <1>p, OpAt
  <2>5. /\ pc'[t] \in {"user", "schedule", "unlock_flag"}
        /\ call[t].op = "lock" => call'[t].arg = call[t].arg
        /\ call[t].op = "unlock" => call'[t].arg = call[t].arg
    BY <1>t, <2>3, <2>4 DEF Return, Goto, Begin, NewCall
  <2>6. Settled' = mem'
    BY <1>f, <2>5 DEF Settled, Settle
  <2>7. threadState[t] = "BLOCKED" => call'[t].arg = call[t].arg
    BY <2>5 DEF StatesInv
  <2>8. ASSUME NEW u \in Threads PROVE Place(u)' = Place(u)
    BY <1>f, <2>1, <2>5, <2>7 DEF Place, InHand, Running, Home, HomeIn
  <2>. QED BY <2>2, <2>6, <2>8, SameLists
<1>. QED BY <1>1, <1>2

\* So does the rest of a dequeue of the wait queue.
LEMMA DequeueStep ==
  ASSUME TypeInv, QueueInv, NEW t \in Threads,
         DequeueFront(t) \/ DequeueNext(t) \/ DequeueRear(t)
  PROVE  ListsInv'
<1>. USE DEF QueueInv
<1>t. /\ threadState \in [Threads -> States] /\ call \in [Threads -> CallRecord]
      /\ pc \in [Threads -> PCs] /\ mem \in Heap /\ priority \in [Threads -> Levels]
  BY DEF TypeInv, TypeOK, Heap
<1>f. /\ sched = "idle" /\ currentThread = t /\ currentThread' = t
      /\ \A u \in Threads \ {t} : call'[u] = call[u]
  BY ThreadFrame DEF LibraryStep, ClientStep
<1>. DEFINE m == call[t].arg
<1>m. m \in Queues
  <2>1. call[t].op = "unlock"
    BY OpAt DEF DequeueFront, DequeueNext, DequeueRear, At
  <2>. QED BY <2>1 DEF TypeInv, CallsMatch, CallMatchesPC, Queues
<1>s. UNCHANGED <<threadState, priority>>
  BY DEF DequeueFront, DequeueNext, DequeueRear, blockVars
<1>1. CASE DequeueFront(t)
  <2>. DEFINE first == mem.queue[m].front
  <2>1. pc[t] = "dequeue" /\ first # NULL
    BY <1>1, <1>f DEF DequeueFront, At, PendingInv
  <2>2. first \in Threads
    BY <1>t, <1>m, <2>1 DEF Heap
  <2>3. /\ mem' = [mem EXCEPT !.queue[m].front = mem.next[first]]
        /\ call' = [call EXCEPT ![t].elem = first]
        /\ pc'[t] = "dequeue_next"
    BY <1>1, <1>t, <2>1 DEF DequeueFront, Goto
  <2>4. call'[t].elem = first /\ call'[t].arg = m
    <3>1. call[t] \in CallRecord
      BY <1>t
    <3>. QED BY <1>t, <2>3, <3>1 DEF CallRecord
  <2>5. Settled = mem /\ ~\E u \in Threads : InHand(u)
    BY <1>f, <2>1 DEF Settled, Settle, InHand, Running
  <2>6. On \in Places /\ Lists(mem, On)
    BY <2>5, PlacesType DEF ListsInv
  <2>7. Lists(Dequeue(mem, m), [On EXCEPT ![first] = NULL])
    BY <1>t, <1>m, <2>1, <2>6, DequeueLists
  <2>8. Settled' = RearFixed([mem' EXCEPT !.next[first] = NULL], m)
    BY <1>f, <2>3, <2>4 DEF Settled, Settle
  <2>9. RearFixed([mem' EXCEPT !.next[first] = NULL], m) = Dequeue(mem, m)
    <3>1. mem' = [mem EXCEPT !.queue[m].front = mem.next[first]] /\ first \in Threads
      BY <2>2, <2>3
    <3>. DEFINE g == [mem' EXCEPT !.next[first] = NULL]
    <3>. HIDE DEF m, first
    <3>a. /\ mem'.next = mem.next
          /\ mem'.queue = [mem.queue EXCEPT ![m].front = mem.next[first]]
          /\ mem' = [next |-> mem'.next, queue |-> mem'.queue]
      BY <1>t, <3>1 DEF Heap
    <3>2. /\ g.next = [mem.next EXCEPT ![first] = NULL]
          /\ g.queue = [mem.queue EXCEPT ![m].front = mem.next[first]]
      BY <3>a
    <3>3. g.queue[m] = [front |-> mem.next[first], rear |-> mem.queue[m].rear]
      BY <1>t, <1>m, <3>2 DEF Heap
    <3>. HIDE DEF g
    <3>4. RearFixed(g, m).queue =
            [mem.queue EXCEPT ![m] = [front |-> mem.next[first],
                                      rear |-> IF mem.next[first] = NULL THEN NULL
                                               ELSE mem.queue[m].rear]]
      BY <1>t, <1>m, <3>2, <3>3 DEF RearFixed, Heap
    <3>5. RearFixed(g, m).next = [mem.next EXCEPT ![first] = NULL]
      BY <3>2 DEF RearFixed
    <3>6. RearFixed(g, m) = Dequeue(mem, m)
      BY <3>4, <3>5 DEF RearFixed, Dequeue, first
    <3>. QED BY <3>6 DEF g
  <2>10. On' = [On EXCEPT ![first] = NULL]
    <3>1. \A u \in Threads : Home(u)' = Home(u)
      BY <1>s, <1>f, <2>4 DEF Home, HomeIn
    <3>2. \A u \in Threads : Place(u)' = IF u = first THEN NULL ELSE Place(u)
      BY <1>f, <2>3, <2>4, <2>5, <3>1 DEF Place, InHand, Running
    <3>. QED BY <2>2, <3>2 DEF On
  <2>. QED BY <2>7, <2>8, <2>9, <2>10 DEF ListsInv
<1>2. CASE DequeueNext(t)
  <2>1. pc[t] = "dequeue_next" /\ call' = call /\ mem' = [mem EXCEPT !.next[call[t].elem] = NULL]
    BY <1>2 DEF DequeueNext, At
  <2>2. pc'[t] = "dequeue_rear"
    BY <1>2, <1>t DEF DequeueNext, Goto
  <2>3. Settled' = Settled
    BY <1>f, <2>1, <2>2 DEF Settled, Settle
  <2>4. ASSUME NEW u \in Threads PROVE Place(u)' = Place(u)
    BY <1>f, <1>s, <2>1, <2>2 DEF Place, InHand, Running, Home, HomeIn
  <2>. QED BY <2>3, <2>4, SameLists
<1>3. CASE DequeueRear(t)
  <2>1. /\ pc[t] = "dequeue_rear" /\ call' = call
        /\ mem' = IF mem.queue[m].front = NULL THEN [mem EXCEPT !.queue[m].rear = NULL] ELSE mem
    BY <1>3 DEF DequeueRear, At
  <2>2. pc'[t] = "unlock_state"
    BY <1>3, <1>t DEF DequeueRear, Goto
  <2>3. Settled = RearFixed(mem, m) /\ Settled' = mem'
    BY <1>f, <2>1, <2>2 DEF Settled, Settle
  <2>4. RearFixed(mem, m) = mem'
    <3>. HIDE DEF m
    <3>1. CASE mem.queue[m].front = NULL
      <4>. DEFINE rest == [front |-> mem.queue[m].front, rear |-> NULL]
      <4>1. mem \in Heap /\ m \in Queues
        BY <1>t, <1>m
      <4>2. [mem.queue[m] EXCEPT !.rear = NULL] = rest
        BY <4>1 DEF Heap
      <4>3. mem' = [mem EXCEPT !.queue = [mem.queue EXCEPT ![m] = [mem.queue[m] EXCEPT !.rear = NULL]]]
        BY <2>1, <3>1, <4>1 DEF Heap
      <4>4. mem' = [next |-> mem.next, queue |-> [mem.queue EXCEPT ![m] = rest]]
        BY <4>1, <4>2, <4>3 DEF Heap
      <4>. QED BY <3>1, <4>1, <4>4 DEF RearFixed, Heap
    <3>2. CASE mem.queue[m].front # NULL
      BY <1>t, <1>m, <2>1, <3>2 DEF RearFixed, Heap
    <3>. QED BY <3>1, <3>2
  <2>5. ASSUME NEW u \in Threads PROVE Place(u)' = Place(u)
    BY <1>f, <1>s, <2>1, <2>2 DEF Place, InHand, Running, Home, HomeIn
  <2>. QED BY <2>3, <2>4, <2>5, SameLists
<1>. QED BY <1>1, <1>2, <1>3

-----------------------------------------------------------------------------
\* The neighbours of a thread on a list are on it too.
LEMMA Neighbours ==
  ASSUME NEW h \in Heap, NEW on \in Places, Lists(h, on), NEW q \in Queues
  PROVE  /\ h.queue[q].front # NULL => h.queue[q].front \in Threads /\ on[h.queue[q].front] = q
         /\ \A t \in Threads :
              on[t] = q /\ h.next[t] # NULL =>
                h.next[t] \in Threads /\ on[h.next[t]] = q /\ h.next[t] # t
<1>1. PICK pos \in [Threads -> Nat] : \A r \in Queues : Linked(h, r, on, pos)
  BY DEF Lists
<1>2. h.queue[q].front \in ThreadOrNull
  BY DEF Heap
<1>3. h.queue[q].front # NULL => on[h.queue[q].front] = q
  BY <1>1 DEF Linked
<1>4. ASSUME NEW t \in Threads, on[t] = q, h.next[t] # NULL
      PROVE  h.next[t] \in Threads /\ on[h.next[t]] = q /\ h.next[t] # t
  <2>1. h.next[t] \in Threads /\ on[h.next[t]] = q /\ pos[t] < pos[h.next[t]]
    BY <1>1, <1>4, LinkedAt
  <2>2. pos[t] \in Nat
    OBVIOUS
  <2>. QED BY <2>1, <2>2
<1>. QED BY <1>2, <1>3, <1>4

\* While schedule() runs, and when the signal may arrive, nothing is in hand.
LEMMA ScheduleRests ==
  ASSUME TypeInv, QueueInv, currentThread \in Threads,
         sched # "idle" \/ pc[currentThread] \in CallBoundaries
  PROVE  /\ Settled = mem /\ On = [t \in Threads |-> Home(t)]
         /\ On \in Places /\ mem \in Heap /\ Lists(mem, On)
<1>1. ~Running(PCs \ CallBoundaries) /\ pc[currentThread] \in PCs
  BY DEF Running, QueueInv, AtBoundaries, TypeInv, TypeOK
<1>2. On \in Places
  BY PlacesType DEF QueueInv
<1>3. mem \in Heap
  BY DEF TypeInv, TypeOK, Heap
<1>. QED BY <1>1, <1>2, <1>3, AtRest DEF QueueInv, ListsInv

\* maintenance() starts at the front of the list of level i.
LEMMA StartScan ==
  ASSUME TypeInv, QueueInv, currentThread \in Threads,
         sched # "idle" \/ pc[currentThread] \in CallBoundaries,
         NEW i \in Levels, i # 0, sched' = "maintenance" => scan' = StartOfLevel(mem, i),
         mem' = mem, \A t \in Threads : Home(t)' = Home(t)
  PROVE  ScanInv'
<1>1. i \in Queues
  BY DEF Queues
<1>2. mem.queue[i].front # NULL => mem.queue[i].front \in Threads /\ Home(mem.queue[i].front) = i
  BY <1>1, ScheduleRests, Neighbours
<1>3. ASSUME sched' = "maintenance", NEW t \in Threads, scan'.ptr = t
      PROVE  Home(t)' = scan'.level
  BY <1>2, <1>3 DEF StartOfLevel
<1>4. sched' = "maintenance" => /\ scan'.level = i
                                /\ scan'.ptr = mem'.queue[scan'.level].front
                                /\ scan'.ptr # NULL => scan'.ptr \in Threads
  BY <1>2 DEF StartOfLevel
<1>5. sched' = "maintenance" /\ scan'.ptr # NULL => Home(scan.ptr)' = scan'.level
  BY <1>3, <1>4
<1>. QED BY <1>4, <1>5 DEF ScanInv

\* schedule() is entered with everything in place.
LEMMA EnterStep ==
  ASSUME TypeInv, QueueInv, WindowsClosed,
         Tick \/ \E t \in Threads : CallSchedule(t)
  PROVE  ScanInv'
<1>. USE DEF QueueInv
<1>1. EnterSchedule /\ mem' = mem /\ currentThread \in Threads
  BY DEF Tick, CallSchedule, At, TypeInv, Current
<1>2. pc[currentThread] \in CallBoundaries
  BY DEF Tick, CallSchedule, At, WindowsClosed, CallBoundaries
<1>3. 1 \in Levels
  BY DEF Levels
<1>4. sched' = "maintenance" => scan' = StartOfLevel(mem, 1)
  BY <1>1 DEF EnterSchedule
<1>5. UNCHANGED <<threadState, priority>> /\ (call' = call \/ \E t \in Threads : CallSchedule(t))
  BY DEF Tick, CallSchedule, blockVars, clientVars
<1>6. ASSUME NEW u \in Threads PROVE Home(u)' = Home(u)
  <2>1. CASE call' = call
    BY <1>5, <2>1 DEF Home, HomeIn
  <2>2. ASSUME NEW t \in Threads, CallSchedule(t), call[t].op = "yield" PROVE Home(u)' = Home(u)
    <3>1. threadState[t] # "BLOCKED"
      BY <2>2 DEF StatesInv
    <3>2. \A v \in Threads \ {t} : call'[v] = call[v]
      BY <2>2, ThreadFrame DEF LibraryStep
    <3>. QED BY <1>5, <3>1, <3>2 DEF Home, HomeIn
  <2>. QED BY <1>5, <2>1, <2>2 DEF CallSchedule
<1>. QED BY <1>1, <1>2, <1>3, <1>4, <1>6, StartScan

\* A round of the loop of maintenance() keeps the lists, and the place it has
\* reached on one of them.
LEMMA MaintainStep ==
  ASSUME TypeInv, QueueInv, MaintainNextLevel \/ MaintainKeep \/ MaintainPromote
  PROVE  ListsInv' /\ ScanInv' /\ StatesInv'
<1>. USE DEF QueueInv
<1>s. /\ sched = "maintenance" /\ currentThread \in Threads
      /\ UNCHANGED <<phase, currentThread, threadState, pc, call, holds>>
      /\ scan \in [level : Levels, ptr : ThreadOrNull, prev : ThreadOrNull]
      /\ priority \in [Threads -> Levels] /\ threadState \in [Threads -> States]
  BY DEF MaintainNextLevel, MaintainKeep, MaintainPromote, TypeInv, TypeOK, Current, blockVars,
         clientVars
<1>r. On = [t \in Threads |-> Home(t)] /\ On \in Places /\ mem \in Heap /\ Lists(mem, On)
  BY <1>s, ScheduleRests
<1>n. /\ pc'[currentThread'] \in CallBoundaries
      /\ Settled' = mem' /\ \A t \in Threads : Place(t)' = Home(t)'
  BY <1>s DEF AtBoundaries, Settled, Settle, Place, InHand, Running, CallBoundaries
<1>l. scan.level \in Levels /\ scan.level \in Queues /\ scan.level # 0
  BY <1>s DEF ScanInv, Queues
<1>h. ASSUME mem' = mem, priority' = priority
      PROVE  ListsInv' /\ \A t \in Threads : Home(t)' = Home(t)
  <2>1. \A t \in Threads : Home(t)' = Home(t)
    BY <1>s, <1>h DEF Home, HomeIn
  <2>2. On' = On
    BY <1>r, <1>n, <2>1 DEF On
  <2>. QED BY <1>h, <1>n, <1>r, <2>1, <2>2 DEF ListsInv
<1>t. StatesInv'
  <2>1. StatesInv /\ sched' # "idle"
    BY DEF MaintainNextLevel, MaintainKeep, MaintainPromote
  <2>. QED BY <1>s, <2>1 DEF StatesInv
<1>1. CASE MaintainNextLevel
  <2>1. ListsInv' /\ \A t \in Threads : Home(t)' = Home(t)
    BY <1>1, <1>h DEF MaintainNextLevel, blockVars
  <2>2. ScanInv'
    <3>1. CASE scan.level = RUN_QUEUES - 1
      BY <1>1, <3>1 DEF MaintainNextLevel, ScanInv
    <3>2. CASE scan.level # RUN_QUEUES - 1
      <4>1. scan.level + 1 \in Levels /\ scan.level + 1 # 0
        BY <1>l, <3>2 DEF Levels
      <4>2. scan' = StartOfLevel(mem, scan.level + 1) /\ mem' = mem
        BY <1>1, <3>2 DEF MaintainNextLevel
      <4>. DEFINE i == scan.level + 1
      <4>3. i \in Levels /\ i # 0 /\ scan' = StartOfLevel(mem, i)
        BY <4>1, <4>2
      <4>. HIDE DEF i
      <4>. QED BY <1>s, <2>1, <4>2, <4>3, StartScan
    <3>. QED BY <3>1, <3>2
  <2>. QED BY <1>t, <2>1, <2>2
<1>2. CASE MaintainKeep
  <2>1. ListsInv' /\ mem' = mem /\ \A t \in Threads : Home(t)' = Home(t)
    BY <1>2, <1>h DEF MaintainKeep, blockVars
  <2>2. scan.ptr \in Threads /\ Home(scan.ptr) = scan.level
    BY <1>2, <1>s DEF MaintainKeep, ScanInv
  <2>3. /\ scan'.level = scan.level /\ scan'.prev = scan.ptr
        /\ scan'.ptr = mem.next[scan.ptr]
    BY <1>2, <1>s DEF MaintainKeep
  <2>4. scan'.ptr # NULL => scan'.ptr \in Threads /\ Home(scan'.ptr) = scan.level
    BY <1>l, <1>r, <2>2, <2>3, Neighbours
  <2>5. scan'.ptr # NULL => Home(scan.ptr)' = scan.level
    <3>1. ASSUME NEW t \in Threads, scan'.ptr = t PROVE Home(scan.ptr)' = Home(t)'
      BY <3>1 DEF Home, HomeIn
    <3>. QED BY <2>1, <2>4, <3>1
  <2>6. Home(scan.prev)' = scan.level
    <3>1. ASSUME NEW t \in Threads, scan'.prev = t PROVE Home(scan.prev)' = Home(t)'
      BY <3>1 DEF Home, HomeIn
    <3>. QED BY <2>1, <2>2, <2>3, <3>1
  <2>7. ScanInv'
    BY <1>l, <2>1, <2>2, <2>3, <2>5, <2>6 DEF ScanInv
  <2>. QED BY <1>t, <2>1, <2>7
<1>3. CASE MaintainPromote
  <2>. DEFINE ptr   == scan.ptr
              i     == scan.level
              cut   == Unlink(mem, i, ptr, scan.prev)
              clear == [cut EXCEPT !.next[ptr] = NULL]
              h     == Enqueue(clear, 0, ptr)
              to    == [On EXCEPT ![ptr] = 0]
              after == cut.next[ptr]
  <2>1. ptr \in Threads /\ Home(ptr) = i /\ scan.prev \in ThreadOrNull
    BY <1>3, <1>s DEF MaintainPromote, ScanInv
  <2>2. On[ptr] = i /\ On \in Places
    BY <1>r, <2>1
  <2>3. ptr # mem.queue[i].front =>
          /\ scan.prev \in Threads /\ On[scan.prev] = i /\ mem.next[scan.prev] = ptr
    BY <1>3, <1>s, <1>r, <2>1 DEF ScanInv
  <2>4. /\ mem' = h
        /\ scan' = IF after = NULL THEN [scan EXCEPT !.ptr = NULL]
                   ELSE [scan EXCEPT !.prev = after, !.ptr = h.next[after]]
        /\ priority' = [priority EXCEPT ![ptr] = 0]
    BY <1>3 DEF MaintainPromote, Promoted
  <2>5. cut \in Heap /\ clear \in Heap /\ 0 \in Levels /\ 0 \in Queues
    <3>1. cut \in Heap
      BY <1>r, <1>l, <2>1, UnlinkType
    <3>2. 0 \in Levels
      BY DEF Levels
    <3>3. clear \in Heap
      <4>1. 0 \in Queues /\ NULL \in ThreadOrNull
        BY <3>2 DEF Queues
      <4>. HIDE DEF cut, ptr
      <4>. QED BY <2>1, <3>1, <4>1, HeapLinkType
    <3>. QED BY <3>1, <3>2, <3>3 DEF Queues
  <2>6. after = mem.next[ptr]
    <3>1. scan.prev = ptr => ptr = mem.queue[i].front
      BY <1>r, <1>l, <2>1, <2>2, <2>3, Neighbours
    <3>. QED BY <1>r, <2>1, <2>3, <3>1 DEF Unlink, Heap
  <2>7. Lists(clear, [On EXCEPT ![ptr] = NULL])
    <3>1. ptr # mem.queue[i].front => scan.prev # NULL /\ On[scan.prev] = i /\ mem.next[scan.prev] = ptr
      BY <2>3
    <3>. QED BY <1>r, <1>l, <2>1, <2>2, <3>1, UnlinkLists
  <2>8. Lists(h, to)
    <3>. DEFINE off == [On EXCEPT ![ptr] = NULL]
    <3>1. off \in Places /\ off[ptr] = NULL /\ [off EXCEPT ![ptr] = 0] = to
      BY <2>1, <2>2 DEF Places
    <3>2. Lists(clear, off)
      BY <2>7
    <3>. HIDE DEF off, clear, to
    <3>3. Lists(Enqueue(clear, 0, ptr), [off EXCEPT ![ptr] = 0])
      BY <2>1, <2>5, <3>1, <3>2, EnqueueLists
    <3>. QED BY <3>1, <3>3 DEF h
  <2>9. \A t \in Threads : Home(t)' = to[t]
    <3>1. threadState[ptr] = "QUEUED"
      <4>1. threadState[ptr] = "BLOCKED" => call[ptr].op = "lock"
        BY <2>1 DEF StatesInv
      <4>. QED BY <1>s, <1>l, <2>1, <4>1, HomeCases DEF Home
    <3>2. \A t \in Threads : Home(t)' = IF t = ptr THEN 0 ELSE Home(t)
      BY <1>s, <2>1, <2>4, <3>1 DEF Home, HomeIn
    <3>3. \A t \in Threads : to[t] = IF t = ptr THEN 0 ELSE Home(t)
      BY <1>r, <2>1, <2>2
    <3>. QED BY <3>2, <3>3
  <2>10. On' = to
    <3>1. to \in [Threads -> Queues \cup {NULL}]
      BY <2>2, <2>5 DEF Places
    <3>. HIDE DEF to
    <3>. QED BY <1>n, <2>9, <3>1 DEF On
  <2>11. ListsInv'
    <3>1. Lists(mem', to)
      BY <2>4, <2>8
    <3>. HIDE DEF to
    <3>. QED BY <1>n, <2>10, <3>1 DEF ListsInv
  <2>12. /\ after \in ThreadOrNull
         /\ after # NULL => after \in Threads /\ to[after] = i
    <3>1. after # NULL => after \in Threads /\ On[after] = i /\ after # ptr
      BY <1>r, <1>l, <2>1, <2>2, <2>6, Neighbours
    <3>. QED BY <2>2, <3>1
  <2>13. scan'.level = i /\ scan'.level # 0
    BY <1>s, <1>l, <2>4
  <2>14. ASSUME after # NULL, scan'.ptr # NULL
         PROVE  /\ Home(scan.ptr)' = scan'.level
                /\ scan'.prev # NULL /\ Home(scan.prev)' = scan'.level
                /\ mem'.next[scan'.prev] = scan'.ptr
    <3>1. scan'.prev = after /\ scan'.ptr = h.next[after]
      BY <1>s, <2>4, <2>14
    <3>2. h \in Heap /\ to \in Places
      <4>1. h \in Heap
        BY <2>1, <2>5, EnqueueType
      <4>. QED BY <2>2, <2>5, <4>1 DEF Places
    <3>3. h.next[after] \in Threads /\ to[h.next[after]] = i
      <4>1. h \in Heap /\ to \in Places /\ Lists(h, to) /\ after \in Threads /\ to[after] = i
            /\ h.next[after] # NULL
        BY <2>8, <2>12, <2>14, <3>1, <3>2
      <4>. HIDE DEF h, to, after
      <4>. QED BY <1>l, <4>1, Neighbours
    <3>4. ASSUME NEW t \in Threads, to[t] = i
          PROVE  /\ scan'.ptr = t => Home(scan.ptr)' = i
                 /\ scan'.prev = t => Home(scan.prev)' = i
      <4>1. Home(t)' = i
        BY <2>9, <3>4
      <4>. QED BY <4>1 DEF Home, HomeIn
    <3>. QED BY <2>4, <2>12, <2>13, <2>14, <3>1, <3>3, <3>4
  <2>15. scan'.ptr # NULL => after # NULL
    BY <1>s, <2>4
  <2>16. ScanInv'
    BY <2>13, <2>14, <2>15 DEF ScanInv
  <2>. QED BY <1>t, <2>11, <2>16
<1>. QED BY <1>1, <1>2, <1>3

\* Before the first create there is nothing, and after it one thread is queued.
LEMMA FirstCreateStep ==
  ASSUME TypeInv, QueueInv, NEW c \in Threads, FirstCreate(c)
  PROVE  ListsInv' /\ StatesInv' /\ PendingInv'
<1>. USE DEF QueueInv
<1>t. /\ threadState \in [Threads -> States] /\ priority \in [Threads -> Levels] /\ mem \in Heap
      /\ pc \in [Threads -> PCs]
  BY DEF TypeInv, TypeOK, Heap
<1>1. /\ currentThread = NULL /\ currentThread' = Main /\ c # Main /\ phase' = "live"
      /\ \A t \in Threads : threadState[t] = "NEW" /\ pc[t] = "user"
      /\ UNCHANGED <<pc, call, holds, priority>>
      /\ mem' = Enqueue(mem, priority[c], c)
      /\ threadState' = [threadState EXCEPT ![Main] = "RUNNING", ![c] = "QUEUED"]
  BY DEF FirstCreate, AtBoundaries, StatesInv, clientVars
<1>2. \A t \in Threads : threadState'[t] = IF t = c THEN "QUEUED"
                                           ELSE IF t = Main THEN "RUNNING" ELSE "NEW"
  BY <1>t, <1>1
<1>3. ListsInv'
  <2>1. Settled = mem /\ Settled' = mem'
    BY <1>1 DEF Settled, Settle
  <2>2. \A t \in Threads : Place(t) = NULL
    BY <1>1 DEF Place, InHand, Running, Home, HomeIn
  <2>3. ASSUME NEW t \in Threads PROVE Place(t)' = IF t = c THEN priority[c] ELSE NULL
    <3>1. ~InHand(t)'
      BY <1>1 DEF InHand, Running
    <3>3. /\ t = c => threadState'[t] = "QUEUED"
          /\ t # c => threadState'[t] \in {"RUNNING", "NEW"}
      BY <1>2
    <3>4. threadState'[t] # "BLOCKED"
      BY <1>2
    <3>5. Home(t)' = IF t = c THEN priority[c] ELSE NULL
      BY <1>1, <3>3, <3>4 DEF Home, HomeIn
    <3>. QED BY <3>1, <3>5 DEF Place
  <2>4. On' = [On EXCEPT ![c] = priority[c]]
    BY <2>2, <2>3 DEF On
  <2>5. On \in Places /\ On[c] = NULL /\ priority[c] \in Queues
    BY <1>t, <2>2, PlacesType DEF On, Queues
  <2>6. Lists(Enqueue(mem, priority[c], c), [On EXCEPT ![c] = priority[c]])
    BY <1>t, <2>1, <2>5, EnqueueLists DEF ListsInv
  <2>. QED BY <1>1, <2>1, <2>4, <2>6 DEF ListsInv
<1>4. StatesInv'
  <2>1. /\ \A t \in Threads \ {Main} : threadState'[t] \in {"NEW", "QUEUED"}
        /\ threadState'[Main] = "RUNNING"
    BY <1>1, <1>2
  <2>2. \A t \in Threads : holds[t] = {} /\ call[t].op # "exit"
    BY <1>1 DEF StatesInv
  <2>. QED BY <1>1, <1>2, <2>1, <2>2 DEF StatesInv
<1>5. PendingInv'
  BY <1>1 DEF PendingInv, EnqueuePCs
<1>. QED BY <1>3, <1>4, <1>5

\* A statement of a call keeps what the states say.
LEMMA StatesStep ==
  ASSUME TypeInv, QueueInv, NEW t \in Threads, LibraryStep(t) \/ ClientStep(t)
  PROVE  StatesInv'
<1>. USE DEF QueueInv
<1>t. /\ threadState \in [Threads -> States] /\ call \in [Threads -> CallRecord]
      /\ pc \in [Threads -> PCs] /\ holds \in [Threads -> SUBSET Mutexes]
  BY DEF TypeInv, TypeOK
<1>f. /\ phase = "live" /\ sched = "idle" /\ currentThread = t
      /\ currentThread' = t /\ phase' # "setup"
      /\ \A u \in Threads \ {t} : pc'[u] = pc[u] /\ call'[u] = call[u] /\ holds'[u] = holds[u]
  BY ThreadFrame
<1>b. threadState[t] = "BLOCKED" => pc[t] \in EnqueuePCs \cup {"schedule"}
  BY <1>f DEF StatesInv
<1>x. threadState[t] # "NEW" /\ (threadState[t] = "EXITED" <=> call[t].op = "exit")
  BY <1>f DEF NewInv, TimerInv, StatesInv
\* Only the state of t changes, or of a thread that becomes QUEUED.
<1>k. ASSUME NEW c \in Threads, c # t => threadState[c] \in {"NEW", "BLOCKED"} /\ threadState'[c] = "QUEUED",
             \A u \in Threads \ {c} : threadState'[u] = threadState[u],
             threadState'[t] # "QUEUED",
             threadState'[t] = "BLOCKED" => call'[t].op = "lock" /\
               (sched' = "idle" => pc'[t] \in EnqueuePCs \cup {"schedule"}),
             threadState'[t] \in {"NEW", "EXITED"} => holds'[t] = {},
             call'[t].op = "exit" => threadState'[t] = "EXITED"
      PROVE  StatesInv'
  <2>1. \A u \in Threads \ {t} : threadState'[u] \in {"NEW", "QUEUED", "BLOCKED", "EXITED"}
    BY <1>f, <1>k DEF StatesInv
  <2>2. ASSUME NEW u \in Threads \ {t}
        PROVE  /\ threadState'[u] \in {"NEW", "EXITED"} => holds'[u] = {}
               /\ threadState'[u] = "BLOCKED" => call'[u].op = "lock"
               /\ call'[u].op = "exit" => threadState'[u] = "EXITED"
    <3>1. CASE u = c
      BY <1>f, <1>k, <2>2, <3>1 DEF StatesInv, NewInv
    <3>2. CASE u # c
      BY <1>f, <1>k, <2>2, <3>2 DEF StatesInv
    <3>. QED BY <3>1, <3>2
  <2>. QED BY <1>f, <1>k, <2>1, <2>2 DEF StatesInv
\* The states stay.
<1>u. ASSUME UNCHANGED threadState,
             threadState[t] = "BLOCKED" => call'[t].op = "lock" /\
               (sched' = "idle" => pc'[t] \in EnqueuePCs \cup {"schedule"}),
             threadState[t] = "EXITED" => holds'[t] = {},
             call'[t].op = "exit" => call[t].op = "exit"
      PROVE  StatesInv'
  <2>1. threadState[t] # "QUEUED"
    BY <1>f DEF StatesInv
  <2>. QED BY <1>k, <1>u, <1>x, <2>1
\* The state of t changes to one of the running thread.
<1>s. ASSUME NEW s \in {"RUNNING", "YIELD", "JOINING", "EXITED"}, SetState(t, s),
             s = "EXITED" => holds'[t] = {}, call'[t].op = "exit" => s = "EXITED"
      PROVE  StatesInv'
  BY <1>t, <1>k, <1>s DEF SetState
<1>1. CASE CallSchedule(t)
  <2>1. /\ UNCHANGED <<threadState, holds>> /\ sched' # "idle" /\ pc[t] = "schedule"
        /\ call' = call \/ (call[t].op = "yield" /\ call' = [call EXCEPT ![t] = NoCall])
    BY <1>1 DEF CallSchedule, At, EnterSchedule, blockVars
  <2>2. threadState[t] = "BLOCKED" => call[t].op = "lock"
    BY DEF StatesInv
  <2>3. call'[t] = call[t] \/ (call[t].op = "yield" /\ call'[t] = NoCall)
    BY <1>t, <2>1
  <2>4. threadState[t] = "EXITED" => holds[t] = {}
    BY DEF StatesInv
  <2>. QED BY <1>u, <2>1, <2>2, <2>3, <2>4 DEF NoCall, NewCall
<1>2. CASE EnqueueTest(t) \/ EnqueueFront(t) \/ EnqueueNext(t)
  <2>1. UNCHANGED <<threadState, holds, call>> /\ pc'[t] \in EnqueuePCs
    BY <1>2, <1>t DEF EnqueueTest, EnqueueFront, EnqueueNext, At, Goto, blockVars, EnqueuePCs
  <2>2. threadState[t] = "BLOCKED" => call[t].op = "lock"
    BY DEF StatesInv
  <2>3. threadState[t] = "EXITED" => holds[t] = {}
    BY DEF StatesInv
  <2>. QED BY <1>u, <2>1, <2>2, <2>3
<1>3. CASE EnqueueRear(t)
  <2>1. /\ UNCHANGED <<threadState, holds>> /\ call[t].op \in {"create", "lock", "unlock"}
        /\ call[t].op = "create" => Return(t)
        /\ call[t].op = "lock" => Goto(t, "schedule") /\ Begin(t, "lock", call[t].arg)
        /\ call[t].op = "unlock" => Goto(t, "unlock_flag") /\ UNCHANGED call
    BY <1>3, OpAt DEF EnqueueRear, At, EnqueuePCs, blockVars
  <2>2. /\ call[t].op = "lock" => pc'[t] = "schedule" /\ call'[t].op = "lock"
        /\ call'[t].op # "exit"
    BY <1>t, <2>1 DEF Return, Goto, Begin, NoCall, NewCall
  <2>3. threadState[t] = "BLOCKED" => call[t].op = "lock"
    BY DEF StatesInv
  <2>4. threadState[t] = "EXITED" => holds[t] = {}
    BY DEF StatesInv
  <2>. QED BY <1>u, <2>1, <2>2, <2>3, <2>4
<1>4. CASE \/ ExitValue(t) \/ JoinTest(t) \/ JoinValue(t) \/ LockTest(t) \/ UnlockTest(t)
           \/ DequeueFront(t) \/ DequeueNext(t) \/ DequeueRear(t) \/ UnlockFlag(t)
           \/ Finish(t) \/ \E m \in Mutexes : Lock(t, m) \/ Unlock(t, m)
  <2>1. /\ UNCHANGED threadState
        /\ pc[t] \notin EnqueuePCs \cup {"schedule"}
    BY <1>4 DEF ExitValue, JoinTest, JoinValue, LockTest, UnlockTest, DequeueFront, DequeueNext,
       DequeueRear, UnlockFlag, Finish, Lock, Unlock, At, blockVars, EnqueuePCs
  <2>2. threadState[t] = "EXITED" => UNCHANGED <<holds>>
    BY <1>4, <1>x, OpAt DEF ExitValue, JoinTest, JoinValue, LockTest, UnlockTest, DequeueFront,
       DequeueNext, DequeueRear, UnlockFlag, Finish, Lock, Unlock, At, clientVars
  <2>3. call'[t].op = call[t].op \/ call'[t].op \in {"none", "lock", "unlock"}
    <3>1. call[t] \in CallRecord
      BY <1>t
    <3>. QED
      BY <1>4, <1>t, <3>1 DEF ExitValue, JoinTest, JoinValue, LockTest, UnlockTest, DequeueFront,
         DequeueNext, DequeueRear, UnlockFlag, Finish, Lock, Unlock, clientVars, Return, Begin,
         NoCall, NewCall, CallRecord
  <2>4. threadState[t] = "EXITED" => holds[t] = {}
    BY DEF StatesInv
  <2>. QED BY <1>b, <1>u, <2>1, <2>2, <2>3, <2>4
<1>5. CASE JoinRun(t) \/ Yield(t) \/ \E u \in Threads : Join(t, u)
  <2>1. /\ \E s \in {"RUNNING", "YIELD", "JOINING"} : SetState(t, s)
        /\ call'[t].op # "exit"
    BY <1>5, <1>t DEF JoinRun, Yield, Join, Return, Begin, NoCall, NewCall
  <2>. QED BY <1>s, <2>1
<1>6. ASSUME NEW v \in Values \cup {NULL}, Exit(t, v) PROVE StatesInv'
  BY <1>6, <1>s DEF Exit
<1>7. CASE LockBlock(t)
  <2>1. threadState'[t] = "BLOCKED" /\ \A u \in Threads \ {t} : threadState'[u] = threadState[u]
    BY <1>7, <1>t DEF LockBlock, SetState
  <2>2. pc'[t] = "enqueue" /\ call[t].op = "lock"
    BY <1>7, <1>t, OpAt DEF LockBlock, Goto, At
  <2>3. call'[t].op = "lock"
    <3>1. call[t] \in CallRecord
      BY <1>t
    <3>. QED BY <1>7, <1>t, <2>2, <3>1 DEF LockBlock, CallRecord
  <2>. QED BY <1>k, <2>1, <2>2, <2>3 DEF EnqueuePCs
<1>8. CASE UnlockState(t)
  <2>. DEFINE waiter == call[t].elem
  <2>1. pc[t] = "unlock_state" /\ waiter \in Threads /\ call[t].op = "unlock"
    BY <1>8, OpAt DEF UnlockState, At, TypeInv, CallsMatch, CallMatchesPC
  <2>2. threadState[waiter] = "BLOCKED" /\ waiter # t
    BY <1>b, <1>f, <2>1 DEF PendingInv, EnqueuePCs
  <2>3. /\ threadState'[waiter] = "QUEUED" /\ UNCHANGED holds
        /\ \A u \in Threads \ {waiter} : threadState'[u] = threadState[u]
    BY <1>8, <1>t, <2>1 DEF UnlockState, SetState
  <2>4. call'[t].op = "unlock"
    <3>1. call[t] \in CallRecord
      BY <1>t
    <3>. QED BY <1>8, <1>t, <2>1, <3>1 DEF UnlockState, CallRecord
  <2>5. threadState[t] \notin {"BLOCKED", "EXITED", "NEW", "QUEUED"}
    BY <1>b, <1>f, <1>x, <2>1 DEF StatesInv, EnqueuePCs
  <2>. HIDE DEF waiter
  <2>. QED BY <1>k, <2>1, <2>2, <2>3, <2>4, <2>5
<1>9. ASSUME NEW c \in Threads, Create(t, c) PROVE StatesInv'
  <2>1. threadState[c] = "NEW" /\ c # t /\ pc[t] = "user" /\ call[t].op = "none"
    BY <1>9, <1>x, OpAt DEF Create, At
  <2>2. /\ threadState'[c] = "QUEUED"
        /\ \A u \in Threads \ {c} : threadState'[u] = threadState[u]
    BY <1>9, <1>t DEF Create, SetState
  <2>3. call'[t].op = "create"
    BY <1>9, <1>t DEF Create, NewCall
  <2>4. threadState[t] \notin {"BLOCKED", "EXITED", "NEW", "QUEUED"}
    BY <1>b, <1>f, <1>x, <2>1 DEF StatesInv, EnqueuePCs
  <2>. QED BY <1>k, <2>1, <2>2, <2>3, <2>4
<1>. QED BY <1>1, <1>2, <1>3, <1>4, <1>5, <1>6, <1>7, <1>8, <1>9 DEF LibraryStep, ClientStep

\* What a test of a call has found is still so at the store it guards: the process
\* never follows NULL.
LEMMA PendingStep ==
  ASSUME TypeInv, QueueInv, NEW t \in Threads, LibraryStep(t) \/ ClientStep(t)
  PROVE  PendingInv'
<1>. USE DEF QueueInv
<1>t. /\ threadState \in [Threads -> States] /\ call \in [Threads -> CallRecord]
      /\ pc \in [Threads -> PCs] /\ mem \in Heap /\ priority \in [Threads -> Levels]
  BY DEF TypeInv, TypeOK, Heap
<1>f. /\ phase = "live" /\ sched = "idle" /\ currentThread = t /\ currentThread' = t
      /\ \A u \in Threads \ {t} : call'[u] = call[u]
  BY ThreadFrame
<1>c. call[t] \in CallRecord
  BY <1>t
<1>b. threadState[t] = "BLOCKED" => pc[t] \in EnqueuePCs \cup {"schedule"}
  BY <1>f DEF StatesInv
<1>. DEFINE e == call[t].elem
            q == call[t].queue
            m == call[t].arg
<1>p. /\ pc[t] \in EnqueuePCs => e \in Threads /\ Home(e) = q
      /\ pc[t] \in EnqueuePCs /\ call[t].op = "lock" => e = t /\ threadState[t] = "BLOCKED"
      /\ pc[t] = "enqueue_front" => mem.queue[q].rear = NULL
      /\ pc[t] = "enqueue_next"  => mem.queue[q].rear # NULL
      /\ pc[t] = "dequeue"       => mem.queue[m].front # NULL
      /\ pc[t] \in {"dequeue_next", "dequeue_rear", "unlock_state"} =>
           e \in Threads /\ threadState[e] = "BLOCKED" /\ call[e].arg = m
  BY <1>f DEF PendingInv, TypeInv, CallsMatch, CallMatchesPC
\* Nothing is pending at the new statement.
<1>n. ASSUME phase' # "crashed",
             pc'[t] \notin EnqueuePCs \cup {"dequeue", "dequeue_next", "dequeue_rear", "unlock_state"}
      PROVE  PendingInv'
  BY <1>f, <1>n DEF PendingInv, EnqueuePCs
\* A thread in hand is about to be enqueued where it belongs.
<1>e. ASSUME phase' # "crashed", pc'[t] \in EnqueuePCs, NEW u \in Threads, call'[t].elem = u,
             Home(u)' = call'[t].queue,
             call'[t].op = "lock" => u = t /\ threadState'[t] = "BLOCKED",
             pc'[t] = "enqueue_front" => mem'.queue[call'[t].queue].rear = NULL,
             pc'[t] = "enqueue_next"  => mem'.queue[call'[t].queue].rear # NULL
      PROVE  PendingInv'
  <2>1. Home(call[t].elem)' = call'[t].queue
    BY <1>e DEF Home, HomeIn
  <2>. QED BY <1>f, <1>e, <2>1 DEF PendingInv, EnqueuePCs
\* A waiter in hand is still blocked on the mutex.
<1>w. ASSUME phase' # "crashed", pc'[t] \in {"dequeue_next", "dequeue_rear", "unlock_state"},
             NEW u \in Threads \ {t}, call'[t].elem = u, threadState'[u] = "BLOCKED",
             call[u].arg = call'[t].arg
      PROVE  PendingInv'
  BY <1>f, <1>w DEF PendingInv, EnqueuePCs
<1>1. CASE EnqueueTest(t)
  <2>1. UNCHANGED <<phase, call, mem, threadState, priority>> /\ pc[t] = "enqueue"
    BY <1>1 DEF EnqueueTest, At, blockVars
  <2>2. pc'[t] = IF mem.queue[q].rear = NULL THEN "enqueue_front" ELSE "enqueue_next"
    BY <1>1, <1>t DEF EnqueueTest, Goto
  <2>3. e \in Threads /\ Home(e) = q /\ (call[t].op = "lock" => e = t /\ threadState[t] = "BLOCKED")
    BY <1>p, <2>1 DEF EnqueuePCs
  <2>4. \A u \in Threads : Home(u)' = Home(u)
    BY <2>1 DEF Home, HomeIn
  <2>5. phase' # "crashed" /\ pc'[t] \in EnqueuePCs
    BY <1>f, <2>1, <2>2 DEF EnqueuePCs
  <2>6. \A u \in Threads : u = e => Home(u)' = q
    BY <2>3, <2>4
  <2>. QED BY <1>e, <2>1, <2>2, <2>3, <2>5, <2>6
<1>2. CASE EnqueueFront(t) \/ EnqueueNext(t)
  <2>1. pc[t] \in {"enqueue_front", "enqueue_next"} /\ UNCHANGED <<call, threadState, priority>>
    BY <1>2 DEF EnqueueFront, EnqueueNext, At, blockVars
  <2>2. phase' = phase /\ pc'[t] = "enqueue_rear"
    BY <1>2, <1>t, <1>p, <2>1 DEF EnqueueFront, EnqueueNext, At, Goto
  <2>3. e \in Threads /\ Home(e) = q /\ (call[t].op = "lock" => e = t /\ threadState[t] = "BLOCKED")
    BY <1>p, <2>1 DEF EnqueuePCs
  <2>4. \A u \in Threads : Home(u)' = Home(u)
    BY <2>1 DEF Home, HomeIn
  <2>5. phase' # "crashed" /\ pc'[t] \in EnqueuePCs
    BY <1>f, <2>2 DEF EnqueuePCs
  <2>6. \A u \in Threads : u = e => Home(u)' = q
    BY <2>3, <2>4
  <2>. QED BY <1>e, <2>1, <2>2, <2>3, <2>5, <2>6
<1>3. CASE EnqueueRear(t)
  <2>1. /\ phase' = phase /\ call[t].op \in {"create", "lock", "unlock"}
        /\ call[t].op = "create" => Return(t)
        /\ call[t].op = "lock" => Goto(t, "schedule")
        /\ call[t].op = "unlock" => Goto(t, "unlock_flag")
    BY <1>3, OpAt DEF EnqueueRear, At, EnqueuePCs
  <2>2. pc'[t] \in {"user", "schedule", "unlock_flag"}
    BY <1>t, <2>1 DEF Return, Goto
  <2>. QED BY <1>f, <1>n, <2>1, <2>2 DEF EnqueuePCs
<1>4. CASE LockBlock(t)
  <2>1. phase' = phase /\ pc'[t] = "enqueue" /\ threadState'[t] = "BLOCKED"
    BY <1>4, <1>t DEF LockBlock, Goto, SetState
  <2>2. call'[t].elem = t /\ call'[t].queue = m /\ call'[t].arg = m
    BY <1>4, <1>t, <1>c DEF LockBlock, CallRecord
  <2>3. Home(t)' = m
    BY <2>1, <2>2 DEF Home, HomeIn
  <2>4. phase' # "crashed" /\ pc'[t] \in EnqueuePCs
    BY <1>f, <2>1 DEF EnqueuePCs
  <2>. QED BY <1>e, <2>1, <2>2, <2>3, <2>4
<1>5. CASE UnlockState(t)
  <2>1. pc[t] = "unlock_state" /\ e \in Threads /\ call[t].op = "unlock"
    BY <1>5, <1>p, OpAt DEF UnlockState, At
  <2>2. phase' = phase /\ pc'[t] = "enqueue" /\ threadState'[e] = "QUEUED" /\ priority' = priority
    BY <1>5, <1>t, <2>1 DEF UnlockState, Goto, SetState
  <2>3. call'[t].elem = e /\ call'[t].queue = priority[e] /\ call'[t].op = "unlock"
    BY <1>5, <1>t, <1>c, <2>1 DEF UnlockState, CallRecord
  <2>4. \A u \in Threads : u = e => Home(u)' = priority[e]
    BY <2>2 DEF Home, HomeIn
  <2>5. phase' # "crashed" /\ pc'[t] \in EnqueuePCs
    BY <1>f, <2>2 DEF EnqueuePCs
  <2>. QED BY <1>e, <2>1, <2>2, <2>3, <2>4, <2>5
<1>6. ASSUME NEW c \in Threads, Create(t, c) PROVE PendingInv'
  <2>1. /\ phase' = phase /\ pc'[t] = "enqueue" /\ threadState'[c] = "QUEUED" /\ priority'[c] = 0
        /\ call'[t] = NewCall("create", NULL, c, 0)
    BY <1>6, <1>t DEF Create, Goto, SetState
  <2>2. call'[t].elem = c /\ call'[t].queue = 0 /\ call'[t].op = "create"
    BY <2>1 DEF NewCall
  <2>3. Home(c)' = 0
    BY <2>1 DEF Home, HomeIn
  <2>4. phase' # "crashed" /\ pc'[t] \in EnqueuePCs
    BY <1>f, <2>1 DEF EnqueuePCs
  <2>. QED BY <1>e, <2>1, <2>2, <2>3, <2>4
<1>7. CASE UnlockTest(t)
  <2>1. /\ phase' = phase /\ call' = call /\ mem' = mem
        /\ pc'[t] = IF mem.queue[m].front = NULL THEN "unlock_flag" ELSE "dequeue"
    BY <1>7, <1>t DEF UnlockTest, Goto
  <2>. QED BY <1>f, <2>1 DEF PendingInv, EnqueuePCs
<1>8. CASE DequeueFront(t)
  <2>. DEFINE first == mem.queue[m].front
  <2>1. pc[t] = "dequeue" /\ first # NULL /\ call[t].op = "unlock"
    BY <1>8, <1>p, OpAt DEF DequeueFront, At
  <2>2. m \in Mutexes /\ m \in Queues
    BY <2>1 DEF TypeInv, CallsMatch, CallMatchesPC, Queues
  <2>3. /\ phase' = phase /\ pc'[t] = "dequeue_next" /\ UNCHANGED threadState
        /\ call' = [call EXCEPT ![t].elem = first]
    BY <1>8, <1>t, <2>1 DEF DequeueFront, Goto, blockVars
  <2>4. call'[t].elem = first /\ call'[t].arg = m
    BY <1>t, <1>c, <2>3 DEF CallRecord
  <2>5. first \in Threads /\ Home(first) = m
    <3>1. Settled = mem /\ ~\E u \in Threads : InHand(u)
      BY <1>f, <2>1 DEF Settled, Settle, InHand, Running
    <3>2. On \in Places /\ Lists(mem, On)
      BY <3>1, PlacesType DEF ListsInv
    <3>3. first \in Threads /\ On[first] = m
      BY <1>t, <2>1, <2>2, <3>2, Neighbours
    <3>. QED BY <3>1, <3>3 DEF On, Place
  <2>6. threadState[first] = "BLOCKED" /\ call[first].arg = m
    <3>1. threadState[first] = "BLOCKED" => call[first].op = "lock"
      BY <2>5 DEF StatesInv
    <3>2. Home(first) = m <=> threadState[first] = "BLOCKED" /\ call[first].arg = m
      BY <1>t, <2>2, <2>5, <3>1, HomeCases DEF Home
    <3>. QED BY <2>5, <3>2
  <2>7. first # t
    BY <1>b, <2>1, <2>6 DEF EnqueuePCs
  <2>8. phase' # "crashed"
    BY <1>f, <2>3
  <2>. HIDE DEF first, m
  <2>. QED BY <1>w, <2>3, <2>4, <2>5, <2>6, <2>7, <2>8
<1>9. CASE DequeueNext(t) \/ DequeueRear(t)
  <2>1. /\ phase' = phase /\ pc[t] \in {"dequeue_next", "dequeue_rear"}
        /\ pc'[t] \in {"dequeue_rear", "unlock_state"} /\ UNCHANGED <<call, threadState>>
    BY <1>9, <1>t DEF DequeueNext, DequeueRear, At, Goto, blockVars
  <2>2. e \in Threads /\ threadState[e] = "BLOCKED" /\ call[e].arg = m
    BY <1>p, <2>1
  <2>3. e # t
    BY <1>b, <2>1, <2>2 DEF EnqueuePCs
  <2>4. phase' # "crashed"
    BY <1>f, <2>1
  <2>. QED BY <1>w, <2>1, <2>2, <2>3, <2>4
<1>10. CASE \/ CallSchedule(t) \/ ExitValue(t) \/ JoinTest(t) \/ JoinValue(t) \/ JoinRun(t)
            \/ LockTest(t) \/ UnlockFlag(t) \/ Yield(t) \/ Finish(t)
            \/ \E u \in Threads : Join(t, u)
            \/ \E v \in Values \cup {NULL} : Exit(t, v)
            \/ \E x \in Mutexes : Lock(t, x) \/ Unlock(t, x)
  <2>1. phase' # "crashed"
    BY <1>f, <1>10 DEF CallSchedule, ExitValue, JoinTest, JoinValue, JoinRun, LockTest, UnlockFlag,
       Yield, Finish, Join, Exit, Lock, Unlock
  <2>2. CallSchedule(t) => call[t].op \in {"yield", "exit", "join", "lock"}
    BY OpAt DEF CallSchedule, At
  <2>3. pc'[t] \notin EnqueuePCs \cup {"dequeue", "dequeue_next", "dequeue_rear", "unlock_state"}
    <3>1. CASE CallSchedule(t)
      BY <1>t, <2>2, <3>1 DEF CallSchedule, Goto, AfterSchedule, EnqueuePCs
    <3>2. CASE ~CallSchedule(t)
      BY <1>t, <1>10, <3>2 DEF ExitValue, JoinTest, JoinValue, JoinRun, LockTest, UnlockFlag,
         Yield, Finish, Join, Exit, Lock, Unlock, Goto, Return, At, clientVars, EnqueuePCs
    <3>. QED BY <3>1, <3>2
  <2>. QED BY <1>n, <2>1, <2>3
<1>. QED BY <1>1, <1>2, <1>3, <1>4, <1>5, <1>6, <1>7, <1>8, <1>9, <1>10 DEF LibraryStep, ClientStep

\* While schedule() runs, nothing is pending.
LEMMA NothingPending ==
  ASSUME TypeInv, QueueInv, SchedulerStep \/ Tick \/ TickIgnored \/ Ended, WindowsClosed
  PROVE  PendingInv'
<1>. USE DEF QueueInv
<1>1. CASE TickIgnored \/ Ended
  <2>1. UNCHANGED <<phase, currentThread, mem, threadState, priority, pc, call>>
    BY <1>1 DEF TickIgnored, Ended, vars, schedulerVars, blockVars, clientVars
  <2>2. \A u \in ThreadOrNull : Home(u)' = Home(u)
    BY <2>1 DEF Home, HomeIn
  <2>. QED BY <2>1, <2>2 DEF PendingInv, Home, HomeIn
<1>2. CASE SchedulerStep \/ Tick
  <2>1. phase' = phase /\ pc' = pc
    BY <1>2, SchedulerFrame
  <2>2. currentThread \in Threads /\ (sched # "idle" \/ Tick)
    BY <1>2 DEF SchedulerStep, MaintainNextLevel, MaintainKeep, MaintainPromote, Dispatch,
       DispatchLast, DispatchAlone, DispatchYield, DispatchExited, DispatchKeep, DispatchExpired,
       DispatchBlocked, Tick, TypeInv, Current
  <2>3. pc[currentThread] \in CallBoundaries
    BY <2>2 DEF AtBoundaries, Tick, WindowsClosed
  <2>4. currentThread' \in Threads => pc[currentThread'] \in CallBoundaries
    <3>1. CASE currentThread' = currentThread
      BY <2>3, <3>1
    <3>2. CASE sched # "idle"
      BY <3>2 DEF AtBoundaries
    <3>. QED BY <2>2, <3>1, <3>2 DEF Tick
  <2>. QED BY <2>1, <2>4 DEF PendingInv, CallBoundaries, EnqueuePCs
<1>. QED BY <1>1, <1>2

\* Every step keeps QueueInv, unless schedule() lets a blocked thread go on.
LEMMA QueueStep ==
  ASSUME WindowsClosed, TypeInv, QueueInv, ~Deadlocked, Next
  PROVE  QueueInv'
<1>1. AtBoundaries' /\ TimerInv' /\ NewInv'
  BY BoundariesStep, TimerStep, NewStep DEF QueueInv
<1>2. ASSUME NEW c \in Threads, FirstCreate(c) PROVE QueueInv'
  <2>1. ScanInv'
    BY <1>2 DEF FirstCreate, TypeInv, Current, ScanInv
  <2>. QED BY <1>1, <1>2, <2>1, FirstCreateStep DEF QueueInv
<1>3. ASSUME NEW t \in Threads, LibraryStep(t) \/ ClientStep(t) PROVE QueueInv'
  <2>1. StatesInv' /\ PendingInv'
    BY <1>3, StatesStep, PendingStep
  <2>2. ListsInv'
    BY <1>3, QuietStep, HandStep, EnqueueStep, DequeueStep DEF LibraryStep, ClientStep
  <2>3. ScanInv'
    <3>1. CASE CallSchedule(t)
      BY <3>1, EnterStep
    <3>2. CASE ~CallSchedule(t)
      BY <1>3, <3>2, ThreadFrame DEF ScanInv
    <3>. QED BY <3>1, <3>2
  <2>. QED BY <1>1, <2>1, <2>2, <2>3 DEF QueueInv
<1>4. CASE SchedulerStep
  <2>1. PendingInv'
    BY <1>4, NothingPending
  <2>2. CASE Dispatch
    <3>1. ScanInv'
      BY <2>2 DEF Dispatch, DispatchLast, DispatchAlone, DispatchYield, DispatchExited,
         DispatchKeep, DispatchExpired, DispatchBlocked, Requeue, SwitchTo, LeaveSchedule, ScanInv
    <3>. QED BY <1>1, <2>1, <2>2, <3>1, DispatchQueues DEF QueueInv
  <2>3. CASE MaintainNextLevel \/ MaintainKeep \/ MaintainPromote
    BY <1>1, <2>1, <2>3, MaintainStep DEF QueueInv
  <2>. QED BY <1>4, <2>2, <2>3 DEF SchedulerStep
<1>5. CASE Tick
  <2>1. PendingInv' /\ ScanInv'
    BY <1>5, NothingPending, EnterStep
  <2>2. /\ UNCHANGED <<phase, currentThread, mem, threadState, priority, pc, call, holds>>
        /\ sched' # "idle"
    BY <1>5 DEF Tick, EnterSchedule, blockVars, clientVars
  <2>3. StatesInv'
    BY <2>2 DEF StatesInv, QueueInv
  <2>4. ListsInv'
    <3>1. \A u \in Threads : Home(u)' = Home(u)
      BY <2>2 DEF Home, HomeIn
    <3>2. \A u \in Threads : Place(u)' = Place(u)
      BY <2>2, <3>1 DEF Place, InHand, Running
    <3>3. Settled' = Settled
      BY <2>2 DEF Settled
    <3>. QED BY <3>2, <3>3, SameLists DEF QueueInv
  <2>. QED BY <1>1, <2>1, <2>3, <2>4 DEF QueueInv
<1>6. CASE TickIgnored \/ Ended
  <2>1. PendingInv'
    BY <1>6, NothingPending
  <2>2. UNCHANGED <<phase, currentThread, sched, scan, mem, threadState, priority, pc, call, holds>>
    BY <1>6 DEF TickIgnored, Ended, vars, schedulerVars, blockVars, clientVars
  <2>3. StatesInv'
    BY <2>2 DEF StatesInv, QueueInv
  <2>4. \A u \in Threads : Home(u)' = Home(u)
    BY <2>2 DEF Home, HomeIn
  <2>5. ListsInv'
    <3>1. \A u \in Threads : Place(u)' = Place(u)
      BY <2>2, <2>4 DEF Place, InHand, Running
    <3>2. Settled' = Settled
      BY <2>2 DEF Settled
    <3>. QED BY <3>1, <3>2, SameLists DEF QueueInv
  <2>6. ScanInv'
    BY <2>2 DEF ScanInv, QueueInv, Home, HomeIn
  <2>. QED BY <1>1, <2>1, <2>3, <2>5, <2>6 DEF QueueInv
<1>. QED BY <1>2, <1>3, <1>4, <1>5, <1>6 DEF Next

\* Initially every list is empty.
LEMMA QueueInit == Init => QueueInv
<1>. SUFFICES ASSUME Init PROVE QueueInv
  OBVIOUS
<1>1. AtBoundaries /\ TimerInv /\ NewInv /\ StatesInv /\ PendingInv /\ ScanInv
  BY DEF Init, AtBoundaries, TimerInv, TimerArmed, NewInv, StatesInv, PendingInv, ScanInv,
         CallBoundaries, NoCall, NewCall
<1>2. Lists(Settled, On)
  <2>1. Settled = mem
    BY DEF Init, Settled
  <2>2. \A t \in Threads : On[t] = NULL
    BY DEF Init, On, Place, InHand, Running, Home, HomeIn
  <2>3. /\ \A t \in Threads : mem.next[t] = NULL
        /\ \A q \in Queues : mem.queue[q].front = NULL /\ mem.queue[q].rear = NULL
    BY DEF Init, EmptyQueues
  <2>. DEFINE pos == [t \in Threads |-> 0]
  <2>4. pos \in [Threads -> Nat]
    OBVIOUS
  <2>5. \A q \in Queues : Linked(mem, q, On, pos)
    <3>1. ASSUME NEW q \in Queues, NEW t \in Threads PROVE On[t] # q
      BY <2>2
    <3>. HIDE DEF pos
    <3>. QED BY <2>3, <3>1 DEF Linked
  <2>. QED BY <2>1, <2>2, <2>3, <2>4, <2>5 DEF Lists
<1>. QED BY <1>1, <1>2 DEF QueueInv, ListsInv

\* The invariant says of the lists what QueuesMatchStates does.
LEMMA QueueInvMatches ==
  ASSUME TypeInv, QueueInv, WindowsClosed
  PROVE  QueuesMatchStates
<1>. SUFFICES ASSUME Interruptible
              PROVE  /\ \A q \in Queues : WellFormed(q)
                     /\ \A t \in Threads :
                          {q \in Queues : t \in Chain(q)} =
                            CASE threadState[t] = "QUEUED"  -> {priority[t]}
                              [] threadState[t] = "BLOCKED" -> {call[t].arg}
                              [] OTHER                      -> {}
                     /\ \A t \in Threads \ {currentThread} :
                          threadState[t] \in {"NEW", "QUEUED", "BLOCKED", "EXITED"}
  BY DEF QueuesMatchStates
<1>1. currentThread \in Threads /\ pc[currentThread] \in CallBoundaries
  BY DEF Interruptible, TypeInv, Current, WindowsClosed
<1>2. /\ On = [t \in Threads |-> Home(t)] /\ On \in Places /\ mem \in Heap /\ Lists(mem, On)
  BY <1>1, ScheduleRests
<1>3. \A q \in Queues : Chain(q) = {t \in Threads : Home(t) = q} /\ WellFormed(q)
  BY <1>2, ChainsAreLists
<1>4. ASSUME NEW t \in Threads
      PROVE  {q \in Queues : t \in Chain(q)} =
               CASE threadState[t] = "QUEUED"  -> {priority[t]}
                 [] threadState[t] = "BLOCKED" -> {call[t].arg}
                 [] OTHER                      -> {}
  <2>1. {q \in Queues : t \in Chain(q)} = {q \in Queues : Home(t) = q}
    BY <1>3
  <2>2. Home(t) \in Queues \cup {NULL}
    BY PlacesType DEF QueueInv
  <2>3. CASE threadState[t] = "QUEUED"
    BY <2>1, <2>2, <2>3 DEF Home, HomeIn, TypeInv, TypeOK, Queues
  <2>4. CASE threadState[t] = "BLOCKED"
    <3>1. call[t].arg \in Queues
      BY <2>4 DEF QueueInv, StatesInv, TypeInv, CallsMatch, CallMatchesPC, Queues
    <3>. QED BY <2>1, <2>4, <3>1 DEF Home, HomeIn
  <2>5. CASE threadState[t] \notin {"QUEUED", "BLOCKED"}
    BY <2>1, <2>5 DEF Home, HomeIn
  <2>. QED BY <2>3, <2>4, <2>5
<1>. QED BY <1>3, <1>4 DEF QueueInv, StatesInv

\* QueueInv is an invariant up to the first time schedule() finds nothing to run
\* but a blocked thread.
LEMMA QueueInvariance ==
  ASSUME WindowsClosed
  PROVE  Spec /\ []~Deadlocked => []QueueInv
<1>1. TypeInv /\ QueueInv /\ ~Deadlocked /\ [Next]_vars => QueueInv'
  <2>1. ASSUME QueueInv, UNCHANGED vars PROVE QueueInv'
    BY <2>1 DEF vars, schedulerVars, blockVars, clientVars, QueueInv, AtBoundaries, TimerInv,
       TimerArmed, NewInv, StatesInv, PendingInv, ScanInv, ListsInv, Settled, On, Place, InHand,
       Running, Home, HomeIn
  <2>. QED BY <2>1, QueueStep
<1>. QED BY QueueInit, <1>1, TypeInvariance, PTL DEF Spec

\* A thread is on the list its state says and on no other, for any constants with
\* the windows closed, until a deadlock.
THEOREM QueuesMatch ==
  ASSUME WindowsClosed
  PROVE  Spec /\ []~Deadlocked => []QueuesMatchStates
<1>1. TypeInv /\ QueueInv => QueuesMatchStates
  BY QueueInvMatches
<1>. QED BY QueueInvariance, <1>1, TypeInvariance, PTL

\* The process never follows NULL in a list, on the same terms.
THEOREM NeverCrashes ==
  ASSUME WindowsClosed
  PROVE  Spec /\ []~Deadlocked => [](phase # "crashed")
<1>1. QueueInv => phase # "crashed"
  BY DEF QueueInv, PendingInv
<1>. QED BY QueueInvariance, <1>1, PTL

-----------------------------------------------------------------------------
(***************************************************************************)
(* Where the windows are closed no wake-up is lost; and as long as the     *)
(* threads take the mutexes in an order, schedule() always finds a thread  *)
(* to run, and the process ends with its last thread.                      *)
(***************************************************************************)

\* Thread t is blocked in its lock of m.
Waits(t, m) == threadState[t] = "BLOCKED" /\ call[t].arg = m

\* Thread t is in its lock of m and will test the flag.
Comes(t, m) == call[t].op = "lock" /\ call[t].arg = m /\ threadState[t] # "BLOCKED"

\* If anyone waits for m, someone is on its way to take it.
Woken(m) == (\A t \in Threads : ~Waits(t, m)) \/ (\E t \in Threads : Comes(t, m))

\* A mutex is owned or, if anyone waits, about to be; a thread blocks only while
\* the mutex is taken, and clears the flag only after it has woken a waiter.
WakeInv ==
  /\ \A m \in Mutexes : /\ flag[m] = 1 => \E t \in Threads : Owns(t, m)
                        /\ flag[m] = 0 => Woken(m)
  /\ currentThread \in Threads =>
       LET c == call[currentThread]
           p == pc[currentThread]
       IN  /\ p = "lock_block" => flag[c.arg] = 1
           /\ c.op = "unlock" /\ p \in EnqueuePCs \cup {"unlock_flag"} => Woken(c.arg)

\* No new waiter, and whoever comes still comes.
LEMMA WokenKept ==
  ASSUME NEW m \in Mutexes,
         \A t \in Threads : Waits(t, m)' => Waits(t, m),
         \A t \in Threads : Comes(t, m) => Comes(t, m)'
  PROVE  Woken(m) => Woken(m)'
BY DEF Woken

\* What schedule() does loses no wake-up.
LEMMA SchedulerWakes ==
  ASSUME WindowsClosed, TypeInv, QueueInv, WakeInv, SchedulerStep \/ Tick \/ TickIgnored \/ Ended
  PROVE  WakeInv'
<1>. USE DEF QueueInv
<1>1. /\ UNCHANGED <<phase, retval, flag, pc, call, holds>>
      /\ \A u \in Threads : \/ threadState'[u] = threadState[u]
                            \/ threadState'[u] \in {"QUEUED", "RUNNING"}
  BY SchedulerFrame
<1>2. ASSUME NEW m \in Mutexes PROVE Woken(m) => Woken(m)'
  BY <1>1, WokenKept DEF Waits, Comes
<1>3. \A m \in Mutexes, t \in Threads : Owns(t, m)' <=> Owns(t, m)
  BY <1>1 DEF Owns, Unlocking
<1>4. currentThread' = currentThread \/ (currentThread' \in Threads => pc[currentThread'] \in CallBoundaries)
  <2>1. currentThread' # currentThread => sched # "idle"
    BY DEF SchedulerStep, MaintainNextLevel, MaintainKeep, MaintainPromote, Dispatch, DispatchLast,
       DispatchAlone, DispatchYield, DispatchExited, DispatchKeep, DispatchExpired, DispatchBlocked,
       Tick, TickIgnored, Ended, vars, schedulerVars
  <2>. QED BY <2>1 DEF AtBoundaries
<1>5. ASSUME currentThread \in Threads, call[currentThread].op = "unlock"
      PROVE  call[currentThread].arg \in Mutexes
  BY <1>5 DEF TypeInv, CallsMatch, CallMatchesPC
<1>6. \A m \in Mutexes : /\ flag'[m] = 1 => \E t \in Threads : Owns(t, m)'
                         /\ flag'[m] = 0 => Woken(m)'
  BY <1>1, <1>2, <1>3 DEF WakeInv
<1>7. ASSUME currentThread' \in Threads
      PROVE  /\ pc'[currentThread'] = "lock_block" => flag'[call'[currentThread'].arg] = 1
             /\ call'[currentThread'].op = "unlock"
                /\ pc'[currentThread'] \in EnqueuePCs \cup {"unlock_flag"} =>
                  Woken(call[currentThread].arg)'
  <2>1. CASE pc[currentThread'] \in CallBoundaries
    BY <1>1, <2>1 DEF CallBoundaries, EnqueuePCs
  <2>2. CASE currentThread' = currentThread
    <3>1. pc[currentThread] = "lock_block" => flag[call[currentThread].arg] = 1
      BY <1>7, <2>2 DEF WakeInv
    <3>2. ASSUME call[currentThread].op = "unlock", pc[currentThread] \in EnqueuePCs \cup {"unlock_flag"},
                 NEW m \in Mutexes, m = call[currentThread].arg
          PROVE  Woken(call[currentThread].arg)'
      <4>1. Woken(m)
        BY <1>7, <2>2, <3>2 DEF WakeInv
      <4>2. Woken(m)'
        BY <1>2, <4>1
      <4>. QED BY <1>1, <2>2, <3>2, <4>2 DEF Woken, Waits, Comes
    <3>. QED BY <1>1, <1>5, <1>7, <2>2, <3>1, <3>2
  <2>. QED BY <1>4, <1>7, <2>1, <2>2
<1>. QED BY <1>6, <1>7 DEF WakeInv

\* Nor does a statement of a call: a thread blocks only after it has found the
\* flag set, and unlock clears it only after it has found no waiter or woken one.
LEMMA ThreadWakes ==
  ASSUME TypeInv, QueueInv, WakeInv, NEW t \in Threads, LibraryStep(t) \/ ClientStep(t)
  PROVE  WakeInv'
<1>. USE DEF QueueInv
<1>t. /\ threadState \in [Threads -> States] /\ call \in [Threads -> CallRecord]
      /\ pc \in [Threads -> PCs] /\ flag \in [Mutexes -> {0, 1}]
      /\ holds \in [Threads -> SUBSET Mutexes]
  BY DEF TypeInv, TypeOK
<1>f. /\ sched = "idle" /\ currentThread = t /\ currentThread' = t
      /\ \A u \in Threads \ {t} : call'[u] = call[u] /\ holds'[u] = holds[u]
  BY ThreadFrame
<1>c. call[t] \in CallRecord
  BY <1>t
<1>b. threadState[t] = "BLOCKED" =>
        call[t].op = "lock" /\ (pc[t] \in EnqueuePCs \/ pc[t] = "schedule")
  BY <1>f DEF StatesInv
<1>m. call[t].op \in {"lock", "unlock"} => call[t].arg \in Mutexes
  BY DEF TypeInv, CallsMatch, CallMatchesPC
<1>p. /\ pc[t] = "lock_block" => flag[call[t].arg] = 1
      /\ call[t].op = "unlock" /\ pc[t] \in EnqueuePCs \cup {"unlock_flag"} => Woken(call[t].arg)
  BY <1>f DEF WakeInv
\* Only the current statement matters of the second half of WakeInv.
<1>w. ASSUME \A m \in Mutexes : /\ flag'[m] = 1 => \E u \in Threads : Owns(u, m)'
                                /\ flag'[m] = 0 => Woken(m)',
             pc'[t] = "lock_block" => flag'[call'[t].arg] = 1,
             NEW x \in Mutexes,
             call'[t].op = "unlock" /\ pc'[t] \in EnqueuePCs \cup {"unlock_flag"} =>
               call'[t].arg = x /\ Woken(x)'
      PROVE  WakeInv'
  <2>1. call'[t].arg = x /\ Woken(x)' => Woken(call[t].arg)'
    BY DEF Woken, Waits, Comes
  <2>. QED BY <1>f, <1>w, <2>1 DEF WakeInv
\* A statement that neither blocks t nor ends its lock.
<1>k. ASSUME UNCHANGED flag,
             \A u \in Threads \ {t} : threadState'[u] = threadState[u] \/ threadState'[u] = "QUEUED",
             \A m \in Mutexes : Owns(t, m) => Owns(t, m)',
             threadState'[t] = "BLOCKED" =>
               threadState[t] = "BLOCKED" /\ call'[t].arg = call[t].arg,
             call[t].op = "lock" => call'[t].op = "lock" /\ call'[t].arg = call[t].arg
      PROVE  \A m \in Mutexes : /\ Woken(m) => Woken(m)'
                                /\ flag'[m] = 1 => \E u \in Threads : Owns(u, m)'
                                /\ flag'[m] = 0 => Woken(m)'
  <2>1. ASSUME NEW m \in Mutexes PROVE Woken(m) => Woken(m)'
    BY <1>f, <1>k, WokenKept DEF Waits, Comes
  <2>2. ASSUME NEW m \in Mutexes, NEW u \in Threads, Owns(u, m) PROVE Owns(u, m)'
    BY <1>f, <1>k, <2>2 DEF Owns, Unlocking
  <2>. QED BY <1>k, <2>1, <2>2 DEF WakeInv
\* What is still to be said of such a statement.
<1>q. ASSUME UNCHANGED flag,
             \A u \in Threads \ {t} : threadState'[u] = threadState[u] \/ threadState'[u] = "QUEUED",
             \A m \in Mutexes : Owns(t, m) => Owns(t, m)',
             threadState'[t] = "BLOCKED" =>
               threadState[t] = "BLOCKED" /\ call'[t].arg = call[t].arg,
             call[t].op = "lock" => call'[t].op = "lock" /\ call'[t].arg = call[t].arg,
             pc'[t] # "lock_block",
             call'[t].op = "unlock" /\ pc'[t] \in EnqueuePCs \cup {"unlock_flag"} =>
               /\ call[t].op = "unlock" /\ call'[t].arg = call[t].arg
               /\ pc[t] \in EnqueuePCs
      PROVE  WakeInv'
  <2>1. \A m \in Mutexes : /\ Woken(m) => Woken(m)'
                           /\ flag'[m] = 1 => \E u \in Threads : Owns(u, m)'
                           /\ flag'[m] = 0 => Woken(m)'
    BY <1>k, <1>q
  <2>2. CASE call'[t].op = "unlock" /\ pc'[t] \in EnqueuePCs \cup {"unlock_flag"}
    <3>. DEFINE x == call[t].arg
    <3>1. x \in Mutexes /\ Woken(x) /\ call'[t].arg = x
      BY <1>m, <1>p, <1>q, <2>2
    <3>. HIDE DEF x
    <3>2. Woken(x)'
      <4>1. ASSUME NEW m \in Mutexes, m = x PROVE Woken(m)'
        BY <2>1, <3>1, <4>1
      <4>2. \A m \in Mutexes : m = x => Woken(m)'
        BY <4>1
      <4>. QED BY <1>m, <2>2, <3>1, <4>2 DEF Woken, Waits, Comes, x
    <3>. QED BY <1>q, <1>w, <2>1, <3>1, <3>2
  <2>3. CASE ~(call'[t].op = "unlock" /\ pc'[t] \in EnqueuePCs \cup {"unlock_flag"})
    BY <1>f, <1>q, <2>1, <2>3 DEF WakeInv
  <2>. QED BY <2>2, <2>3
<1>o. ASSUME NEW m \in Mutexes, UNCHANGED holds, Owns(t, m),
             call[t].op = "unlock" => call'[t].op = "unlock" /\ call'[t].arg = call[t].arg
      PROVE  Owns(t, m)'
  BY <1>o DEF Owns, Unlocking
<1>1. CASE CallSchedule(t)
  <2>1. /\ call[t].op \in {"yield", "exit", "join", "lock"} /\ pc[t] = "schedule"
        /\ UNCHANGED <<flag, threadState, holds>>
        /\ pc'[t] = AfterSchedule(call[t].op)
        /\ call[t].op # "yield" => call' = call
        /\ call[t].op = "yield" => call'[t] = NoCall
    BY <1>1, <1>t, OpAt DEF CallSchedule, At, Goto, blockVars
  <2>2. pc'[t] \in {"user", "returned", "join_test", "lock_test"}
    BY <2>1 DEF AfterSchedule
  <2>. QED BY <1>b, <1>o, <1>q, <2>1, <2>2 DEF NoCall, NewCall, EnqueuePCs
<1>2. CASE \/ EnqueueTest(t) \/ EnqueueFront(t) \/ EnqueueNext(t)
           \/ UnlockTest(t) \/ DequeueNext(t) \/ DequeueRear(t) \/ ExitValue(t) \/ JoinTest(t)
           \/ Finish(t)
  <2>1. /\ UNCHANGED <<flag, threadState, holds, call>>
        /\ pc'[t] # "lock_block"
    BY <1>2, <1>t DEF EnqueueTest, EnqueueFront, EnqueueNext, UnlockTest, DequeueNext, DequeueRear,
       ExitValue, JoinTest, Finish, At, Goto, blockVars, clientVars
  <2>2. CASE ~UnlockTest(t)
    <3>1. pc'[t] \in EnqueuePCs \cup {"unlock_flag"} => pc[t] \in EnqueuePCs
      BY <1>2, <1>t, <2>2 DEF EnqueueTest, EnqueueFront, EnqueueNext, DequeueNext, DequeueRear,
         ExitValue, JoinTest, Finish, At, Goto, clientVars, EnqueuePCs
    <3>. QED BY <1>o, <1>q, <2>1, <3>1
  <2>3. CASE UnlockTest(t)
    <3>. DEFINE m == call[t].arg
    <3>1. /\ pc[t] = "unlock_test" /\ mem' = mem /\ m \in Mutexes
          /\ pc'[t] = IF mem.queue[m].front = NULL THEN "unlock_flag" ELSE "dequeue"
      BY <1>t, <1>m, <2>3, OpAt DEF UnlockTest, At, Goto
    <3>2. mem.queue[m].front = NULL => \A u \in Threads : ~Waits(u, m)
      <4>1. Settled = mem /\ ~\E u \in Threads : InHand(u)
        BY <1>f, <3>1 DEF Settled, Settle, InHand, Running
      <4>2. Lists(mem, On) /\ \A u \in Threads : On[u] = Home(u)
        BY <4>1 DEF ListsInv, On, Place
      <4>3. m \in Queues
        BY <3>1 DEF Queues
      <4>4. ASSUME NEW u \in Threads, Waits(u, m) PROVE On[u] = m
        BY <4>2, <4>4 DEF Waits, Home, HomeIn
      <4>. HIDE DEF m
      <4>. QED BY <4>2, <4>3, <4>4 DEF Lists, Linked
    <3>3. pc'[t] = "unlock_flag" => \A u \in Threads : ~Waits(u, call[t].arg)'
      BY <2>1, <3>1, <3>2 DEF Waits
    <3>4. pc'[t] \notin EnqueuePCs
      BY <3>1 DEF EnqueuePCs
    <3>5. \A y \in Mutexes : /\ flag'[y] = 1 => \E u \in Threads : Owns(u, y)'
                             /\ flag'[y] = 0 => Woken(y)'
      BY <1>k, <1>o, <2>1
    <3>6. pc'[t] = "unlock_flag" => Woken(call[t].arg)'
      BY <3>3 DEF Woken
    <3>. QED BY <1>f, <2>1, <3>4, <3>5, <3>6 DEF WakeInv
  <2>. QED BY <2>2, <2>3
<1>3. CASE EnqueueRear(t)
  <2>1. /\ UNCHANGED <<flag, threadState, holds>> /\ call[t].op \in {"create", "lock", "unlock"}
        /\ pc[t] = "enqueue_rear"
        /\ call[t].op = "create" => Return(t)
        /\ call[t].op = "lock" => Goto(t, "schedule") /\ Begin(t, "lock", call[t].arg)
        /\ call[t].op = "unlock" => Goto(t, "unlock_flag") /\ UNCHANGED call
    BY <1>3, OpAt DEF EnqueueRear, At, EnqueuePCs, blockVars
  <2>2. /\ call[t].op = "lock" => call'[t].op = "lock" /\ call'[t].arg = call[t].arg
        /\ call[t].op = "unlock" => call' = call
        /\ call[t].op = "create" => call'[t].op = "none"
        /\ pc'[t] \in {"user", "schedule", "unlock_flag"}
    BY <1>t, <2>1 DEF Return, Goto, Begin, NoCall, NewCall
  <2>3. pc[t] \in EnqueuePCs
    BY <2>1 DEF EnqueuePCs
  <2>. QED BY <1>b, <1>o, <1>q, <2>1, <2>2, <2>3
<1>4. CASE JoinValue(t) \/ DequeueFront(t)
  <2>1. /\ UNCHANGED <<flag, threadState, holds>>
        /\ pc[t] \in {"join_value", "dequeue"} /\ call[t].op # "lock"
    BY <1>4, OpAt DEF JoinValue, DequeueFront, At, blockVars
  <2>2. call'[t].op = call[t].op /\ call'[t].arg = call[t].arg
    BY <1>4, <1>t, <1>c DEF JoinValue, DequeueFront, CallRecord
  <2>3. pc'[t] \in {"join_run", "dequeue", "dequeue_next"}
    BY <1>4, <1>t, <2>1 DEF JoinValue, DequeueFront, Goto, At
  <2>. QED BY <1>b, <1>o, <1>q, <2>1, <2>2, <2>3 DEF EnqueuePCs
<1>5. CASE JoinRun(t) \/ Yield(t) \/ \E u \in Threads : Join(t, u)
  <2>1. /\ UNCHANGED <<flag, holds>> /\ call[t].op \notin {"lock", "unlock"}
        /\ threadState'[t] # "BLOCKED" /\ \A u \in Threads \ {t} : threadState'[u] = threadState[u]
        /\ pc'[t] \in {"user", "schedule", "join_test"}
        /\ call'[t].op \in {"none", "yield", "join"}
    BY <1>5, <1>t, OpAt DEF JoinRun, Yield, Join, At, SetState, Goto, Return, Begin, NoCall, NewCall
  <2>. QED BY <1>o, <1>q, <2>1
<1>6. ASSUME NEW v \in Values \cup {NULL}, Exit(t, v) PROVE WakeInv'
  <2>1. /\ UNCHANGED <<flag, holds>> /\ call[t].op \notin {"lock", "unlock"}
        /\ threadState'[t] # "BLOCKED" /\ \A u \in Threads \ {t} : threadState'[u] = threadState[u]
        /\ pc'[t] # "lock_block" /\ call'[t].op = "exit"
    BY <1>6, <1>t, OpAt DEF Exit, At, SetState, Goto, Begin, NewCall
  <2>. QED BY <1>o, <1>q, <2>1
<1>7. ASSUME NEW c \in Threads, Create(t, c) PROVE WakeInv'
  <2>1. /\ UNCHANGED <<flag, holds>> /\ call[t].op \notin {"lock", "unlock"} /\ c # t
        /\ pc[t] = "user" /\ pc'[t] # "lock_block" /\ call'[t].op = "create"
        /\ threadState'[t] = threadState[t]
        /\ \A u \in Threads : threadState'[u] = threadState[u] \/ threadState'[u] = "QUEUED"
    BY <1>7, <1>t, <1>f, OpAt DEF Create, At, SetState, Goto, NewCall, NewInv
  <2>2. threadState[t] # "BLOCKED"
    BY <1>b, <2>1 DEF EnqueuePCs
  <2>. QED BY <1>o, <1>q, <2>1, <2>2
<1>8. ASSUME NEW x \in Mutexes, Lock(t, x) \/ Unlock(t, x) PROVE WakeInv'
  <2>1. /\ UNCHANGED <<flag, threadState>> /\ call[t].op \notin {"lock", "unlock"} /\ pc[t] = "user"
        /\ pc'[t] \in {"lock_test", "unlock_test"}
        /\ Lock(t, x) => holds' = holds
        /\ Unlock(t, x) => /\ call'[t].op = "unlock" /\ call'[t].arg = x
                           /\ holds'[t] = holds[t] \ {x}
    BY <1>8, <1>t, OpAt DEF Lock, Unlock, At, Goto, Begin, NewCall, blockVars
  <2>2. threadState[t] # "BLOCKED"
    BY <1>b, <2>1 DEF EnqueuePCs
  <2>3. ASSUME NEW m \in Mutexes, Owns(t, m) PROVE Owns(t, m)'
    BY <1>8, <2>1, <2>3 DEF Owns, Unlocking
  <2>. QED BY <1>q, <2>1, <2>2, <2>3 DEF EnqueuePCs
<1>9. CASE LockTest(t)
  <2>1. PICK m \in Mutexes : m = call[t].arg
    BY <1>9, <1>m, OpAt DEF LockTest, At
  <2>2. /\ call[t].op = "lock" /\ UNCHANGED threadState
        /\ \A x \in Mutexes : flag'[x] = IF x = m THEN 1 ELSE flag[x]
        /\ threadState[t] # "BLOCKED"
    BY <1>9, <1>t, <1>b, <2>1, OpAt DEF LockTest, At, blockVars, EnqueuePCs
  <2>3. /\ flag[m] = 1 => UNCHANGED <<call, holds>> /\ pc'[t] = "lock_block"
        /\ flag[m] # 1 => call'[t].op = "none" /\ holds'[t] = holds[t] \cup {m} /\ pc'[t] = "user"
    BY <1>9, <1>t, <2>1 DEF LockTest, Goto, Return, NoCall, NewCall
  <2>4. ASSUME NEW u \in Threads, NEW x \in Mutexes, Owns(u, x) PROVE Owns(u, x)'
    BY <1>f, <2>1, <2>2, <2>3, <2>4 DEF Owns, Unlocking
  <2>5. \E u \in Threads : Owns(u, m)'
    <3>1. CASE flag[m] = 1
      BY <2>4, <3>1 DEF WakeInv
    <3>2. CASE flag[m] # 1
      BY <1>t, <2>3, <3>2 DEF Owns
    <3>. QED BY <3>1, <3>2
  <2>6. ASSUME NEW x \in Mutexes
        PROVE  /\ flag'[x] = 1 => \E u \in Threads : Owns(u, x)'
               /\ flag'[x] = 0 => Woken(x)'
    <3>1. CASE x = m
      BY <2>2, <2>5, <3>1
    <3>2. CASE x # m
      <4>1. \A u \in Threads : (Waits(u, x)' => Waits(u, x)) /\ (Comes(u, x) => Comes(u, x)')
        BY <1>f, <2>1, <2>2, <2>3, <3>2 DEF Waits, Comes
      <4>2. Woken(x) => Woken(x)'
        BY <4>1, WokenKept
      <4>. QED BY <2>2, <2>4, <3>2, <4>2 DEF WakeInv
    <3>. QED BY <3>1, <3>2
  <2>7. pc'[t] = "lock_block" => flag'[call'[t].arg] = 1
    BY <2>1, <2>2, <2>3
  <2>8. call'[t].op # "unlock"
    BY <2>2, <2>3
  <2>. QED BY <1>w, <2>6, <2>7, <2>8
<1>10. CASE LockBlock(t)
  <2>1. PICK m \in Mutexes : m = call[t].arg
    BY <1>10, <1>m, OpAt DEF LockBlock, At
  <2>2. /\ call[t].op = "lock" /\ UNCHANGED <<flag, holds>> /\ flag[m] = 1 /\ pc'[t] = "enqueue"
        /\ \A u \in Threads \ {t} : threadState'[u] = threadState[u]
    BY <1>10, <1>t, <1>p, <2>1, OpAt DEF LockBlock, At, SetState, Goto
  <2>3. call'[t].op = "lock" /\ call'[t].arg = m
    BY <1>10, <1>t, <1>c, <2>1, <2>2 DEF LockBlock, CallRecord
  <2>4. ASSUME NEW x \in Mutexes
        PROVE  /\ flag'[x] = 1 => \E u \in Threads : Owns(u, x)'
               /\ flag'[x] = 0 => Woken(x)'
    <3>1. \A u \in Threads : Owns(u, x) => Owns(u, x)'
      BY <1>f, <2>2 DEF Owns, Unlocking
    <3>2. ASSUME x # m PROVE Woken(x) => Woken(x)'
      <4>1. \A u \in Threads : (Waits(u, x)' => Waits(u, x)) /\ (Comes(u, x) => Comes(u, x)')
        BY <1>f, <2>1, <2>2, <2>3, <3>2 DEF Waits, Comes
      <4>. QED BY <4>1, WokenKept
    <3>. QED BY <2>2, <3>1, <3>2 DEF WakeInv
  <2>. QED BY <1>w, <2>2, <2>3, <2>4
<1>11. CASE UnlockState(t)
  <2>1. PICK m \in Mutexes : m = call[t].arg
    BY <1>11, <1>m, OpAt DEF UnlockState, At
  <2>2. PICK u \in Threads : u = call[t].elem
    BY <1>11 DEF UnlockState, At, TypeInv, CallsMatch, CallMatchesPC
  <2>3. call[t].op = "unlock" /\ threadState[u] = "BLOCKED" /\ call[u].arg = m /\ u # t
    BY <1>11, <1>f, <1>b, <2>1, <2>2, OpAt DEF UnlockState, At, PendingInv
  <2>4. /\ UNCHANGED <<flag, holds>> /\ pc'[t] = "enqueue" /\ threadState'[u] = "QUEUED"
        /\ \A v \in Threads \ {u} : threadState'[v] = threadState[v]
    BY <1>11, <1>t, <2>2 DEF UnlockState, SetState, Goto
  <2>5. call'[t].op = "unlock" /\ call'[t].arg = m
    BY <1>11, <1>t, <1>c, <2>1, <2>3 DEF UnlockState, CallRecord
  <2>6. call'[u].op = "lock" /\ call'[u].arg = m
    BY <1>f, <2>3 DEF StatesInv
  <2>7. Woken(m)'
    <3>1. Comes(u, m)'
      BY <2>4, <2>6 DEF Comes
    <3>. QED BY <3>1 DEF Woken
  <2>8. threadState'[t] = "BLOCKED" => threadState[t] = "BLOCKED" /\ call'[t].arg = call[t].arg
    BY <2>1, <2>3, <2>4, <2>5
  <2>9. \A x \in Mutexes : /\ flag'[x] = 1 => \E v \in Threads : Owns(v, x)'
                           /\ flag'[x] = 0 => Woken(x)'
    BY <1>k, <1>o, <2>1, <2>3, <2>4, <2>5, <2>8
  <2>. QED BY <1>w, <2>4, <2>5, <2>7, <2>9
<1>12. CASE UnlockFlag(t)
  <2>1. PICK m \in Mutexes : m = call[t].arg
    BY <1>12, <1>m, OpAt DEF UnlockFlag, At
  <2>2. /\ call[t].op = "unlock" /\ UNCHANGED <<threadState, holds>> /\ Woken(m)
        /\ \A x \in Mutexes : flag'[x] = IF x = m THEN 0 ELSE flag[x]
        /\ pc'[t] = "user" /\ call'[t].op = "none"
    BY <1>12, <1>t, <1>p, <2>1, OpAt DEF UnlockFlag, At, blockVars, Return, Goto, NoCall, NewCall
  <2>3. threadState[t] # "BLOCKED"
    BY <1>b, <2>2
  <2>4. ASSUME NEW x \in Mutexes
        PROVE  /\ flag'[x] = 1 => \E u \in Threads : Owns(u, x)'
               /\ flag'[x] = 0 => Woken(x)'
    <3>1. \A u \in Threads : (Waits(u, x)' => Waits(u, x)) /\ (Comes(u, x) => Comes(u, x)')
      BY <1>f, <2>2, <2>3 DEF Waits, Comes
    <3>2. Woken(x) => Woken(x)'
      BY <3>1, WokenKept
    <3>3. \A u \in Threads : x # m /\ Owns(u, x) => Owns(u, x)'
      BY <1>f, <2>1, <2>2 DEF Owns, Unlocking
    <3>. QED BY <2>2, <3>2, <3>3 DEF WakeInv
  <2>. QED BY <1>w, <2>2, <2>4
<1>. QED BY <1>1, <1>2, <1>3, <1>4, <1>5, <1>6, <1>7, <1>8, <1>9, <1>10, <1>11, <1>12
         DEF LibraryStep, ClientStep

\* Every step loses no wake-up.
LEMMA WakeStep ==
  ASSUME WindowsClosed, TypeInv, QueueInv, WakeInv, Next
  PROVE  WakeInv'
<1>1. ASSUME NEW c \in Threads, FirstCreate(c) PROVE WakeInv'
  <2>1. /\ UNCHANGED <<flag, pc, call, holds>> /\ currentThread' = Main
        /\ \A t \in Threads : threadState[t] = "NEW" /\ pc[t] = "user" /\ call[t].op = "none"
        /\ \A t \in Threads : threadState'[t] # "BLOCKED"
    BY <1>1 DEF FirstCreate, clientVars, QueueInv, StatesInv, NewInv, TypeInv, TypeOK
  <2>2. \A t \in Threads, m \in Mutexes : Owns(t, m) => Owns(t, m)'
    BY <2>1 DEF Owns, Unlocking
  <2>3. \A m \in Mutexes : Woken(m)'
    BY <2>1 DEF Woken, Waits
  <2>. QED BY <2>1, <2>2, <2>3 DEF WakeInv
<1>2. CASE SchedulerStep \/ Tick \/ TickIgnored \/ Ended
  BY <1>2, SchedulerWakes
<1>. QED BY <1>1, <1>2, ThreadWakes DEF Next

LEMMA WakeInit == Init => WakeInv
BY DEF Init, ClearFlags, WakeInv, Woken, Waits

-----------------------------------------------------------------------------
\* Whoever asks for a mutex holds only mutexes of lower rank, as the sorters and
\* the checker of mtsort.c do, and every thread that holds one mutex at a time.
InOrder(rank) ==
  \A t \in Threads : call[t].op = "lock" => \A m \in holds[t] : rank[m] < rank[call[t].arg]

\* When schedule() finds nothing queued and the current thread cannot go on, no
\* thread is left behind in a wait queue.
LEMMA NobodyBlocked ==
  ASSUME NEW top \in Nat, NEW rank \in [Mutexes -> 0 .. top], InOrder(rank),
         TypeInv, QueueInv, WakeInv, sched = "dispatch", ~SomeQueued(mem),
         threadState[currentThread] \in {"BLOCKED", "EXITED"}
  PROVE  \A t \in Threads : threadState[t] \in {"NEW", "EXITED"}
<1>1. currentThread \in Threads
  BY DEF TypeInv, Current
<1>2. \A t \in Threads : threadState[t] # "QUEUED"
  <2>1. Lists(mem, On) /\ \A t \in Threads : On[t] = Home(t)
    BY <1>1, ScheduleRests
  <2>2. ASSUME NEW t \in Threads, threadState[t] = "QUEUED" PROVE FALSE
    <3>1. priority[t] \in Levels
      BY DEF TypeInv, TypeOK
    <3>2. On[t] = priority[t]
      BY <2>1, <2>2 DEF Home, HomeIn
    <3>3. mem.queue[priority[t]].front # NULL
      BY <2>1, <3>1, <3>2 DEF Lists, Linked, Queues
    <3>. QED BY <3>1, <3>3 DEF SomeQueued
  <2>. QED BY <2>2
<1>3. \A t \in Threads : threadState[t] \in {"NEW", "BLOCKED", "EXITED"}
  BY <1>2 DEF QueueInv, StatesInv
<1>4. ASSUME NEW b \in Threads, threadState[b] = "BLOCKED" PROVE FALSE
  <2>. DEFINE Wanted == {m \in Mutexes : \E t \in Threads : Waits(t, m)}
              Gaps == {top - rank[m] : m \in Wanted}
  <2>0. ASSUME NEW t \in Threads, threadState[t] = "BLOCKED"
        PROVE  call[t].op = "lock" /\ call[t].arg \in Wanted
    BY <2>0 DEF QueueInv, StatesInv, TypeInv, CallsMatch, CallMatchesPC, Waits
  <2>1. \A m \in Mutexes : rank[m] \in 0 .. top
    OBVIOUS
  <2>2. Gaps \in SUBSET Nat /\ Gaps # {}
    <3>1. Gaps \in SUBSET Nat
      BY <2>1
    <3>2. top - rank[call[b].arg] \in Gaps
      BY <1>4, <2>0
    <3>. QED BY <3>1, <3>2
  <2>3. PICK m \in Wanted : \A x \in Wanted : rank[x] <= rank[m]
    <3>1. PICK g \in Gaps : \A h \in Gaps : g <= h
      BY <2>2, LeastNat
    <3>2. PICK m \in Wanted : g = top - rank[m]
      BY <3>1
    <3>3. ASSUME NEW x \in Wanted PROVE rank[x] <= rank[m]
      <4>1. top - rank[m] <= top - rank[x]
        BY <3>1, <3>2
      <4>2. rank[x] \in Nat /\ rank[m] \in Nat
        BY <2>1
      <4>. QED BY <4>1, <4>2
    <3>. QED BY <3>3
  <2>4. \A u \in Threads : ~Comes(u, m)
    BY <1>3 DEF Comes, QueueInv, NewInv, TimerInv
  <2>5. ASSUME NEW u \in Threads PROVE ~Owns(u, m)
    <3>1. threadState[u] \in {"NEW", "EXITED"} => holds[u] = {} /\ call[u].op \in {"none", "exit"}
      BY DEF QueueInv, StatesInv, NewInv, TimerInv
    <3>2. CASE threadState[u] = "BLOCKED"
      <4>1. call[u].op = "lock" /\ call[u].arg \in Wanted
        BY <2>0, <3>2
      <4>2. rank[call[u].arg] \in Nat /\ rank[m] \in Nat
        BY <2>1, <4>1
      <4>3. m \notin holds[u]
        BY <2>3, <4>1, <4>2 DEF InOrder
      <4>. QED BY <4>1, <4>3 DEF Owns, Unlocking
    <3>. QED BY <1>3, <3>1, <3>2 DEF Owns, Unlocking
  <2>6. flag[m] \in {0, 1} /\ \E t \in Threads : Waits(t, m)
    BY DEF TypeInv, TypeOK
  <2>. QED BY <2>4, <2>5, <2>6 DEF WakeInv, Woken
<1>. QED BY <1>3, <1>4

LEMMA NoDeadlock ==
  ASSUME NEW top \in Nat, NEW rank \in [Mutexes -> 0 .. top], InOrder(rank),
         TypeInv, QueueInv, WakeInv
  PROVE  ~Deadlocked
<1>1. sched = "dispatch" => currentThread \in Threads
  BY DEF TypeInv, Current
<1>. QED BY <1>1, NobodyBlocked DEF Deadlocked

\* my_pthread_exit has returned in the current thread only if it was the last.
LastInv ==
  sched = "idle" /\ currentThread \in Threads /\ pc[currentThread] = "returned" =>
    \A t \in Threads : threadState[t] \in {"NEW", "EXITED"}

LEMMA LastStep ==
  ASSUME NEW top \in Nat, NEW rank \in [Mutexes -> 0 .. top], InOrder(rank),
         TypeInv, QueueInv, WakeInv, LastInv, Next, StatesInv', TypeInv'
  PROVE  LastInv'
<1>1. ASSUME NEW c \in Threads, FirstCreate(c) PROVE LastInv'
  BY <1>1 DEF FirstCreate, QueueInv, StatesInv, clientVars, LastInv
<1>2. ASSUME NEW t \in Threads, LibraryStep(t) \/ ClientStep(t) PROVE LastInv'
  <2>t. pc \in [Threads -> PCs] /\ call \in [Threads -> CallRecord]
    BY DEF TypeInv, TypeOK
  <2>f. currentThread = t /\ currentThread' = t /\ sched = "idle"
    BY <1>2, ThreadFrame
  <2>1. CASE Finish(t)
    BY <2>1, <2>f DEF Finish, blockVars, clientVars, LastInv
  <2>2. CASE CallSchedule(t)
    BY <2>2 DEF CallSchedule, EnterSchedule, LastInv
  <2>3. ASSUME ~Finish(t), ~CallSchedule(t) PROVE pc'[t] # "returned"
    <3>1. CASE EnqueueRear(t)
      <4>1. /\ call[t].op \in {"create", "lock", "unlock"}
            /\ call[t].op = "create" => Return(t)
            /\ call[t].op = "lock" => Goto(t, "schedule")
            /\ call[t].op = "unlock" => Goto(t, "unlock_flag")
        BY <3>1, OpAt DEF EnqueueRear, At, EnqueuePCs
      <4>. QED BY <2>t, <4>1 DEF Return, Goto
    <3>2. CASE ~EnqueueRear(t)
      BY <1>2, <2>t, <2>3, <3>2 DEF LibraryStep, ClientStep, EnqueueTest, EnqueueFront, EnqueueNext,
         ExitValue, JoinTest, JoinValue, JoinRun, LockTest, LockBlock, UnlockTest, DequeueFront,
         DequeueNext, DequeueRear, UnlockState, UnlockFlag, Create, Join, Yield, Exit, Lock, Unlock,
         At, Goto, Return
    <3>. QED BY <3>1, <3>2
  <2>. QED BY <2>f, <2>1, <2>2, <2>3 DEF LastInv
<1>3. CASE Dispatch
  <2>1. pc' = pc /\ call' = call
    BY <1>3, SchedulerFrame DEF SchedulerStep
  <2>2. CASE DispatchLast
    <3>1. \A t \in Threads : threadState[t] \in {"NEW", "EXITED"}
      BY <2>2, NobodyBlocked DEF DispatchLast
    <3>. QED BY <2>2, <3>1 DEF DispatchLast, LastInv
  <2>3. CASE ~DispatchLast
    <3>1. ASSUME currentThread' \in Threads, pc[currentThread'] = "returned"
          PROVE  threadState'[currentThread'] = "EXITED" /\ threadState[currentThread'] = "EXITED"
      <4>1. call[currentThread'].op = "exit"
        BY <3>1, OpAt
      <4>. QED BY <2>1, <3>1, <4>1 DEF QueueInv, StatesInv
    <3>2. ASSUME currentThread' \in Threads PROVE threadState'[currentThread'] # "EXITED"
      <4>1. ASSUME NEW h \in Heap, NEW st \in [Threads -> States], SwitchTo(h, st)
            PROVE  threadState'[currentThread'] = "RUNNING"
        BY <3>2, <4>1 DEF SwitchTo
      <4>t. /\ mem \in Heap /\ threadState \in [Threads -> States] /\ priority \in [Threads -> Levels]
            /\ currentThread \in Threads
        BY <1>3 DEF TypeInv, TypeOK, Heap, Current, Dispatch, DispatchLast, DispatchAlone,
           DispatchYield, DispatchExited, DispatchKeep, DispatchExpired, DispatchBlocked
      <4>2. ASSUME NEW p \in Levels, Requeue(currentThread, p)
            PROVE  threadState'[currentThread'] = "RUNNING"
        <5>1. Enqueue(mem, p, currentThread) \in Heap
          BY <4>t, EnqueueType DEF Queues
        <5>2. [threadState EXCEPT ![currentThread] = "QUEUED"] \in [Threads -> States]
          BY <4>t DEF States
        <5>. QED BY <4>1, <4>2, <5>1, <5>2 DEF Requeue
      <4>3. ASSUME NEW e \in Elapsed, DispatchAlone(e) \/ DispatchKeep(e)
            PROVE  threadState'[currentThread'] # "EXITED"
        BY <4>3 DEF DispatchAlone, DispatchKeep
      <4>4. ASSUME NEW e \in Elapsed, DispatchExpired(e)
            PROVE  threadState'[currentThread'] = "RUNNING"
        <5>1. Demoted(priority[currentThread]) \in Levels
          BY <4>t DEF Demoted, Levels
        <5>. QED BY <4>2, <4>4, <5>1 DEF DispatchExpired
      <4>5. CASE DispatchYield
        BY <4>t, <4>2, <4>5 DEF DispatchYield
      <4>6. CASE DispatchExited \/ \E e \in Elapsed : DispatchBlocked(e)
        BY <4>t, <4>1, <4>6 DEF DispatchExited, DispatchBlocked
      <4>. QED BY <1>3, <2>3, <4>3, <4>4, <4>5, <4>6 DEF Dispatch
    <3>. QED BY <2>1, <3>1, <3>2 DEF LastInv
  <2>. QED BY <2>2, <2>3
<1>4. CASE MaintainNextLevel \/ MaintainKeep \/ MaintainPromote \/ Tick
  BY <1>4 DEF MaintainNextLevel, MaintainKeep, MaintainPromote, Tick, EnterSchedule, LastInv
<1>5. CASE TickIgnored \/ Ended
  BY <1>5 DEF TickIgnored, Ended, vars, schedulerVars, blockVars, clientVars, LastInv
<1>. QED BY <1>1, <1>2, <1>3, <1>4, <1>5 DEF Next, SchedulerStep

-----------------------------------------------------------------------------
\* What holds of a client whose threads take the mutexes in an order.
OrderedInv == QueueInv /\ WakeInv /\ LastInv

LEMMA OrderedInvariance ==
  ASSUME WindowsClosed, NEW top \in Nat, NEW rank \in [Mutexes -> 0 .. top]
  PROVE  Spec /\ []InOrder(rank) => []OrderedInv
<1>1. Init => OrderedInv
  <2>1. Init => LastInv
    BY DEF Init, LastInv
  <2>. QED BY <2>1, QueueInit, WakeInit DEF OrderedInv
<1>2. InOrder(rank) /\ TypeInv /\ TypeInv' /\ OrderedInv /\ [Next]_vars => OrderedInv'
  <2>1. ASSUME OrderedInv, UNCHANGED vars PROVE OrderedInv'
    BY <2>1 DEF vars, schedulerVars, blockVars, clientVars, OrderedInv, QueueInv, AtBoundaries,
       TimerInv, TimerArmed, NewInv, StatesInv, PendingInv, ScanInv, ListsInv, Settled, On, Place,
       InHand, Running, Home, HomeIn, WakeInv, Woken, Waits, Comes, Owns, Unlocking, LastInv
  <2>2. ASSUME InOrder(rank), TypeInv, TypeInv', OrderedInv, Next PROVE OrderedInv'
    <3>1. QueueInv' /\ WakeInv'
      BY <2>2, NoDeadlock, QueueStep, WakeStep DEF OrderedInv
    <3>. QED BY <2>2, <3>1, LastStep DEF OrderedInv, QueueInv
  <2>. QED BY <2>1, <2>2
<1>. QED BY <1>1, <1>2, TypeInvariance, PTL DEF Spec

\* schedule() always finds a thread to run, unless the last one has exited, when
\* the threads take the mutexes in an order and the windows are closed.
THEOREM NeverDeadlocked ==
  ASSUME WindowsClosed, NEW top \in Nat, NEW rank \in [Mutexes -> 0 .. top]
  PROVE  Spec /\ []InOrder(rank) => []~Deadlocked
<1>1. InOrder(rank) /\ TypeInv /\ OrderedInv => ~Deadlocked
  BY NoDeadlock DEF OrderedInv
<1>. QED BY <1>1, OrderedInvariance, TypeInvariance, PTL

\* The lists match the states for good when the windows are closed and the threads
\* take the mutexes in an order.
THEOREM QueuesMatchInOrder ==
  ASSUME WindowsClosed, NEW top \in Nat, NEW rank \in [Mutexes -> 0 .. top]
  PROVE  Spec /\ []InOrder(rank) => []QueuesMatchStates
BY QueuesMatch, NeverDeadlocked, PTL

\* my_pthread_exit returns in the last thread only: no thread is left in a queue.
\* Both conditions are needed: with the window of my_pthread_mutex_lock open, or
\* with mutexes taken crosswise, the threads that wait are left behind.
THEOREM LastExit ==
  ASSUME WindowsClosed, NEW top \in Nat, NEW rank \in [Mutexes -> 0 .. top]
  PROVE  Spec /\ []InOrder(rank) => []LastExitIsLast
<1>1. TypeInv /\ OrderedInv => LastExitIsLast
  BY DEF OrderedInv, LastInv, LastExitIsLast, TypeInv, Current
<1>. QED BY <1>1, OrderedInvariance, TypeInvariance, PTL

-----------------------------------------------------------------------------
(***************************************************************************)
(* Scheduler implements ThreadContract, for any constants with the windows *)
(* closed: every step of the library is a step of the contract or changes  *)
(* nothing the contract speaks of.                                         *)
(***************************************************************************)

-----------------------------------------------------------------------------
(***************************************************************************)
(* The list of a queue as a sequence.                                      *)
(***************************************************************************)

\* s is the list of queue q in heap h.
IsList(s, h, q) ==
  /\ s \in Seq(Threads)
  /\ h.queue[q].front = IF Len(s) = 0 THEN NULL ELSE s[1]
  /\ \A n \in 1 .. Len(s) : h.next[s[n]] = IF n = Len(s) THEN NULL ELSE s[n + 1]

\* The threads of a sequence.
Elements(s) == {s[n] : n \in 1 .. Len(s)}

\* A queue is one list only.
LEMMA ListUnique ==
  ASSUME NEW h \in Heap, NEW q \in Queues, NEW s, NEW r, IsList(s, h, q), IsList(r, h, q)
  PROVE  s = r
<1>t. /\ s \in Seq(Threads) /\ Len(s) \in Nat /\ \A n \in 1 .. Len(s) : s[n] \in Threads
      /\ r \in Seq(Threads) /\ Len(r) \in Nat /\ \A n \in 1 .. Len(r) : r[n] \in Threads
  BY LenProperties, ElementOfSeq DEF IsList
<1>1. ASSUME NEW n \in 1 .. Len(s), n \in 1 .. Len(r) PROVE s[n] = r[n]
  <2>. DEFINE S == {k \in 1 .. Len(s) : k \in 1 .. Len(r) /\ s[k] # r[k]}
  <2>1. CASE S # {}
    <3>1. S \in SUBSET Nat
      BY <1>t
    <3>2. PICK k \in S : \A j \in S : k <= j
      BY <2>1, <3>1, LeastNat
    <3>3. CASE k = 1
      BY <1>t, <3>2, <3>3 DEF IsList
    <3>4. CASE k # 1
      <4>1. k - 1 \in 1 .. Len(s) /\ k - 1 \in 1 .. Len(r) /\ k - 1 # Len(s) /\ k - 1 # Len(r)
        BY <1>t, <3>2, <3>4
      <4>2. k - 1 \notin S
        BY <1>t, <3>2, <3>4
      <4>3. s[k - 1] = r[k - 1]
        BY <4>1, <4>2
      <4>4. h.next[s[k - 1]] = s[k - 1 + 1] /\ h.next[r[k - 1]] = r[k - 1 + 1]
        BY <4>1 DEF IsList
      <4>5. k - 1 + 1 = k
        BY <1>t, <3>2
      <4>. QED BY <3>2, <4>3, <4>4, <4>5
    <3>. QED BY <3>3, <3>4
  <2>. QED BY <1>1, <2>1
<1>2. ASSUME NEW a, NEW b, IsList(a, h, q), IsList(b, h, q), Len(a) \in Nat, Len(b) \in Nat,
             \A n \in 1 .. Len(b) : b[n] \in Threads,
             \A n \in 1 .. Len(a) : n \in 1 .. Len(b) => a[n] = b[n]
      PROVE  ~(Len(a) < Len(b))
  <2>. SUFFICES ASSUME Len(a) < Len(b) PROVE FALSE
    OBVIOUS
  <2>1. CASE Len(a) = 0
    BY <1>2, <2>1 DEF IsList
  <2>2. CASE Len(a) # 0
    <3>1. Len(a) \in 1 .. Len(a) /\ Len(a) \in 1 .. Len(b) /\ Len(a) # Len(b)
      BY <1>2, <2>2
    <3>2. h.next[a[Len(a)]] = NULL /\ h.next[b[Len(a)]] = b[Len(a) + 1]
      BY <1>2, <3>1 DEF IsList
    <3>3. Len(a) + 1 \in 1 .. Len(b)
      BY <1>2
    <3>. QED BY <1>2, <3>1, <3>2, <3>3
  <2>. QED BY <2>1, <2>2
<1>3. Len(s) = Len(r)
  BY <1>1, <1>2, <1>t
<1>. QED BY <1>1, <1>3, <1>t, SeqEqual

\* When the links are lists, each queue is a sequence of exactly the threads
\* placed on it.
LEMMA ListExists ==
  ASSUME NEW h \in Heap, NEW on \in Places, Lists(h, on), NEW q \in Queues
  PROVE  \E s : /\ IsList(s, h, q)
                /\ Len(s) <= Cardinality(Threads)
                /\ Elements(s) = {t \in Threads : on[t] = q}
<1>. DEFINE N == Cardinality(Threads)
            f == NthIn(h, q)
            S == {k \in 1 .. N : f[k] = NULL}
<1>n. N \in Nat /\ N # 0
  BY FiniteAssumption, FS_CardinalityType, FS_EmptySet
<1>1. PICK pos \in [Threads -> Nat] : \A r \in Queues : Linked(h, r, on, pos)
  BY DEF Lists
<1>2. Follows(h, q, N, f)
  BY NthFollows
<1>3. {f[n] : n \in 1 .. N} \ {NULL} = {t \in Threads : on[t] = q}
  BY <1>1, <1>2, FollowsReaches
<1>. HIDE DEF N, f
<1>4. /\ \A n \in 1 .. N : f[n] \in ThreadOrNull
      /\ \A n \in 1 .. N : f[n] = IF n = 1 THEN h.queue[q].front ELSE After(h, f[n - 1])
  BY <1>2 DEF Follows
<1>5. PICK k \in 0 .. N : /\ \A n \in 1 .. k : f[n] # NULL
                          /\ \A n \in 1 .. N : n > k => f[n] = NULL
  <2>1. CASE S = {}
    <3>1. N \in 0 .. N /\ \A n \in 1 .. N : f[n] # NULL /\ ~(n > N)
      BY <1>n, <2>1
    <3>. QED BY <3>1
  <2>2. CASE S # {}
    <3>1. S \in SUBSET Nat
      BY <1>n
    <3>2. PICK m \in S : \A n \in S : m <= n
      BY <2>2, <3>1, LeastNat
    <3>3. m - 1 \in 0 .. N /\ m \in 1 .. N /\ f[m] = NULL
      BY <1>n, <3>2
    <3>4. ASSUME NEW n \in 1 .. (m - 1) PROVE f[n] # NULL
      <4>1. n \in 1 .. N /\ ~(m <= n)
        BY <1>n, <3>3
      <4>. QED BY <3>2, <4>1
    <3>5. ASSUME NEW n \in 1 .. N, n > m - 1 PROVE f[n] = NULL
      <4>. DEFINE T == {j \in 1 .. N : j > m - 1 /\ f[j] # NULL}
      <4>. SUFFICES ASSUME T # {} PROVE FALSE
        BY <3>5
      <4>1. T \in SUBSET Nat
        BY <1>n
      <4>2. PICK j \in T : \A i \in T : j <= i
        BY <4>1, LeastNat
      <4>3. j # m /\ j - 1 \in 1 .. N /\ j - 1 > m - 1 /\ j # 1
        BY <1>n, <3>3, <4>2
      <4>4. j - 1 \notin T
        BY <1>n, <4>2, <4>3
      <4>5. f[j - 1] = NULL /\ f[j] = After(h, f[j - 1])
        BY <1>4, <4>2, <4>3, <4>4
      <4>. QED BY <4>2, <4>5 DEF After
    <3>. QED BY <3>3, <3>4, <3>5
  <2>. QED BY <2>1, <2>2
<1>. DEFINE s == [n \in 1 .. k |-> f[n]]
<1>k. k \in Nat /\ \A n \in 1 .. k : n \in 1 .. N
  BY <1>n
<1>6. s \in Seq(Threads) /\ Len(s) = k /\ \A n \in 1 .. k : s[n] = f[n]
  <2>1. \A n \in 1 .. k : f[n] \in Threads
    BY <1>4, <1>5, <1>k
  <2>2. s \in [1 .. k -> Threads]
    BY <2>1
  <2>3. s \in Seq(Threads)
    BY <1>k, <2>2, SeqDef
  <2>4. DOMAIN s = 1 .. Len(s) /\ Len(s) \in Nat
    BY <2>3, LenProperties
  <2>5. DOMAIN s = 1 .. k
    OBVIOUS
  <2>6. Len(s) = k
    BY <1>k, <2>4, <2>5
  <2>. QED BY <2>3, <2>6
<1>7. Elements(s) = {t \in Threads : on[t] = q}
  <2>1. \A t : t \in Elements(s) <=> \E n \in 1 .. k : t = f[n]
    BY <1>6 DEF Elements
  <2>2. \A n \in 1 .. N : f[n] # NULL => n \in 1 .. k
    BY <1>5, <1>n, <1>k
  <2>3. \A t : t \in Elements(s) <=> t \in {f[n] : n \in 1 .. N} \ {NULL}
    BY <2>1, <2>2, <1>5, <1>k
  <2>. QED BY <1>3, <2>3
<1>. HIDE DEF s
<1>8. ASSUME NEW n \in 1 .. k PROVE h.next[s[n]] = IF n = k THEN NULL ELSE s[n + 1]
  <2>1. CASE n < N
    <3>1. n + 1 \in 1 .. N /\ n + 1 # 1 /\ n + 1 - 1 = n /\ n \in 1 .. N
      BY <1>n, <1>k, <2>1
    <3>2. f[n + 1] = After(h, f[n]) /\ f[n] # NULL
      BY <1>4, <1>5, <3>1
    <3>3. f[n + 1] = h.next[f[n]]
      BY <3>2 DEF After
    <3>4. CASE n = k
      BY <1>5, <1>6, <1>k, <3>1, <3>3, <3>4
    <3>5. CASE n # k
      <4>1. n + 1 \in 1 .. k
        BY <1>k, <3>5
      <4>. QED BY <1>6, <3>3, <3>5, <4>1
    <3>. QED BY <3>4, <3>5
  <2>2. CASE ~(n < N)
    <3>1. n = N /\ k = N
      BY <1>n, <1>k, <2>2
    <3>. DEFINE rear == h.queue[q].rear
    <3>2. f[n] \in Threads /\ on[f[n]] = q
      BY <1>3, <1>4, <1>5, <1>k
    <3>3. rear \in Threads /\ on[rear] = q /\ h.next[rear] = NULL
      BY <1>1, <3>2, LinkedAt
    <3>4. PICK j \in 1 .. N : f[j] = rear
      BY <1>3, <3>3
    <3>5. CASE j = N
      BY <1>6, <3>1, <3>3, <3>4, <3>5
    <3>6. CASE j # N
      <4>1. j + 1 \in 1 .. N /\ j + 1 # 1 /\ j + 1 - 1 = j
        BY <1>n, <3>6
      <4>2. f[j + 1] = NULL
        BY <1>4, <3>3, <3>4, <4>1 DEF After
      <4>. QED BY <1>5, <3>1, <4>1, <4>2
    <3>. QED BY <3>5, <3>6
  <2>. QED BY <2>1, <2>2
<1>9. h.queue[q].front = IF k = 0 THEN NULL ELSE s[1]
  <2>1. 1 \in 1 .. N /\ f[1] = h.queue[q].front
    BY <1>4, <1>n
  <2>2. CASE k = 0
    BY <1>5, <2>1, <2>2
  <2>3. CASE k # 0
    <3>1. 1 \in 1 .. k
      BY <1>k, <2>3
    <3>. QED BY <1>6, <2>1, <2>3, <3>1
  <2>. QED BY <2>2, <2>3
<1>10. IsList(s, h, q)
  BY <1>6, <1>8, <1>9 DEF IsList
<1>11. Len(s) <= N
  BY <1>6, <1>n
<1>. QED BY <1>7, <1>10, <1>11 DEF N

\* So Nth lists it, and NULL past its end.
LEMMA NthLists ==
  ASSUME NEW h \in Heap, NEW q \in Queues, NEW s, IsList(s, h, q),
         Len(s) <= Cardinality(Threads)
  PROVE  /\ DOMAIN NthIn(h, q) = 1 .. Cardinality(Threads)
         /\ \A n \in 1 .. Cardinality(Threads) :
              NthIn(h, q)[n] = IF n <= Len(s) THEN s[n] ELSE NULL
<1>. DEFINE N == Cardinality(Threads)
            f == NthIn(h, q)
            S == {n \in 1 .. N : f[n] # IF n <= Len(s) THEN s[n] ELSE NULL}
<1>n. N \in Nat /\ N # 0
  BY FiniteAssumption, FS_CardinalityType, FS_EmptySet
<1>1. Follows(h, q, N, f)
  BY NthFollows
<1>s. Len(s) \in Nat /\ Len(s) <= N /\ \A n \in 1 .. Len(s) : s[n] \in Threads
  BY LenProperties, ElementOfSeq DEF IsList
<1>. HIDE DEF N, f
<1>2. /\ DOMAIN f = 1 .. N
      /\ \A n \in 1 .. N : f[n] = IF n = 1 THEN h.queue[q].front ELSE After(h, f[n - 1])
  BY <1>1 DEF Follows
<1>3. S = {}
  <2>. SUFFICES ASSUME S # {} PROVE FALSE
    OBVIOUS
  <2>1. S \in SUBSET Nat
    BY <1>n
  <2>2. PICK n \in S : \A m \in S : n <= m
    BY <2>1, LeastNat
  <2>3. CASE n = 1
    BY <1>2, <1>s, <2>2, <2>3 DEF IsList
  <2>4. CASE n # 1
    <3>1. n - 1 \in 1 .. N /\ n - 1 \notin S /\ n - 1 \in Nat
      BY <1>n, <2>2, <2>4
    <3>2. f[n] = After(h, f[n - 1])
      BY <1>2, <2>2, <2>4
    <3>3. CASE n - 1 <= Len(s)
      <4>1. n - 1 \in 1 .. Len(s) /\ f[n - 1] = s[n - 1] /\ s[n - 1] \in Threads
        BY <1>s, <3>1, <3>3
      <4>2. f[n] = IF n - 1 = Len(s) THEN NULL ELSE s[n - 1 + 1]
        BY <3>2, <4>1 DEF After, IsList
      <4>3. n - 1 + 1 = n
        BY <2>1, <2>2
      <4>4. n <= Len(s) <=> n - 1 # Len(s)
        BY <1>s, <2>1, <2>2, <3>3
      <4>. QED BY <2>2, <4>2, <4>3, <4>4
    <3>4. CASE ~(n - 1 <= Len(s))
      <4>1. f[n - 1] = NULL /\ ~(n <= Len(s))
        BY <1>s, <3>1, <3>4, <2>1, <2>2
      <4>. QED BY <2>2, <3>2, <4>1 DEF After
    <3>. QED BY <3>3, <3>4
  <2>. QED BY <2>3, <2>4
<1>. QED BY <1>2, <1>3 DEF N, f

\* Queued(q) in any heap, with c for the current thread.
QueuedIn(h, c, q) ==
  [n \in {k \in DOMAIN NthIn(h, q) : NthIn(h, q)[k] \notin {NULL, c}} |-> NthIn(h, q)[n]]

\* It is the list l of q without c, where c can only be last.
LEMMA QueuedIs ==
  ASSUME NEW h \in Heap, NEW q \in Queues, NEW c \in ThreadOrNull, NEW l, IsList(l, h, q),
         Len(l) <= Cardinality(Threads), NEW s \in Seq(Threads), Len(s) <= Len(l),
         \A k \in 1 .. Len(l) : l[k] # c <=> k <= Len(s),
         \A k \in 1 .. Len(s) : s[k] = l[k]
  PROVE  QueuedIn(h, c, q) = s
<1>. DEFINE f == NthIn(h, q)
            N == Cardinality(Threads)
            D == {k \in DOMAIN f : f[k] \notin {NULL, c}}
<1>n. N \in Nat
  BY FiniteAssumption, FS_CardinalityType
<1>1. DOMAIN f = 1 .. N /\ \A n \in 1 .. N : f[n] = IF n <= Len(l) THEN l[n] ELSE NULL
  BY NthLists
<1>2. /\ Len(l) \in Nat /\ \A n \in 1 .. Len(l) : l[n] \in Threads
      /\ Len(s) \in Nat /\ s \in [1 .. Len(s) -> Threads]
  BY LenProperties, ElementOfSeq DEF IsList
<1>. HIDE DEF N, f
<1>3. D = 1 .. Len(s)
  <2>1. ASSUME NEW k \in D PROVE k \in 1 .. Len(s)
    BY <1>1, <1>2, <1>n
  <2>2. ASSUME NEW k \in 1 .. Len(s) PROVE k \in D
    <3>1. k \in 1 .. N /\ k \in 1 .. Len(l)
      BY <1>1, <1>2, <1>n DEF N
    <3>2. f[k] = l[k] /\ l[k] # c /\ l[k] # NULL
      BY <1>1, <1>2, <3>1
    <3>. QED BY <1>1, <3>1, <3>2
  <2>. QED BY <2>1, <2>2
<1>4. \A k \in 1 .. Len(s) : f[k] = s[k]
  BY <1>1, <1>2, <1>n DEF N
<1>5. QueuedIn(h, c, q) = [n \in D |-> f[n]]
  BY DEF QueuedIn, f
<1>6. [n \in D |-> f[n]] = [n \in 1 .. Len(s) |-> s[n]]
  BY <1>3, <1>4
<1>. QED BY <1>2, <1>5, <1>6

\* A list stays one while its front and the links of its threads do.
LEMMA ListKept ==
  ASSUME NEW h, NEW k, NEW q, NEW s, IsList(s, h, q),
         k.queue[q].front = h.queue[q].front,
         \A t \in Elements(s) : k.next[t] = h.next[t]
  PROVE  IsList(s, k, q)
<1>1. \A n \in 1 .. Len(s) : s[n] \in Elements(s)
  BY DEF Elements
<1>. QED BY <1>1 DEF IsList

-----------------------------------------------------------------------------
(***************************************************************************)
(* What the invariants say of the mapped variables.                        *)
(***************************************************************************)

\* Each wait queue is the list of the threads placed on it, in memory too: the
\* stores still to do change no link of theirs.
WaitLists ==
  \A m \in Mutexes :
    \E s : /\ IsList(s, mem, m)
           /\ Len(s) <= Cardinality(Threads)
           /\ Elements(s) = {t \in Threads : Place(t) = m}

LEMMA WaitListsHold == TypeInv /\ QueueInv => WaitLists
<1>. SUFFICES ASSUME TypeInv, QueueInv, NEW m \in Mutexes
              PROVE  \E s : /\ IsList(s, mem, m)
                            /\ Len(s) <= Cardinality(Threads)
                            /\ Elements(s) = {t \in Threads : Place(t) = m}
  BY DEF WaitLists
<1>t. mem \in Heap /\ On \in Places /\ Settled \in Heap /\ m \in Queues
  BY PlacesType DEF TypeInv, TypeOK, Heap, QueueInv, Queues
<1>1. PICK s : /\ IsList(s, Settled, m)
               /\ Len(s) <= Cardinality(Threads)
               /\ Elements(s) = {t \in Threads : On[t] = m}
  BY <1>t, ListExists DEF QueueInv, ListsInv
<1>2. Elements(s) = {t \in Threads : Place(t) = m}
  BY <1>1 DEF On
<1>3. mem.queue[m].front = Settled.queue[m].front
  BY <1>t DEF Settled, Settle, RearFixed, Heap
<1>4. ASSUME NEW t \in Threads, Place(t) = m PROVE mem.next[t] = Settled.next[t]
  <2>1. Running({"dequeue_next"}) => t # call[currentThread].elem
    BY <1>4, <1>t DEF Place, InHand, Running
  <2>. QED BY <1>t, <2>1 DEF Settled, Settle, RearFixed, Running, Heap
<1>. QED BY <1>1, <1>2, <1>3, <1>4, ListKept

\* Who owns a mutex is its owner in the contract.
OwnersShow ==
  \A m \in Mutexes : /\ \A t \in Threads : Owns(t, m) => Owner(m) = t
                     /\ (\A t \in Threads : ~Owns(t, m)) => Owner(m) = NULL

LEMMA OwnersShown == MutexInv => OwnersShow
<1>. SUFFICES ASSUME MutexInv, NEW m \in Mutexes
              PROVE  /\ \A t \in Threads : Owns(t, m) => Owner(m) = t
                     /\ (\A t \in Threads : ~Owns(t, m)) => Owner(m) = NULL
  BY DEF OwnersShow
<1>. DEFINE owners == {t \in Threads : Owns(t, m)}
<1>1. Owner(m) = IF owners = {} THEN NULL ELSE CHOOSE t \in owners : TRUE
  BY DEF Owner, Owns
<1>2. \A t, u \in owners : t = u
  BY DEF MutexInv, MutualExclusion, Owns
<1>3. owners # {} => (CHOOSE t \in owners : TRUE) \in owners
  OBVIOUS
<1>4. ASSUME NEW t \in Threads, Owns(t, m) PROVE Owner(m) = t
  BY <1>1, <1>2, <1>3, <1>4
<1>. QED BY <1>1, <1>4

\* What the mapping needs besides: a lock asks for a mutex the thread does not
\* hold, a blocked thread that still runs is the last of its wait queue, whose
\* mutex is taken, unlock has woken a waiter that it has in its locals, or none
\* because there was none, and create has made its thread ready to run.
MappingInv ==
  /\ \A t \in Threads :
       /\ call[t].op = "lock" => call[t].arg \notin holds[t]
       /\ pc[t] \in {"unlock_test", "dequeue"} => call[t].elem = NULL
  /\ currentThread \in Threads =>
       LET c       == call[currentThread]
           p       == pc[currentThread]
           blocked == threadState[currentThread] = "BLOCKED"
       IN  /\ blocked => flag[c.arg] = 1
           /\ blocked /\ p \notin {"enqueue", "enqueue_front", "enqueue_next"} =>
                Settled.queue[c.arg].rear = currentThread
           /\ c.op = "unlock" /\ p \in EnqueuePCs \cup {"unlock_flag"} /\ c.elem # NULL =>
                threadState[c.elem] = "QUEUED" /\ call[c.elem].arg = c.arg
           /\ p = "unlock_flag" /\ c.elem = NULL => mem.queue[c.arg].front = NULL
           /\ c.op = "create" => threadState[c.elem] = "QUEUED"

\* maintenance() touches no wait queue.
LEMMA PromoteQueues ==
  ASSUME TypeInv, MaintainPromote, NEW m \in Mutexes
  PROVE  mem'.queue[m] = mem.queue[m]
<1>1. /\ mem \in Heap /\ scan.level \in Queues /\ scan.level # m /\ 0 # m /\ 0 \in Queues
      /\ scan.ptr \in Threads /\ scan.prev \in ThreadOrNull /\ m \in Queues
  BY DEF TypeInv, TypeOK, Heap, Queues, Levels, MaintainPromote
<1>. DEFINE cut == Unlink(mem, scan.level, scan.ptr, scan.prev)
            h   == [cut EXCEPT !.next[scan.ptr] = NULL]
<1>2. cut \in Heap
  BY <1>1, UnlinkType
<1>3. cut.queue[m] = mem.queue[m]
  BY <1>1 DEF Unlink, Heap
<1>4. h.queue = cut.queue
  BY <1>2 DEF Heap
<1>5. mem' = Enqueue(h, 0, scan.ptr)
  BY DEF MaintainPromote, Promoted
<1>. HIDE DEF h, cut
<1>6. Enqueue(h, 0, scan.ptr).queue[m] = h.queue[m]
  BY <1>1, <1>2, <1>4 DEF Enqueue, Heap
<1>. QED BY <1>3, <1>4, <1>5, <1>6

\* What schedule() does keeps MappingInv.
LEMMA SchedulerMaps ==
  ASSUME WindowsClosed, TypeInv, TypeInv', QueueInv, QueueInv', MappingInv,
         SchedulerStep \/ Tick \/ TickIgnored \/ Ended
  PROVE  MappingInv'
<1>. USE DEF QueueInv
<1>1. /\ UNCHANGED <<phase, retval, flag, pc, call, holds>>
      /\ \A u \in Threads : \/ threadState'[u] = threadState[u]
                            \/ threadState'[u] \in {"QUEUED", "RUNNING"}
      /\ \/ currentThread' = currentThread
         \/ currentThread' \in Threads /\ threadState'[currentThread'] = "RUNNING"
  BY SchedulerFrame
<1>2. \A t \in Threads :
       /\ call'[t].op = "lock" => call'[t].arg \notin holds'[t]
       /\ pc'[t] \in {"unlock_test", "dequeue"} => call'[t].elem = NULL
  BY <1>1 DEF MappingInv
<1>3. CASE TickIgnored \/ Ended
  <2>1. UNCHANGED <<currentThread, mem, threadState>>
    BY <1>3 DEF TickIgnored, Ended, vars, schedulerVars, blockVars, clientVars
  <2>2. Settled' = Settled
    BY <1>1, <2>1 DEF Settled
  <2>. QED BY <1>1, <1>2, <2>1, <2>2 DEF MappingInv
<1>4. CASE SchedulerStep \/ Tick
  <2>1. currentThread \in Threads /\ (sched # "idle" \/ Tick)
    BY <1>4 DEF SchedulerStep, MaintainNextLevel, MaintainKeep, MaintainPromote, Dispatch,
       DispatchLast, DispatchAlone, DispatchYield, DispatchExited, DispatchKeep, DispatchExpired,
       DispatchBlocked, Tick, TypeInv, Current
  <2>2. pc[currentThread] \in CallBoundaries
    BY <2>1 DEF AtBoundaries, Tick, WindowsClosed
  <2>3. currentThread' \in Threads => pc[currentThread'] \in CallBoundaries
    <3>1. CASE currentThread' = currentThread
      BY <2>2, <3>1
    <3>2. CASE sched # "idle"
      BY <3>2 DEF AtBoundaries
    <3>. QED BY <2>1, <3>1, <3>2 DEF Tick
  <2>4. ASSUME currentThread' \in Threads, threadState'[currentThread'] = "BLOCKED"
        PROVE  /\ flag'[call'[currentThread'].arg] = 1
               /\ Settled'.queue[call'[currentThread'].arg].rear = currentThread'
    <3>1. currentThread' = currentThread /\ threadState[currentThread] = "BLOCKED"
      BY <1>1, <2>4
    <3>2. call[currentThread].arg \in Mutexes
      BY <2>1, <3>1 DEF StatesInv, TypeInv, CallsMatch, CallMatchesPC
    <3>3. mem'.queue[call[currentThread].arg] = mem.queue[call[currentThread].arg]
      <4>1. CASE MaintainPromote
        BY <3>2, <4>1, PromoteQueues
      <4>2. CASE Dispatch
        <5>1. ASSUME NEW h, NEW st \in [Threads -> States], SwitchTo(h, st) PROVE FALSE
          BY <2>4, <5>1 DEF SwitchTo
        <5>2. /\ threadState \in [Threads -> States]
              /\ [threadState EXCEPT ![currentThread] = "QUEUED"] \in [Threads -> States]
          BY DEF TypeInv, TypeOK, States
        <5>. QED BY <4>2, <5>1, <5>2 DEF Dispatch, DispatchLast, DispatchAlone, DispatchYield,
             DispatchExited, DispatchKeep, DispatchExpired, DispatchBlocked, Requeue
      <4>3. CASE MaintainNextLevel \/ MaintainKeep \/ Tick
        BY <4>3 DEF MaintainNextLevel, MaintainKeep, Tick
      <4>. QED BY <1>4, <4>1, <4>2, <4>3 DEF SchedulerStep
    <3>4. Settled = mem
      BY <2>1, <2>2, ScheduleRests
    <3>5. Settled' = mem'
      BY <1>1, <2>2, <3>1 DEF Settled, Settle, CallBoundaries
    <3>. QED BY <1>1, <2>1, <2>2, <3>1, <3>2, <3>3, <3>4, <3>5 DEF MappingInv, CallBoundaries
  <2>5. currentThread' \in Threads => call'[currentThread'].op # "create"
    BY <1>1, <2>3 DEF TypeInv, CallsMatch, CallMatchesPC, CallBoundaries, EnqueuePCs
  <2>. QED BY <1>1, <1>2, <2>3, <2>4, <2>5 DEF MappingInv, CallBoundaries, EnqueuePCs
<1>. QED BY <1>3, <1>4

\* The last statement of enqueue(), by the call it is in.
LEMMA RearCases ==
  ASSUME TypeInv, NEW t \in Threads, EnqueueRear(t)
  PROVE  /\ pc[t] = "enqueue_rear" /\ UNCHANGED <<threadState, priority, flag, holds>>
         /\ mem' = [mem EXCEPT !.queue[call[t].queue].rear = call[t].elem]
         /\ \/ call[t].op = "create" /\ Return(t)
            \/ /\ call[t].op = "lock" /\ pc'[t] = "schedule"
               /\ call' = [call EXCEPT ![t] = NewCall("lock", call[t].arg, NULL, NULL)]
            \/ call[t].op = "unlock" /\ pc'[t] = "unlock_flag" /\ call' = call
<1>1. call[t].op \in {"create", "lock", "unlock"}
  BY OpAt DEF EnqueueRear, At, EnqueuePCs
<1>2. pc \in [Threads -> PCs]
  BY DEF TypeInv, TypeOK
<1>. QED BY <1>1, <1>2 DEF EnqueueRear, At, Goto, Begin, blockVars

\* So does each statement of a call.
LEMMA ThreadMaps ==
  ASSUME TypeInv, TypeInv', QueueInv, QueueInv', WakeInv, MappingInv, NEW t \in Threads,
         LibraryStep(t) \/ ClientStep(t)
  PROVE  MappingInv'
<1>. USE DEF QueueInv
<1>t. /\ threadState \in [Threads -> States] /\ call \in [Threads -> CallRecord]
      /\ pc \in [Threads -> PCs] /\ flag \in [Mutexes -> {0, 1}]
      /\ holds \in [Threads -> SUBSET Mutexes] /\ mem \in Heap
  BY DEF TypeInv, TypeOK, Heap
<1>f. /\ sched = "idle" /\ currentThread = t /\ currentThread' = t
      /\ \A u \in Threads \ {t} : call'[u] = call[u] /\ holds'[u] = holds[u] /\ pc'[u] = pc[u]
  BY ThreadFrame
<1>c. call[t] \in CallRecord
  BY <1>t
<1>r. /\ EnqueueRear(t) => pc[t] = "enqueue_rear" /\ UNCHANGED <<threadState, flag, holds>>
                           /\ mem' = [mem EXCEPT !.queue[call[t].queue].rear = call[t].elem]
      /\ EnqueueRear(t) =>
           \/ call[t].op = "create" /\ Return(t)
           \/ /\ call[t].op = "lock" /\ pc'[t] = "schedule"
              /\ call' = [call EXCEPT ![t] = NewCall("lock", call[t].arg, NULL, NULL)]
           \/ call[t].op = "unlock" /\ pc'[t] = "unlock_flag" /\ call' = call
  BY RearCases
\* The first part: what t asks for, and the locals of its unlock.
<1>1. ASSUME LibraryStep(t)
      PROVE  /\ call'[t].op = "lock" => call'[t].arg \notin holds'[t]
             /\ pc'[t] \in {"unlock_test", "dequeue"} => call'[t].elem = NULL
  <2>1. /\ call[t].op = "lock" => call[t].arg \notin holds[t]
        /\ pc[t] \in {"unlock_test", "dequeue"} => call[t].elem = NULL
    BY DEF MappingInv
  <2>2. CASE EnqueueRear(t)
    BY <1>r, <1>t, <2>1, <2>2 DEF Return, NoCall, NewCall, Goto
  <2>3. CASE CallSchedule(t)
    <3>1. call[t].op \in {"yield", "exit", "join", "lock"}
      BY <2>3, OpAt DEF CallSchedule, At
    <3>. QED BY <1>t, <2>1, <2>3, <3>1 DEF CallSchedule, Goto, AfterSchedule, NoCall, NewCall
  <2>4. CASE EnqueueTest(t) \/ EnqueueFront(t) \/ EnqueueNext(t) \/ ExitValue(t) \/ JoinTest(t)
               \/ JoinValue(t) \/ JoinRun(t) \/ LockTest(t)
    BY <1>t, <1>c, <2>1, <2>4 DEF EnqueueTest, EnqueueFront, EnqueueNext, ExitValue, JoinTest,
       JoinValue, JoinRun, LockTest, At, Goto, Return, NoCall, NewCall, CallRecord
  <2>5. CASE LockBlock(t) \/ UnlockState(t)
    BY <1>t, <1>c, <2>1, <2>5 DEF LockBlock, UnlockState, At, Goto, CallRecord
  <2>6. CASE UnlockTest(t) \/ DequeueNext(t) \/ DequeueRear(t) \/ UnlockFlag(t)
    BY <1>t, <1>c, <2>1, <2>6 DEF UnlockTest, DequeueNext, DequeueRear, UnlockFlag, At, Goto,
       Return, NoCall, NewCall, CallRecord
  <2>7. CASE DequeueFront(t)
    BY <1>t, <1>c, <2>1, <2>7 DEF DequeueFront, At, Goto, CallRecord
  <2>. QED BY <1>1, <2>2, <2>3, <2>4, <2>5, <2>6, <2>7 DEF LibraryStep
<1>2. ASSUME ClientStep(t)
      PROVE  /\ call'[t].op = "lock" => call'[t].arg \notin holds'[t]
             /\ pc'[t] \in {"unlock_test", "dequeue"} => call'[t].elem = NULL
  BY <1>2, <1>t DEF ClientStep, Create, Join, Yield, Exit, Lock, Unlock, Finish, At, Goto, Begin,
     NewCall, clientVars, MappingInv
\* The second: t is blocked only in its enqueue and the call of schedule() after it.
<1>3. threadState'[t] = "BLOCKED" =>
        \/ LockBlock(t)
        \/ /\ threadState[t] = "BLOCKED"
           /\ EnqueueTest(t) \/ EnqueueFront(t) \/ EnqueueNext(t) \/ EnqueueRear(t) \/ CallSchedule(t)
  <2>1. threadState[t] = "BLOCKED" => pc[t] \in EnqueuePCs \cup {"schedule"}
    BY <1>f DEF StatesInv
  <2>2. CASE ClientStep(t)
    BY <1>t, <2>1, <2>2 DEF ClientStep, Create, Join, Yield, Exit, Lock, Unlock, Finish, At,
       SetState, blockVars, EnqueuePCs
  <2>3. CASE LibraryStep(t)
    <3>1. CASE EnqueueTest(t) \/ EnqueueFront(t) \/ EnqueueNext(t) \/ EnqueueRear(t) \/ CallSchedule(t)
      BY <3>1 DEF EnqueueTest, EnqueueFront, EnqueueNext, EnqueueRear, CallSchedule, blockVars
    <3>2. CASE UnlockState(t)
      BY <1>t, <2>1, <3>2 DEF UnlockState, At, SetState, EnqueuePCs
    <3>3. CASE JoinRun(t)
      BY <1>t, <3>3 DEF JoinRun, SetState
    <3>4. CASE \/ ExitValue(t) \/ JoinTest(t) \/ JoinValue(t) \/ LockTest(t) \/ UnlockTest(t)
               \/ DequeueFront(t) \/ DequeueNext(t) \/ DequeueRear(t) \/ UnlockFlag(t)
      BY <1>t, <2>1, <3>4 DEF ExitValue, JoinTest, JoinValue, LockTest, UnlockTest, DequeueFront,
         DequeueNext, DequeueRear, UnlockFlag, At, blockVars, EnqueuePCs
    <3>. QED BY <2>3, <3>1, <3>2, <3>3, <3>4 DEF LibraryStep
  <2>. QED BY <2>2, <2>3
<1>4. ASSUME threadState'[t] = "BLOCKED"
      PROVE  /\ flag'[call'[t].arg] = 1
             /\ pc'[t] \notin {"enqueue", "enqueue_front", "enqueue_next"} =>
                  Settled'.queue[call'[t].arg].rear = t
  <2>1. CASE LockBlock(t)
    <3>1. flag[call[t].arg] = 1
      BY <1>f, <2>1 DEF LockBlock, At, WakeInv
    <3>. QED BY <1>t, <1>c, <2>1, <3>1 DEF LockBlock, Goto, CallRecord
  <2>2. CASE threadState[t] = "BLOCKED"
    <3>1. flag[call[t].arg] = 1 /\ call[t].op = "lock" /\ call[t].arg \in Mutexes
      BY <1>f, <2>2 DEF MappingInv, StatesInv, TypeInv, CallsMatch, CallMatchesPC
    <3>m. call[t].arg \in Queues
      BY <3>1 DEF Queues
    <3>2. pc[t] \in EnqueuePCs => call[t].elem = t /\ call[t].queue = call[t].arg
      BY <1>f, <2>2, <3>1 DEF PendingInv, Home, HomeIn
    <3>3. CASE EnqueueTest(t)
      BY <1>t, <3>1, <3>3 DEF EnqueueTest, Goto
    <3>4. CASE EnqueueFront(t) \/ EnqueueNext(t)
      <4>1. /\ UNCHANGED <<call, flag>> /\ pc'[t] = "enqueue_rear" /\ pc[t] \in EnqueuePCs
            /\ mem' \in Heap
        <5>1. mem' \in Heap
          BY DEF TypeInv, TypeOK, Heap
        <5>. QED BY <1>t, <1>f, <3>4, <5>1 DEF EnqueueFront, EnqueueNext, At, Goto, PendingInv, EnqueuePCs
      <4>2. Settled' = [mem' EXCEPT !.queue[call[t].arg].rear = t]
        BY <1>f, <3>2, <4>1 DEF Settled, Settle
      <4>3. Settled'.queue[call[t].arg].rear = t
        BY <3>m, <4>1, <4>2 DEF Heap
      <4>. QED BY <3>1, <4>1, <4>3
    <3>5. CASE EnqueueRear(t)
      <4>1. Settled' = mem'
        BY <1>r, <1>f, <3>1, <3>5 DEF Settled, Settle
      <4>2. mem'.queue[call[t].arg].rear = t
        BY <1>r, <1>t, <3>m, <3>2, <3>5 DEF EnqueuePCs, Heap
      <4>3. call'[t].arg = call[t].arg /\ flag' = flag
        BY <1>r, <1>t, <3>1, <3>5 DEF NewCall
      <4>. QED BY <3>1, <4>1, <4>2, <4>3
    <3>6. CASE CallSchedule(t)
      <4>1. UNCHANGED <<mem, flag, call>> /\ pc[t] = "schedule" /\ pc'[t] = "lock_test"
        BY <1>t, <3>1, <3>6 DEF CallSchedule, At, Goto, AfterSchedule
      <4>2. Settled = mem /\ Settled' = mem
        BY <1>f, <4>1 DEF Settled, Settle
      <4>. QED BY <1>f, <2>2, <3>1, <4>1, <4>2 DEF MappingInv
    <3>7. \/ LockBlock(t) \/ EnqueueTest(t) \/ EnqueueFront(t) \/ EnqueueNext(t) \/ EnqueueRear(t)
          \/ CallSchedule(t)
      BY <1>3, <1>4
    <3>. QED BY <2>1, <3>3, <3>4, <3>5, <3>6, <3>7
  <2>. QED BY <1>3, <1>4, <2>1, <2>2
\* The last: the waiter that unlock has woken.
<1>5. ASSUME call'[t].op = "unlock", pc'[t] \in EnqueuePCs \cup {"unlock_flag"}, call'[t].elem # NULL
      PROVE  threadState'[call'[t].elem] = "QUEUED" /\ call'[call'[t].elem].arg = call'[t].arg
  <2>1. CASE UnlockState(t)
    <3>. DEFINE e == call[t].elem
    <3>1. /\ e \in Threads /\ threadState[e] = "BLOCKED" /\ call[e].arg = call[t].arg
          /\ call[t].op = "unlock"
      BY <1>f, <2>1, OpAt DEF UnlockState, At, PendingInv, TypeInv, CallsMatch, CallMatchesPC
    <3>2. e # t
      BY <3>1 DEF StatesInv
    <3>3. call'[t].elem = e /\ call'[t].arg = call[t].arg
      BY <1>t, <1>c, <2>1 DEF UnlockState, CallRecord
    <3>4. threadState'[e] = "QUEUED"
      BY <1>t, <2>1, <3>1 DEF UnlockState, SetState
    <3>. QED BY <1>f, <3>1, <3>2, <3>3, <3>4
  <2>2. CASE \/ EnqueueTest(t) \/ EnqueueFront(t) \/ EnqueueNext(t)
             \/ EnqueueRear(t) /\ call[t].op = "unlock"
    <3>1. UNCHANGED <<call, threadState>> /\ pc[t] \in EnqueuePCs
      BY <1>r, <2>2 DEF EnqueueTest, EnqueueFront, EnqueueNext, At, blockVars, EnqueuePCs
    <3>. QED BY <1>5, <1>f, <3>1 DEF MappingInv
  <2>3. CASE UnlockTest(t)
    <3>1. call[t].elem = NULL /\ call' = call
      BY <2>3 DEF UnlockTest, At, MappingInv
    <3>. QED BY <1>5, <3>1
  <2>4. CASE LibraryStep(t) /\ ~UnlockState(t) /\ ~UnlockTest(t) /\ ~EnqueueTest(t)
               /\ ~EnqueueFront(t) /\ ~EnqueueNext(t) /\ ~(EnqueueRear(t) /\ call[t].op = "unlock")
    <3>1. CASE EnqueueRear(t)
      BY <1>r, <1>t, <1>5, <2>4, <3>1 DEF Return, NoCall, NewCall
    <3>2. CASE CallSchedule(t)
      <4>1. call[t].op \in {"yield", "exit", "join", "lock"}
        BY <3>2, OpAt DEF CallSchedule, At
      <4>. QED BY <1>5, <1>t, <3>2, <4>1 DEF CallSchedule, NoCall, NewCall
    <3>3. CASE LockBlock(t)
      <4>1. call[t].op = "lock"
        BY <3>3, OpAt DEF LockBlock, At
      <4>2. call' = [call EXCEPT ![t] = [[call[t] EXCEPT !.elem = t] EXCEPT !.queue = call[t].arg]]
        BY <1>t, <3>3 DEF LockBlock
      <4>3. call'[t].op = "lock"
        BY <1>t, <1>c, <4>1, <4>2 DEF CallRecord
      <4>. QED BY <1>5, <4>3
    <3>. QED BY <1>5, <1>t, <1>c, <1>f, <2>4, <3>1, <3>2, <3>3, ZenonT(30) DEF LibraryStep, ExitValue, JoinTest,
         JoinValue, JoinRun, LockTest, DequeueFront, DequeueNext, DequeueRear, UnlockFlag, At, Goto,
         Return, NoCall, NewCall, EnqueuePCs, CallRecord, PendingInv
  <2>5. CASE ClientStep(t)
    <3>1. pc[t] # "returned" \/ ~Finish(t) \/ call[t].op = "exit"
      BY OpAt
    <3>. QED BY <1>5, <1>t, <2>5, <3>1 DEF ClientStep, Create, Join, Yield, Exit, Lock, Unlock, Finish, At,
         Goto, Begin, NewCall, clientVars, EnqueuePCs
  <2>. QED BY <2>1, <2>2, <2>3, <2>4, <2>5
<1>6. ASSUME pc'[t] = "unlock_flag", call'[t].elem = NULL
      PROVE  mem'.queue[call'[t].arg].front = NULL
  <2>1. CASE UnlockTest(t)
    BY <1>6, <1>t, <2>1 DEF UnlockTest, Goto
  <2>2. CASE EnqueueRear(t)
    <3>1. call[t].elem # NULL
      BY <1>r, <2>2 DEF TypeInv, CallsMatch, CallMatchesPC, EnqueuePCs
    <3>. QED BY <1>6, <1>r, <1>t, <2>2, <3>1 DEF Return, Goto
  <2>3. CASE CallSchedule(t)
    <3>1. call[t].op \in {"yield", "exit", "join", "lock"}
      BY <2>3, OpAt DEF CallSchedule, At
    <3>. QED BY <1>6, <1>t, <2>3, <3>1 DEF CallSchedule, Goto, AfterSchedule
  <2>4. CASE ClientStep(t)
    BY <1>6, <1>t, <2>4 DEF ClientStep, Create, Join, Yield, Exit, Lock, Unlock, Finish, At, Goto, clientVars
  <2>5. CASE LibraryStep(t) /\ ~UnlockTest(t) /\ ~EnqueueRear(t) /\ ~CallSchedule(t)
    BY <1>6, <1>t, <1>f, <2>5 DEF LibraryStep, EnqueueTest, EnqueueFront, EnqueueNext, ExitValue, JoinTest,
       JoinValue, JoinRun, LockTest, LockBlock, DequeueFront, DequeueNext, DequeueRear, UnlockState,
       UnlockFlag, At, Goto, Return, PendingInv
  <2>. QED BY <2>1, <2>2, <2>3, <2>4, <2>5
<1>8. ASSUME call'[t].op = "create" PROVE threadState'[call'[t].elem] = "QUEUED"
  <2>1. CASE \E u \in Threads : Create(t, u)
    BY <1>t, <2>1 DEF Create, SetState, NewCall
  <2>2. CASE EnqueueTest(t) \/ EnqueueFront(t) \/ EnqueueNext(t) \/ EnqueueRear(t)
    <3>1. call'[t].op = "create" => call' = call
      BY <1>r, <1>t, <2>2 DEF EnqueueTest, EnqueueFront, EnqueueNext, Return, NoCall, NewCall
    <3>2. threadState' = threadState
      BY <1>r, <2>2 DEF EnqueueTest, EnqueueFront, EnqueueNext, blockVars
    <3>. QED BY <1>8, <1>f, <3>1, <3>2 DEF MappingInv
  <2>3. CASE LibraryStep(t) /\ ~EnqueueTest(t) /\ ~EnqueueFront(t) /\ ~EnqueueNext(t) /\ ~EnqueueRear(t)
    <3>1. call[t].op # "create"
      BY <2>3, OpAt DEF LibraryStep, CallSchedule, ExitValue, JoinTest, JoinValue, JoinRun, LockTest,
         LockBlock, UnlockTest, DequeueFront, DequeueNext, DequeueRear, UnlockState, UnlockFlag, At
    <3>2. CASE LockBlock(t) \/ UnlockState(t) \/ DequeueFront(t) \/ JoinValue(t)
      BY <1>8, <1>t, <1>c, <3>1, <3>2 DEF LockBlock, UnlockState, DequeueFront, JoinValue, CallRecord
    <3>3. CASE \/ CallSchedule(t) \/ ExitValue(t) \/ JoinTest(t) \/ JoinRun(t) \/ LockTest(t)
               \/ UnlockTest(t) \/ DequeueNext(t) \/ DequeueRear(t) \/ UnlockFlag(t)
      BY <1>8, <1>t, <3>1, <3>3 DEF CallSchedule, ExitValue, JoinTest, JoinRun, LockTest,
         UnlockTest, DequeueNext, DequeueRear, UnlockFlag, Return, NoCall, NewCall
    <3>. QED BY <2>3, <3>2, <3>3 DEF LibraryStep
  <2>4. CASE ClientStep(t) /\ ~\E u \in Threads : Create(t, u)
    <3>1. call[t].op # "create"
      <4>1. At(t, "user") \/ At(t, "returned")
        BY <2>4 DEF ClientStep, Join, Yield, Exit, Lock, Unlock, Finish
      <4>. QED BY <4>1, OpAt DEF At
    <3>. QED BY <1>8, <1>t, <2>4, <3>1 DEF ClientStep, Join, Yield, Exit, Lock, Unlock, Finish, Begin,
         NewCall, clientVars
  <2>. QED BY <2>1, <2>2, <2>3, <2>4
<1>7. \A u \in Threads :
        /\ call'[u].op = "lock" => call'[u].arg \notin holds'[u]
        /\ pc'[u] \in {"unlock_test", "dequeue"} => call'[u].elem = NULL
  BY <1>f, <1>1, <1>2 DEF MappingInv
<1>. QED BY <1>f, <1>4, <1>5, <1>6, <1>7, <1>8 DEF MappingInv

LEMMA MappingStep ==
  ASSUME WindowsClosed, TypeInv, TypeInv', QueueInv, QueueInv', WakeInv, MappingInv, Next
  PROVE  MappingInv'
<1>1. ASSUME NEW c \in Threads, FirstCreate(c) PROVE MappingInv'
  <2>1. /\ UNCHANGED <<flag, pc, call, holds>> /\ currentThread' = Main
        /\ \A t \in Threads : pc[t] = "user" /\ call[t].op = "none"
        /\ threadState'[Main] = "RUNNING"
    BY <1>1 DEF FirstCreate, clientVars, QueueInv, StatesInv, NewInv, TypeInv, TypeOK
  <2>. QED BY <2>1 DEF MappingInv, EnqueuePCs
<1>2. CASE SchedulerStep \/ Tick \/ TickIgnored \/ Ended
  BY <1>2, SchedulerMaps
<1>. QED BY <1>1, <1>2, ThreadMaps DEF Next

LEMMA MappingInit == Init => MappingInv
BY DEF Init, MappingInv, NoCall, NewCall

\* A thread that is being woken is off the wait queue, in the locals of the
\* current thread's unlock.
WokenShow ==
  \A u \in Threads :
    BeingWoken(u) =>
      /\ currentThread \in Threads /\ u # currentThread
      /\ call[currentThread].op = "unlock" /\ call[currentThread].elem = u
      /\ pc[currentThread] \notin CallBoundaries
      /\ threadState[u] \in {"BLOCKED", "QUEUED"}
      /\ call[u].arg = call[currentThread].arg

LEMMA WokenShown == TypeInv /\ QueueInv /\ MappingInv => WokenShow
<1>. SUFFICES ASSUME TypeInv, QueueInv, MappingInv, NEW u \in Threads, BeingWoken(u)
              PROVE  /\ currentThread \in Threads /\ u # currentThread
                     /\ call[currentThread].op = "unlock" /\ call[currentThread].elem = u
                     /\ pc[currentThread] \notin CallBoundaries
                     /\ threadState[u] \in {"BLOCKED", "QUEUED"}
                     /\ call[u].arg = call[currentThread].arg
  BY DEF WokenShow
<1>. USE DEF QueueInv
<1>1. PICK x \in Threads : call[x].op = "unlock" /\ call[x].elem = u
  BY DEF BeingWoken
<1>2. pc[x] \notin {"unlock_test", "dequeue"}
  BY <1>1 DEF MappingInv
<1>3. pc[x] \in {"dequeue_next", "dequeue_rear", "unlock_state", "unlock_flag"} \cup EnqueuePCs
  BY <1>1, <1>2 DEF TypeInv, CallsMatch, CallMatchesPC
<1>4. pc[x] \notin CallBoundaries /\ x = currentThread
  BY <1>3 DEF AtBoundaries, CallBoundaries, EnqueuePCs
<1>5. threadState[u] \in {"BLOCKED", "QUEUED"} /\ call[u].arg = call[x].arg
  <2>1. CASE pc[x] \in {"dequeue_next", "dequeue_rear", "unlock_state"}
    BY <1>1, <1>4, <2>1 DEF PendingInv
  <2>2. CASE pc[x] \in EnqueuePCs \cup {"unlock_flag"}
    BY <1>1, <1>4, <2>2 DEF MappingInv
  <2>. QED BY <1>3, <2>1, <2>2
<1>6. u # x
  BY <1>1, <1>4, <1>5 DEF StatesInv
<1>. QED BY <1>1, <1>4, <1>5, <1>6

\* All that the steps of the mapping rely on.
MapInv == /\ TypeInv /\ QueueInv /\ MutexInv /\ WakeInv /\ MappingInv
          /\ WaitLists /\ OwnersShow /\ WokenShow

-----------------------------------------------------------------------------
(***************************************************************************)
(* What changes nothing the contract speaks of.                            *)
(***************************************************************************)

LEMMA OwnersKept ==
  ASSUME OwnersShow, OwnersShow', \A t \in Threads, m \in Mutexes : Owns(t, m)' <=> Owns(t, m)
  PROVE  contractOwner' = contractOwner
<1>1. ASSUME NEW m \in Mutexes PROVE Owner(m)' = Owner(m)
  BY DEF OwnersShow
<1>. QED BY <1>1 DEF contractOwner

\* The current thread stays, no thread starts or ends, and those that wait do.
LEMMA StatusKept ==
  ASSUME currentThread' = currentThread,
         \A u \in Threads :
           /\ threadState'[u] = "NEW" <=> threadState[u] = "NEW"
           /\ threadState'[u] = "EXITED" <=> threadState[u] = "EXITED"
           /\ u # currentThread =>
                (threadState'[u] = "BLOCKED" \/ BeingWoken(u)' <=> threadState[u] = "BLOCKED" \/ BeingWoken(u))
  PROVE  contractStatus' = contractStatus
<1>1. ASSUME NEW u \in Threads PROVE Status(u)' = Status(u)
  BY DEF Status
<1>. QED BY <1>1 DEF contractStatus

\* The links of the list of m stay, and who is woken for it.
LEMMA WaitersKept ==
  ASSUME MapInv, MapInv', NEW m \in Mutexes,
         mem'.queue[m].front = mem.queue[m].front,
         \A t \in Threads :
           Place(t) = m => mem'.next[t] = mem.next[t] /\ (t = currentThread <=> t = currentThread'),
         \A t \in Threads : BeingWoken(t)' /\ call'[t].arg = m <=> BeingWoken(t) /\ call[t].arg = m
  PROVE  Waiters(m)' = Waiters(m)
<1>t. mem \in Heap /\ mem' \in Heap /\ m \in Queues /\ Cardinality(Threads) \in Nat
  BY FiniteAssumption, FS_CardinalityType DEF MapInv, TypeInv, TypeOK, Heap, Queues
<1>1. PICK l : /\ IsList(l, mem, m)
               /\ Len(l) <= Cardinality(Threads)
               /\ Elements(l) = {t \in Threads : Place(t) = m}
  BY DEF MapInv, WaitLists
<1>2. IsList(l, mem', m)
  BY <1>1, ListKept
<1>3. Len(l) \in Nat /\ \A n \in 1 .. Len(l) : l[n] \in Threads /\ Place(l[n]) = m
  BY <1>1, LenProperties DEF IsList, Elements
<1>. DEFINE N == Cardinality(Threads)
            f == NthIn(mem, m)
            g == NthIn(mem', m)
            D == {k \in DOMAIN f : f[k] \notin {NULL, currentThread}}
            E == {k \in DOMAIN g : g[k] \notin {NULL, currentThread'}}
<1>4. /\ DOMAIN f = 1 .. N /\ \A n \in 1 .. N : f[n] = IF n <= Len(l) THEN l[n] ELSE NULL
      /\ DOMAIN g = 1 .. N /\ \A n \in 1 .. N : g[n] = IF n <= Len(l) THEN l[n] ELSE NULL
  BY <1>t, <1>1, <1>2, NthLists
<1>5. Queued(m) = [n \in D |-> f[n]] /\ Queued(m)' = [n \in E |-> g[n]]
  <2>1. Nth(m) = f
    BY DEF Nth, NthIn
  <2>2. Nth(m)' = g
    BY DEF Nth, NthIn
  <2>. QED BY <2>1, <2>2 DEF Queued
<1>. HIDE DEF N, f, g
<1>6. ASSUME NEW n \in 1 .. N PROVE f[n] = g[n] /\ (n \in D <=> n \in E)
  <2>1. CASE n <= Len(l)
    <3>1. n \in 1 .. Len(l)
      BY <1>t, <1>3, <2>1 DEF N
    <3>2. l[n] = currentThread <=> l[n] = currentThread'
      BY <1>3, <3>1
    <3>. QED BY <1>4, <2>1, <3>2
  <2>2. CASE ~(n <= Len(l))
    BY <1>4, <2>2
  <2>. QED BY <2>1, <2>2
<1>7. D = E
  BY <1>4, <1>6
<1>8. Queued(m)' = Queued(m)
  BY <1>4, <1>5, <1>6, <1>7
<1>. DEFINE W == {t \in Threads : BeingWoken(t) /\ call[t].arg = m}
<1>9. W' = W
  OBVIOUS
<1>10. Waiters(m) = IF W = {} THEN Queued(m) ELSE <<CHOOSE t \in W : TRUE>> \o Queued(m)
  BY DEF Waiters
<1>11. Waiters(m)' = IF W' = {} THEN Queued(m)' ELSE <<CHOOSE t \in W' : TRUE>> \o Queued(m)'
  BY DEF Waiters
<1>. HIDE DEF W
<1>. QED BY <1>8, <1>9, <1>10, <1>11

\* Nobody starts or stops being woken.
LEMMA WokenStays ==
  ASSUME WokenShow, WokenShow', NEW t \in Threads, currentThread = t, currentThread' = t,
         \A u \in Threads \ {t} : call'[u] = call[u],
         \A u \in Threads :
           call'[t].op = "unlock" /\ call'[t].elem = u <=> call[t].op = "unlock" /\ call[t].elem = u
  PROVE  \A u \in Threads : /\ BeingWoken(u)' <=> BeingWoken(u)
                            /\ BeingWoken(u) => call'[u].arg = call[u].arg
<1>1. ASSUME NEW u \in Threads PROVE BeingWoken(u) <=> call[t].op = "unlock" /\ call[t].elem = u
  BY DEF WokenShow, BeingWoken
<1>2. ASSUME NEW u \in Threads PROVE BeingWoken(u)' <=> call'[t].op = "unlock" /\ call'[t].elem = u
  BY DEF WokenShow, BeingWoken
<1>3. ASSUME NEW u \in Threads, BeingWoken(u) PROVE u # t
  BY <1>3 DEF WokenShow
<1>. QED BY <1>1, <1>2, <1>3

\* Statements between which nothing happens that the contract speaks of, or only
\* the locals of a call change.
LEMMA QuietMaps ==
  ASSUME MapInv, MapInv', NEW t \in Threads,
         \/ CallSchedule(t) \/ EnqueueTest(t) \/ EnqueueRear(t) \/ ExitValue(t) \/ JoinTest(t)
         \/ JoinValue(t) \/ JoinRun(t) \/ (LockTest(t) /\ flag[call[t].arg] = 1) \/ LockBlock(t)
         \/ UnlockTest(t) \/ DequeueNext(t) \/ DequeueRear(t) \/ UnlockState(t)
         \/ Yield(t) \/ Finish(t) \/ \E u \in Threads : Join(t, u)
         \/ \E m \in Mutexes : Lock(t, m) \/ Unlock(t, m)
  PROVE  UNCHANGED <<contractStatus, contractOwner, contractWaiters>>
<1>. USE DEF QueueInv, MapInv
<1>t. /\ threadState \in [Threads -> States] /\ call \in [Threads -> CallRecord]
      /\ pc \in [Threads -> PCs] /\ holds \in [Threads -> SUBSET Mutexes] /\ mem \in Heap
      /\ flag \in [Mutexes -> {0, 1}]
  BY DEF TypeInv, TypeOK, Heap
<1>f. /\ sched = "idle" /\ currentThread = t /\ currentThread' = t
      /\ \A u \in Threads \ {t} : call'[u] = call[u] /\ holds'[u] = holds[u]
  BY ThreadFrame DEF LibraryStep, ClientStep
<1>c. call[t] \in CallRecord
  BY <1>t
<1>r. EnqueueRear(t) =>
        /\ mem' = [mem EXCEPT !.queue[call[t].queue].rear = call[t].elem]
        /\ UNCHANGED holds
        /\ \/ call[t].op = "create" /\ call' = [call EXCEPT ![t] = NoCall]
           \/ /\ call[t].op = "lock"
              /\ call' = [call EXCEPT ![t] = NewCall("lock", call[t].arg, NULL, NULL)]
           \/ call[t].op = "unlock" /\ call' = call
  BY RearCases DEF Return
\* The group of statements that change neither states nor links.
<1>. DEFINE Plain == \/ CallSchedule(t) \/ EnqueueTest(t) \/ ExitValue(t) \/ JoinTest(t)
                     \/ JoinValue(t) \/ (LockTest(t) /\ flag[call[t].arg] = 1) \/ UnlockTest(t)
                     \/ Finish(t) \/ \E m \in Mutexes : Lock(t, m) \/ Unlock(t, m)
            Links == EnqueueRear(t) \/ DequeueNext(t) \/ DequeueRear(t)
            Own   == JoinRun(t) \/ LockBlock(t) \/ Yield(t) \/ \E u \in Threads : Join(t, u)
<1>s. Plain \/ Links \/ Own \/ UnlockState(t)
  OBVIOUS
<1>. HIDE DEF Plain, Links, Own
<1>1. Plain => UNCHANGED <<threadState, mem>>
  BY DEF Plain, CallSchedule, EnqueueTest, ExitValue, JoinTest, JoinValue, LockTest, UnlockTest,
     Finish, Lock, Unlock, blockVars
<1>2. Links => UNCHANGED threadState
  BY DEF Links, EnqueueRear, DequeueNext, DequeueRear, blockVars
<1>3. Own => /\ UNCHANGED mem
             /\ \A u \in Threads \ {t} : threadState'[u] = threadState[u]
             /\ threadState'[t] \notin {"NEW", "EXITED"} /\ threadState[t] \notin {"NEW", "EXITED"}
  <2>1. Own => UNCHANGED mem /\ \E s \in {"RUNNING", "BLOCKED", "YIELD", "JOINING"} : SetState(t, s)
    BY DEF Own, JoinRun, LockBlock, Yield, Join
  <2>2. Own => call[t].op # "exit"
    BY OpAt DEF Own, JoinRun, LockBlock, Yield, Join, At
  <2>3. threadState[t] # "NEW"
    BY <1>f DEF NewInv
  <2>. QED BY <1>t, <2>1, <2>2, <2>3 DEF SetState, TimerInv
<1>4. ASSUME NEW m \in Mutexes
      PROVE  /\ mem'.queue[m].front = mem.queue[m].front
             /\ \A u \in Threads : Place(u) = m => mem'.next[u] = mem.next[u]
  <2>m. m \in Queues
    BY DEF Queues
  <2>1. CASE EnqueueRear(t) \/ DequeueRear(t)
    <3>1. \E q, x : mem' = mem \/ mem' = [mem EXCEPT !.queue[q].rear = x]
      BY <1>r, <2>1 DEF DequeueRear
    <3>. QED BY <1>t, <2>m, <3>1 DEF Heap
  <2>2. CASE DequeueNext(t)
    <3>1. mem' = [mem EXCEPT !.next[call[t].elem] = NULL] /\ InHand(call[t].elem)
      BY <1>f, <2>2 DEF DequeueNext, At, InHand, Running
    <3>2. \A u \in Threads : Place(u) = m => u # call[t].elem
      BY <2>m, <3>1 DEF Place
    <3>. QED BY <1>t, <3>1, <3>2 DEF Heap
  <2>3. CASE UnlockState(t)
    BY <2>3 DEF UnlockState
  <2>. QED BY <1>s, <1>1, <1>3, <2>1, <2>2, <2>3 DEF Links
<1>5. \A u \in Threads :
        call'[t].op = "unlock" /\ call'[t].elem = u <=> call[t].op = "unlock" /\ call[t].elem = u
  <2>1. CASE CallSchedule(t)
    <3>1. call[t].op \in {"yield", "exit", "join", "lock"}
      BY <2>1, OpAt DEF CallSchedule, At
    <3>. QED BY <1>t, <2>1, <3>1 DEF CallSchedule, NoCall, NewCall
  <2>2. CASE EnqueueRear(t)
    BY <1>t, <1>r, <2>2 DEF NoCall, NewCall
  <2>3. CASE JoinRun(t) \/ JoinValue(t) \/ LockBlock(t)
    <3>1. call[t].op \in {"join", "lock"}
      BY <2>3, OpAt DEF JoinRun, JoinValue, LockBlock, At
    <3>. QED BY <1>t, <1>c, <2>3, <3>1 DEF JoinRun, JoinValue, LockBlock, Return, NoCall, NewCall, CallRecord
  <2>4. CASE Yield(t) \/ (\E u \in Threads : Join(t, u)) \/ (\E m \in Mutexes : Lock(t, m) \/ Unlock(t, m))
    <3>1. call[t].op = "none"
      BY <2>4, OpAt DEF Yield, Join, Lock, Unlock, At
    <3>. QED BY <1>t, <2>4, <3>1 DEF Yield, Join, Lock, Unlock, Begin, NewCall
  <2>5. CASE UnlockState(t)
    BY <1>t, <1>c, <2>5 DEF UnlockState, CallRecord
  <2>6. CASE \/ EnqueueTest(t) \/ ExitValue(t) \/ JoinTest(t) \/ (LockTest(t) /\ flag[call[t].arg] = 1)
             \/ UnlockTest(t) \/ DequeueNext(t) \/ DequeueRear(t) \/ Finish(t)
    BY <2>6 DEF EnqueueTest, ExitValue, JoinTest, LockTest, UnlockTest, DequeueNext, DequeueRear,
       Finish, clientVars
  <2>. QED BY <1>s, <2>1, <2>2, <2>3, <2>4, <2>5, <2>6 DEF Plain, Links, Own
<1>6. \A u \in Threads : /\ BeingWoken(u)' <=> BeingWoken(u)
                         /\ BeingWoken(u) => call'[u].arg = call[u].arg
  BY <1>f, <1>5, WokenStays
<1>7. contractStatus' = contractStatus
  <2>1. CASE Plain \/ Links
    BY <1>1, <1>2, <1>6, <1>f, <2>1, StatusKept
  <2>2. CASE Own
    BY <1>3, <1>6, <1>f, <2>2, StatusKept
  <2>3. CASE UnlockState(t)
    <3>. DEFINE e == call[t].elem
    <3>1. e \in Threads /\ BeingWoken(e) /\ threadState[e] = "BLOCKED"
      BY <1>f, <2>3, OpAt DEF UnlockState, At, BeingWoken, PendingInv, TypeInv, CallsMatch, CallMatchesPC
    <3>2. \A u \in Threads : threadState'[u] = IF u = e THEN "QUEUED" ELSE threadState[u]
      BY <1>t, <2>3 DEF UnlockState, SetState
    <3>. QED BY <1>6, <1>f, <3>1, <3>2, StatusKept
  <2>. QED BY <1>s, <2>1, <2>2, <2>3
<1>8. ASSUME NEW m \in Mutexes PROVE Waiters(m)' = Waiters(m)
  BY <1>4, <1>6, <1>f, WaitersKept
<1>9. contractWaiters' = contractWaiters
  BY <1>8 DEF contractWaiters
<1>10. \A m \in Mutexes : Owns(t, m)' <=> Owns(t, m)
  <2>1. ASSUME NEW m \in Mutexes, Unlock(t, m) PROVE \A n \in Mutexes : Owns(t, n)' <=> Owns(t, n)
    <3>1. call[t].op = "none" /\ m \in holds[t]
      BY <2>1, OpAt DEF Unlock, At
    <3>. QED BY <1>t, <2>1, <3>1 DEF Unlock, Begin, NewCall, Owns, Unlocking
  <2>2. CASE CallSchedule(t)
    <3>1. call[t].op \in {"yield", "exit", "join", "lock"}
      BY <2>2, OpAt DEF CallSchedule, At
    <3>. QED BY <1>t, <2>2, <3>1 DEF CallSchedule, NoCall, NewCall, Owns, Unlocking
  <2>3. CASE EnqueueRear(t)
    BY <1>t, <1>r, <2>3 DEF NoCall, NewCall, Owns, Unlocking
  <2>4. CASE JoinRun(t) \/ JoinValue(t) \/ LockBlock(t)
    <3>1. call[t].op \in {"join", "lock"}
      BY <2>4, OpAt DEF JoinRun, JoinValue, LockBlock, At
    <3>. QED BY <1>t, <1>c, <2>4, <3>1 DEF JoinRun, JoinValue, LockBlock, Return, NoCall, NewCall,
         CallRecord, Owns, Unlocking
  <2>5. CASE Yield(t) \/ (\E u \in Threads : Join(t, u)) \/ (\E m \in Mutexes : Lock(t, m))
    <3>1. call[t].op = "none"
      BY <2>5, OpAt DEF Yield, Join, Lock, At
    <3>. QED BY <1>t, <2>5, <3>1 DEF Yield, Join, Lock, Begin, NewCall, Owns, Unlocking
  <2>6. CASE UnlockState(t)
    BY <1>t, <1>c, <2>6 DEF UnlockState, CallRecord, Owns, Unlocking
  <2>7. CASE \/ EnqueueTest(t) \/ ExitValue(t) \/ JoinTest(t) \/ (LockTest(t) /\ flag[call[t].arg] = 1)
             \/ UnlockTest(t) \/ DequeueNext(t) \/ DequeueRear(t) \/ Finish(t)
    BY <2>7 DEF EnqueueTest, ExitValue, JoinTest, LockTest, UnlockTest, DequeueNext, DequeueRear,
       Finish, clientVars, Owns, Unlocking
  <2>. QED BY <1>s, <2>1, <2>2, <2>3, <2>4, <2>5, <2>6, <2>7 DEF Plain, Links, Own
<1>11. \A u \in Threads, m \in Mutexes : Owns(u, m)' <=> Owns(u, m)
  BY <1>f, <1>10 DEF Owns, Unlocking
<1>. QED BY <1>7, <1>9, <1>11, OwnersKept

-----------------------------------------------------------------------------
(***************************************************************************)
(* Stores to a wait queue.                                                 *)
(***************************************************************************)

\* Queued in terms of QueuedIn, before a step and after it.
LEMMA QueuedEquals ==
  ASSUME NEW m
  PROVE  /\ Queued(m) = QueuedIn(mem, currentThread, m)
         /\ Queued(m)' = QueuedIn(mem', currentThread', m)
<1>1. Nth(m) = NthIn(mem, m)
  BY DEF Nth, NthIn
<1>2. Nth(m)' = NthIn(mem', m)
  BY DEF Nth, NthIn
<1>. QED BY <1>1, <1>2 DEF Queued, QueuedIn

\* The list of q with e linked after its last thread.
LEMMA ListAppend ==
  ASSUME NEW h \in Heap, NEW g, NEW q \in Queues, NEW l, IsList(l, h, q), NEW e \in Threads,
         g.next[e] = NULL,
         \A t \in Elements(l) : g.next[t] = IF h.next[t] = NULL THEN e ELSE h.next[t],
         g.queue[q].front = IF h.queue[q].front = NULL THEN e ELSE h.queue[q].front
  PROVE  IsList(Append(l, e), g, q)
<1>1. l \in Seq(Threads) /\ Len(l) \in Nat /\ \A n \in 1 .. Len(l) : l[n] \in Threads
  BY LenProperties, ElementOfSeq DEF IsList
<1>2. /\ Append(l, e) \in Seq(Threads) /\ Len(Append(l, e)) = Len(l) + 1
      /\ \A n \in 1 .. Len(l) : Append(l, e)[n] = l[n]
      /\ Append(l, e)[Len(l) + 1] = e
  BY <1>1, AppendProperties
<1>. DEFINE k == Append(l, e)
<1>. HIDE DEF k
<1>3. g.queue[q].front = k[1]
  <2>1. CASE Len(l) = 0
    BY <1>1, <1>2, <2>1 DEF IsList, k
  <2>2. CASE Len(l) # 0
    <3>1. 1 \in 1 .. Len(l)
      BY <1>1, <2>2
    <3>. QED BY <1>1, <1>2, <2>2, <3>1 DEF IsList, k
  <2>. QED BY <2>1, <2>2
<1>4. ASSUME NEW n \in 1 .. Len(k) PROVE g.next[k[n]] = IF n = Len(k) THEN NULL ELSE k[n + 1]
  <2>1. CASE n = Len(l) + 1
    BY <1>2, <2>1 DEF k
  <2>2. CASE n # Len(l) + 1
    <3>1. n \in 1 .. Len(l) /\ n # Len(k) /\ k[n] = l[n] /\ l[n] \in Elements(l)
      BY <1>1, <1>2, <2>2 DEF k, Elements
    <3>2. CASE n = Len(l)
      BY <1>1, <1>2, <3>1, <3>2 DEF IsList, k
    <3>3. CASE n # Len(l)
      <4>1. n + 1 \in 1 .. Len(l)
        BY <1>1, <3>1, <3>3
      <4>2. h.next[l[n]] = l[n + 1] /\ l[n + 1] # NULL /\ k[n + 1] = l[n + 1]
        BY <1>1, <1>2, <3>1, <3>3, <4>1 DEF IsList, k
      <4>. QED BY <3>1, <4>2
    <3>. QED BY <3>2, <3>3
  <2>. QED BY <2>1, <2>2
<1>5. Len(k) # 0
  BY <1>1, <1>2 DEF k
<1>. QED BY <1>2, <1>3, <1>4, <1>5 DEF IsList, k

\* The list of q with its front moved past the first thread.
LEMMA ListTail ==
  ASSUME NEW h \in Heap, NEW g, NEW q \in Queues, NEW l, IsList(l, h, q),
         h.queue[q].front # NULL, g.queue[q].front = h.next[h.queue[q].front],
         \A t \in Elements(l) : g.next[t] = h.next[t]
  PROVE  /\ l = <<h.queue[q].front>> \o Tail(l)
         /\ Tail(l) \in Seq(Threads) /\ Len(l) = Len(Tail(l)) + 1 /\ Len(Tail(l)) \in Nat
         /\ IsList(Tail(l), g, q)
<1>1. l \in Seq(Threads) /\ Len(l) \in Nat /\ \A n \in 1 .. Len(l) : l[n] \in Threads
  BY LenProperties, ElementOfSeq DEF IsList
<1>2. Len(l) # 0 /\ h.queue[q].front = l[1] /\ l # <<>>
  BY <1>1 DEF IsList
<1>3. /\ Tail(l) \in Seq(Threads) /\ Len(Tail(l)) = Len(l) - 1
      /\ \A n \in 1 .. Len(Tail(l)) : Tail(l)[n] = l[n + 1]
  BY <1>1, <1>2, HeadTailProperties
<1>. DEFINE k == Tail(l)
            f == l[1]
<1>4. 1 \in 1 .. Len(l) /\ f \in Threads
  BY <1>1, <1>2
<1>5. <<f>> \in Seq(Threads) /\ Len(<<f>>) = 1 /\ <<f>>[1] = f
  BY <1>4
<1>. HIDE DEF k, f
<1>6. l = <<f>> \o k
  <2>1. /\ <<f>> \o k \in Seq(Threads) /\ Len(<<f>> \o k) = 1 + Len(k)
        /\ \A i \in 1 .. 1 + Len(k) : (<<f>> \o k)[i] = IF i <= 1 THEN <<f>>[i] ELSE k[i - 1]
    BY <1>3, <1>5, ConcatProperties DEF k
  <2>2. ASSUME NEW i \in 1 .. Len(l) PROVE l[i] = (<<f>> \o k)[i]
    <3>1. CASE i = 1
      BY <1>1, <1>3, <1>5, <2>1, <3>1 DEF k, f
    <3>2. CASE i # 1
      <4>1. i - 1 \in 1 .. Len(k) /\ i - 1 + 1 = i /\ i \in 1 .. 1 + Len(k) /\ ~(i <= 1)
        BY <1>1, <1>3, <3>2 DEF k
      <4>. QED BY <1>3, <2>1, <4>1 DEF k
    <3>. QED BY <3>1, <3>2
  <2>. QED BY <1>1, <1>3, <2>1, <2>2, SeqEqual DEF k
<1>7. IsList(k, g, q)
  <2>1. g.queue[q].front = IF Len(k) = 0 THEN NULL ELSE k[1]
    <3>1. l[1] \in Elements(l) /\ g.queue[q].front = h.next[l[1]]
      BY <1>2, <1>4 DEF Elements
    <3>2. h.next[l[1]] = IF 1 = Len(l) THEN NULL ELSE l[1 + 1]
      BY <1>4 DEF IsList
    <3>. QED BY <1>1, <1>3, <3>1, <3>2 DEF k
  <2>2. ASSUME NEW n \in 1 .. Len(k) PROVE g.next[k[n]] = IF n = Len(k) THEN NULL ELSE k[n + 1]
    <3>1. n + 1 \in 1 .. Len(l) /\ k[n] = l[n + 1] /\ (n + 1 = Len(l) <=> n = Len(k))
      BY <1>1, <1>3 DEF k
    <3>2. g.next[l[n + 1]] = IF n + 1 = Len(l) THEN NULL ELSE l[n + 1 + 1]
      BY <3>1 DEF IsList, Elements
    <3>3. ASSUME n # Len(k) PROVE n + 1 \in 1 .. Len(k) /\ k[n + 1] = l[n + 1 + 1]
      <4>1. Len(k) \in Nat
        BY <1>1, <1>2, <1>3 DEF k
      <4>2. n + 1 \in 1 .. Len(k)
        BY <3>3, <4>1
      <4>. QED BY <1>3, <4>2 DEF k
    <3>. QED BY <3>1, <3>2, <3>3
  <2>. QED BY <1>3, <2>1, <2>2 DEF IsList, k
<1>. QED BY <1>1, <1>2, <1>3, <1>6, <1>7 DEF k, f

\* Nobody starts or stops being woken while the calls stay.
LEMMA WokenSame ==
  ASSUME call' = call
  PROVE  \A u \in Threads : /\ BeingWoken(u)' <=> BeingWoken(u)
                            /\ call'[u].arg = call[u].arg
BY DEF BeingWoken

\* A running thread that links itself into a wait queue is no waiter yet, and
\* the other links it makes are those of run queues.
LEMMA EnqueueMaps ==
  ASSUME MapInv, MapInv', NEW t \in Threads, EnqueueFront(t) \/ EnqueueNext(t)
  PROVE  UNCHANGED <<contractStatus, contractOwner, contractWaiters>>
<1>. USE DEF QueueInv, MapInv
<1>t. mem \in Heap /\ mem' \in Heap /\ pc \in [Threads -> PCs] /\ Cardinality(Threads) \in Nat
  BY FiniteAssumption, FS_CardinalityType DEF TypeInv, TypeOK, Heap
<1>f. sched = "idle" /\ currentThread = t /\ currentThread' = t
  BY ThreadFrame DEF LibraryStep
<1>s. UNCHANGED <<threadState, priority, holds, call>>
  BY DEF EnqueueFront, EnqueueNext, blockVars
<1>w. \A u \in Threads : /\ BeingWoken(u)' <=> BeingWoken(u)
                         /\ call'[u].arg = call[u].arg
  BY <1>s, WokenSame
<1>. DEFINE e == call[t].elem
            q == call[t].queue
            rear == mem.queue[q].rear
<1>p. pc[t] \in {"enqueue_front", "enqueue_next"} /\ pc[t] \in EnqueuePCs
  BY DEF EnqueueFront, EnqueueNext, At, EnqueuePCs
<1>e. e \in Threads /\ q \in Queues /\ Home(e) = q
  BY <1>f, <1>p DEF TypeInv, CallsMatch, CallMatchesPC, PendingInv
<1>l. Lists(mem, On) /\ On \in Places /\ On[e] = NULL /\ Place(e) = NULL
  <2>1. Settled = mem /\ InHand(e)
    BY <1>f, <1>p DEF Settled, Settle, InHand, Running
  <2>. QED BY <1>e, <2>1, PlacesType DEF ListsInv, On, Place
<1>n. PICK pos \in [Threads -> Nat] : Linked(mem, q, On, pos)
  BY <1>l, <1>e DEF Lists
<1>r. rear \in ThreadOrNull /\ (rear # NULL => On[rear] = q) /\ mem.next[e] = NULL
  BY <1>t, <1>e, <1>l, <1>n DEF Heap, Linked, Lists
<1>m. \/ rear = NULL /\ mem' = [mem EXCEPT !.queue[q].front = e]
      \/ rear # NULL /\ mem' = [mem EXCEPT !.next[rear] = e]
  BY <1>f, <1>p DEF EnqueueFront, EnqueueNext, At, PendingInv
<1>g. /\ \A u \in Threads : mem'.next[u] = IF rear # NULL /\ u = rear THEN e ELSE mem.next[u]
      /\ \A r \in Queues : mem'.queue[r].front = IF rear = NULL /\ r = q THEN e ELSE mem.queue[r].front
  <2>. HIDE DEF e, q
  <2>1. CASE rear = NULL
    BY <1>t, <1>e, <1>m, <2>1 DEF Heap
  <2>2. CASE rear # NULL
    BY <1>t, <1>e, <1>m, <2>2 DEF Heap
  <2>. QED BY <2>1, <2>2
<1>1. ASSUME NEW m \in Mutexes, m # q PROVE Waiters(m)' = Waiters(m)
  <2>1. m \in Queues
    BY DEF Queues
  <2>2. \A u \in Threads : Place(u) = m => ~(rear # NULL /\ u = rear)
    BY <1>r, <1>1 DEF On
  <2>. QED BY <1>f, <1>g, <1>w, <1>1, <2>1, <2>2, WaitersKept
<1>2. ASSUME NEW m \in Mutexes, m = q PROVE Waiters(m)' = Waiters(m)
  <2>1. e = t
    <3>1. threadState[e] = "BLOCKED"
      <4>1. /\ threadState \in [Threads -> States] /\ priority \in [Threads -> Levels]
            /\ threadState[e] = "BLOCKED" => call[e].op = "lock"
        BY <1>e DEF StatesInv, TypeInv, TypeOK
      <4>. QED BY <1>e, <1>2, <4>1, HomeCases DEF Home
    <3>2. call[t].op \in {"create", "lock", "unlock"}
      BY <1>p, OpAt
    <3>3. call[t].op = "unlock" => threadState[e] = "QUEUED"
      BY <1>f, <1>p, <1>e DEF MappingInv
    <3>4. call[t].op = "create" => threadState[e] = "QUEUED"
      BY <1>f DEF MappingInv
    <3>. QED BY <1>f, <1>p, <3>1, <3>2, <3>3, <3>4 DEF PendingInv
  <2>2. PICK l : /\ IsList(l, mem, m)
                 /\ Len(l) <= Cardinality(Threads)
                 /\ Elements(l) = {u \in Threads : Place(u) = m}
    BY DEF WaitLists
  <2>3. l \in Seq(Threads) /\ Len(l) \in Nat /\ \A n \in 1 .. Len(l) : l[n] \in Elements(l)
    BY <2>2, LenProperties DEF IsList, Elements
  <2>4. \A u \in Elements(l) : mem.next[u] = NULL <=> u = rear
    <3>1. \A u \in Elements(l) : On[u] = q /\ u \in Threads
      BY <1>2, <2>2 DEF On
    <3>. QED BY <1>t, <1>e, <1>l, <1>n, <3>1, LinkedAt
  <2>5. mem.queue[m].front = NULL <=> rear = NULL
    <3>1. mem.queue[m].front \in ThreadOrNull
      BY <1>t, <1>e, <1>2 DEF Heap
    <3>. QED BY <1>r, <1>n, <1>2, <3>1 DEF Linked
  <2>6. IsList(Append(l, e), mem', m)
    <3>2. mem'.next[e] = NULL
      BY <1>g, <1>r, <1>e, <1>l
    <3>3. \A u \in Elements(l) : mem'.next[u] = IF mem.next[u] = NULL THEN e ELSE mem.next[u]
      BY <1>g, <2>2, <2>4, <1>r
    <3>4. mem'.queue[m].front = IF mem.queue[m].front = NULL THEN e ELSE mem.queue[m].front
      BY <1>g, <1>e, <1>2, <2>5
    <3>. QED BY <1>t, <1>e, <1>2, <2>2, <3>2, <3>3, <3>4, ListAppend
  <2>7. Len(Append(l, e)) <= Cardinality(Threads)
    <3>1. PICK k : IsList(k, mem', m) /\ Len(k) <= Cardinality(Threads)
      BY DEF WaitLists
    <3>. QED BY <1>t, <1>e, <1>2, <2>6, <3>1, ListUnique
  <2>8. /\ Len(Append(l, e)) = Len(l) + 1 /\ Append(l, e)[Len(l) + 1] = e
        /\ \A n \in 1 .. Len(l) : Append(l, e)[n] = l[n]
    BY <1>e, <2>3, AppendProperties
  <2>9. \A n \in 1 .. Len(l) : l[n] # t
    <3>1. Place(t) # m
      BY <1>l, <2>1, <1>2, <1>e
    <3>. QED BY <2>2, <2>3, <3>1
  <2>10. QueuedIn(mem, t, m) = l
    BY <1>t, <1>e, <1>2, <2>2, <2>3, <2>9, QueuedIs
  <2>11. QueuedIn(mem', t, m) = l
    <3>. DEFINE k == Append(l, e)
    <3>. HIDE DEF k
    <3>1. \A n \in 1 .. Len(k) : k[n] # t <=> n <= Len(l)
      BY <2>1, <2>3, <2>8, <2>9 DEF k
    <3>2. Len(l) <= Len(k)
      BY <2>3, <2>8 DEF k
    <3>3. /\ IsList(k, mem', m) /\ Len(k) <= Cardinality(Threads)
          /\ \A n \in 1 .. Len(l) : l[n] = k[n]
      BY <2>6, <2>7, <2>8 DEF k
    <3>. QED BY <1>t, <1>e, <1>2, <2>3, <3>1, <3>2, <3>3, QueuedIs
  <2>12. Queued(m)' = Queued(m)
    BY <1>f, <2>10, <2>11, QueuedEquals
  <2>. DEFINE W == {u \in Threads : BeingWoken(u) /\ call[u].arg = m}
  <2>13. W' = W
    BY <1>w
  <2>14. Waiters(m) = IF W = {} THEN Queued(m) ELSE <<CHOOSE u \in W : TRUE>> \o Queued(m)
    BY DEF Waiters
  <2>15. Waiters(m)' = IF W' = {} THEN Queued(m)' ELSE <<CHOOSE u \in W' : TRUE>> \o Queued(m)'
    BY DEF Waiters
  <2>. HIDE DEF W
  <2>. QED BY <2>12, <2>13, <2>14, <2>15
<1>3. contractWaiters' = contractWaiters
  BY <1>1, <1>2 DEF contractWaiters
<1>4. contractStatus' = contractStatus
  BY <1>f, <1>s, <1>w, StatusKept
<1>5. contractOwner' = contractOwner
  BY <1>s, OwnersKept DEF Owns, Unlocking
<1>. QED BY <1>3, <1>4, <1>5

\* Waiters by who is being woken for m, before a step and after it.
LEMMA WaitersAre ==
  ASSUME NEW m
  PROVE  /\ (\A u \in Threads : ~(BeingWoken(u) /\ call[u].arg = m)) => Waiters(m) = Queued(m)
         /\ (\A u \in Threads : ~(BeingWoken(u)' /\ call'[u].arg = m)) => Waiters(m)' = Queued(m)'
         /\ \A e \in Threads :
              (\A u \in Threads : BeingWoken(u) /\ call[u].arg = m <=> u = e) =>
                Waiters(m) = <<e>> \o Queued(m)
         /\ \A e \in Threads :
              (\A u \in Threads : BeingWoken(u)' /\ call'[u].arg = m <=> u = e) =>
                Waiters(m)' = <<e>> \o Queued(m)'
<1>. DEFINE W == {u \in Threads : BeingWoken(u) /\ call[u].arg = m}
<1>1. Waiters(m) = IF W = {} THEN Queued(m) ELSE <<CHOOSE u \in W : TRUE>> \o Queued(m)
  BY DEF Waiters
<1>2. Waiters(m)' = IF W' = {} THEN Queued(m)' ELSE <<CHOOSE u \in W' : TRUE>> \o Queued(m)'
  BY DEF Waiters
<1>3. ASSUME NEW e \in Threads, \A u \in Threads : BeingWoken(u) /\ call[u].arg = m <=> u = e
      PROVE  Waiters(m) = <<e>> \o Queued(m)
  <2>1. W = {e}
    BY <1>3
  <2>. HIDE DEF W
  <2>. QED BY <1>1, <2>1
<1>4. ASSUME NEW e \in Threads, \A u \in Threads : BeingWoken(u)' /\ call'[u].arg = m <=> u = e
      PROVE  Waiters(m)' = <<e>> \o Queued(m)'
  <2>1. W' = {e}
    BY <1>4
  <2>. HIDE DEF W
  <2>. QED BY <1>2, <2>1
<1>. QED BY <1>1, <1>2, <1>3, <1>4

\* The waiter that unlock takes off the wait queue still waits, the first.
LEMMA DequeueMaps ==
  ASSUME MapInv, MapInv', NEW t \in Threads, DequeueFront(t)
  PROVE  UNCHANGED <<contractStatus, contractOwner, contractWaiters>>
<1>. USE DEF QueueInv, MapInv
<1>t. mem \in Heap /\ mem' \in Heap /\ pc \in [Threads -> PCs] /\ call \in [Threads -> CallRecord]
  BY DEF TypeInv, TypeOK, Heap
<1>f. /\ sched = "idle" /\ currentThread = t /\ currentThread' = t
      /\ \A u \in Threads \ {t} : call'[u] = call[u]
  BY ThreadFrame DEF LibraryStep
<1>o. pc[t] = "dequeue" /\ call[t].op = "unlock"
  BY OpAt DEF DequeueFront, At
<1>q. PICK q \in Mutexes : q = call[t].arg
  BY <1>o DEF TypeInv, CallsMatch, CallMatchesPC
<1>p. pc[t] = "dequeue" /\ call[t].op = "unlock" /\ call[t].elem = NULL /\ q \in Queues
  BY <1>o DEF MappingInv, Queues
<1>1. PICK first \in Threads : first = mem.queue[q].front
  BY <1>t, <1>f, <1>q, <1>p DEF PendingInv, Heap
<1>m. mem' = [mem EXCEPT !.queue[q].front = mem.next[first]] /\ call' = [call EXCEPT ![t].elem = first]
  BY <1>1, <1>q DEF DequeueFront
<1>s. UNCHANGED <<threadState, priority, holds>>
  BY DEF DequeueFront, blockVars
<1>g. /\ \A u \in Threads : mem'.next[u] = mem.next[u]
      /\ \A r \in Queues : mem'.queue[r].front = IF r = q THEN mem.next[first] ELSE mem.queue[r].front
  BY <1>t, <1>p, <1>m DEF Heap
<1>c. /\ call'[t].op = "unlock" /\ call'[t].elem = first /\ call'[t].arg = q
      /\ \A u \in Threads : call'[u].arg = call[u].arg
  <2>1. call[t] \in CallRecord
    BY <1>t
  <2>2. call'[t].op = "unlock" /\ call'[t].elem = first /\ call'[t].arg = q
    BY <1>t, <1>m, <1>q, <1>p, <2>1 DEF CallRecord
  <2>. QED BY <1>f, <1>q, <2>2
<1>l. Lists(mem, On) /\ On \in Places
  <2>1. Settled = mem
    BY <1>f, <1>p DEF Settled, Settle
  <2>. QED BY <2>1, PlacesType DEF ListsInv
<1>2. On[first] = q
  BY <1>t, <1>l, <1>1, <1>p, Neighbours
<1>3. threadState[first] = "BLOCKED" /\ call[first].arg = q
  <2>1. Home(first) = q
    BY <1>1, <1>2, <1>p DEF On, Place
  <2>2. /\ threadState \in [Threads -> States] /\ priority \in [Threads -> Levels]
        /\ threadState[first] = "BLOCKED" => call[first].op = "lock"
    BY <1>1 DEF StatesInv, TypeInv, TypeOK
  <2>. QED BY <1>1, <1>p, <2>1, <2>2, HomeCases DEF Home
<1>4. first # t
  BY <1>3, <1>p DEF StatesInv
<1>5. \A u \in Threads : ~BeingWoken(u) /\ (BeingWoken(u)' <=> u = first)
  <2>1. \A u \in Threads : ~BeingWoken(u)
    BY <1>f, <1>p DEF WokenShow, CallBoundaries
  <2>2. \A u \in Threads : BeingWoken(u)' => u = first
    BY <1>f, <1>c DEF WokenShow
  <2>3. BeingWoken(first)'
    BY <1>c DEF BeingWoken
  <2>. QED BY <2>1, <2>2, <2>3
<1>6. ASSUME NEW m \in Mutexes, m # q PROVE Waiters(m)' = Waiters(m)
  <2>1. m \in Queues
    BY DEF Queues
  <2>. QED BY <1>f, <1>g, <1>c, <1>3, <1>5, <1>6, <2>1, WaitersKept
<1>7. Waiters(q)' = Waiters(q)
  <2>1. PICK l : /\ IsList(l, mem, q)
                 /\ Len(l) <= Cardinality(Threads)
                 /\ Elements(l) = {u \in Threads : Place(u) = q}
    BY <1>p DEF WaitLists
  <2>2. /\ l = <<first>> \o Tail(l)
        /\ Tail(l) \in Seq(Threads) /\ Len(l) = Len(Tail(l)) + 1 /\ Len(Tail(l)) \in Nat
        /\ IsList(Tail(l), mem', q)
    <3>1. first # NULL /\ mem'.queue[q].front = mem.next[first]
      BY <1>1, <1>g, <1>p
    <3>f. first = mem.queue[q].front
      BY <1>1
    <3>2. \A u \in Elements(l) : mem'.next[u] = mem.next[u]
      BY <1>g, <2>1
    <3>. QED BY <1>t, <1>p, <2>1, <3>f, <3>1, <3>2, ListTail
  <2>3. l \in Seq(Threads) /\ Len(l) \in Nat /\ \A n \in 1 .. Len(l) : l[n] \in Elements(l)
    BY <2>1, LenProperties DEF IsList, Elements
  <2>4. t \notin Elements(l)
    <3>1. threadState[t] # "BLOCKED"
      BY <1>f, <1>p DEF StatesInv
    <3>2. threadState[t] # "QUEUED"
      BY <1>f DEF StatesInv
    <3>3. Place(t) = NULL
      BY <3>1, <3>2 DEF Place, Home, HomeIn
    <3>. QED BY <2>1, <3>3, <1>p
  <2>5. QueuedIn(mem, t, q) = l
    <3>1. \A n \in 1 .. Len(l) : l[n] # t
      BY <2>3, <2>4
    <3>. QED BY <1>t, <1>p, <2>1, <2>3, <3>1, QueuedIs
  <2>. DEFINE k == Tail(l)
  <2>6. Len(k) <= Cardinality(Threads) /\ \A n \in 1 .. Len(k) : k[n] # t
    <3>1. \A n \in 1 .. Len(k) : k[n] = l[n + 1] /\ n + 1 \in 1 .. Len(l)
      BY <2>2, <2>3, HeadTailProperties
    <3>2. Cardinality(Threads) \in Nat
      BY FiniteAssumption, FS_CardinalityType
    <3>. QED BY <2>1, <2>2, <2>3, <2>4, <3>1, <3>2
  <2>7. QueuedIn(mem', t, q) = k
    <3>. HIDE DEF k
    <3>1. k \in Seq(Threads) /\ Len(k) \in Nat /\ IsList(k, mem', q)
      BY <2>2 DEF k
    <3>. QED BY <1>t, <1>p, <2>6, <3>1, QueuedIs
  <2>8. Queued(q) = l /\ Queued(q)' = k
    BY <1>f, <2>5, <2>7, QueuedEquals
  <2>9. Waiters(q) = Queued(q)
    BY <1>5, WaitersAre
  <2>10. Waiters(q)' = <<first>> \o Queued(q)'
    BY <1>1, <1>3, <1>5, <1>c, WaitersAre
  <2>. QED BY <2>2, <2>8, <2>9, <2>10
<1>8. contractWaiters' = contractWaiters
  BY <1>6, <1>7 DEF contractWaiters
<1>9. contractStatus' = contractStatus
  BY <1>f, <1>s, <1>3, <1>5, StatusKept
<1>10. \A u \in Threads, m \in Mutexes : Owns(u, m)' <=> Owns(u, m)
  BY <1>f, <1>s, <1>c, <1>p DEF Owns, Unlocking
<1>. QED BY <1>8, <1>9, <1>10, OwnersKept

-----------------------------------------------------------------------------
(***************************************************************************)
(* The statements of the calls that are steps of the contract.             *)
(***************************************************************************)

\* Outside my_pthread_exit the current thread runs.
LEMMA CurrentRuns ==
  ASSUME QueueInv, NEW t \in Threads, currentThread = t, call[t].op # "exit"
  PROVE  Status(t) = "running" /\ threadState[t] \notin {"NEW", "EXITED"}
<1>1. threadState[t] # "NEW"
  BY DEF QueueInv, NewInv
<1>2. threadState[t] # "EXITED"
  BY DEF QueueInv, TimerInv
<1>. QED BY <1>1, <1>2 DEF Status

\* The owner of m stays.
LEMMA OwnerKept ==
  ASSUME OwnersShow, OwnersShow', NEW m \in Mutexes, \A t \in Threads : Owns(t, m)' <=> Owns(t, m)
  PROVE  Owner(m)' = Owner(m)
BY DEF OwnersShow

\* The test-and-set of a mutex that is free.
LEMMA LockMaps ==
  ASSUME MapInv, MapInv', NEW t \in Threads, LockTest(t), flag[call[t].arg] # 1
  PROVE  \E m \in Mutexes : Contract!Acquire(t, m)
<1>. USE DEF QueueInv, MapInv
<1>t. /\ call \in [Threads -> CallRecord] /\ holds \in [Threads -> SUBSET Mutexes]
  BY DEF TypeInv, TypeOK
<1>f. /\ currentThread = t /\ currentThread' = t
      /\ \A u \in Threads \ {t} : call'[u] = call[u] /\ holds'[u] = holds[u]
  BY ThreadFrame DEF LibraryStep
<1>o. call[t].op = "lock"
  BY OpAt DEF LockTest, At
<1>1. PICK m \in Mutexes : m = call[t].arg
  BY <1>o DEF TypeInv, CallsMatch, CallMatchesPC
<1>2. /\ UNCHANGED <<threadState, mem>> /\ call'[t] = NoCall /\ holds'[t] = holds[t] \cup {m}
  BY <1>t, <1>1 DEF LockTest, Return, blockVars
<1>3. \A u \in Threads : /\ BeingWoken(u)' <=> BeingWoken(u)
                         /\ BeingWoken(u) => call'[u].arg = call[u].arg
  BY <1>f, <1>o, <1>2, WokenStays DEF NoCall, NewCall
<1>4. contractStatus' = contractStatus
  BY <1>f, <1>2, <1>3, StatusKept
<1>5. ASSUME NEW n \in Mutexes PROVE Waiters(n)' = Waiters(n)
  BY <1>f, <1>2, <1>3, WaitersKept
<1>6. contractWaiters' = contractWaiters
  BY <1>5 DEF contractWaiters
<1>7. Owner(m) = NULL /\ Owner(m)' = t
  <2>1. \A u \in Threads : ~Owns(u, m)
    BY <1>1 DEF MutexInv
  <2>2. Owns(t, m)'
    BY <1>2 DEF Owns
  <2>. QED BY <2>1, <2>2 DEF OwnersShow
<1>8. ASSUME NEW n \in Mutexes, n # m PROVE Owner(n)' = Owner(n)
  <2>1. \A u \in Threads : Owns(u, n)' <=> Owns(u, n)
    BY <1>f, <1>o, <1>2, <1>8 DEF Owns, Unlocking, NoCall, NewCall
  <2>. QED BY <2>1, OwnerKept
<1>9. contractOwner[m] = NULL /\ contractOwner' = [contractOwner EXCEPT ![m] = t]
  BY <1>7, <1>8 DEF contractOwner
<1>10. contractStatus[t] = "running"
  BY <1>f, <1>o, CurrentRuns DEF contractStatus
<1>. QED BY <1>4, <1>6, <1>9, <1>10 DEF Contract!Acquire

\* The store that clears the flag.
LEMMA UnlockMaps ==
  ASSUME MapInv, MapInv', NEW t \in Threads, UnlockFlag(t)
  PROVE  \E m \in Mutexes : Contract!Release(t, m)
<1>. USE DEF QueueInv, MapInv
<1>t. call \in [Threads -> CallRecord] /\ holds \in [Threads -> SUBSET Mutexes] /\ mem \in Heap
  BY DEF TypeInv, TypeOK, Heap
<1>f. /\ sched = "idle" /\ currentThread = t /\ currentThread' = t
      /\ \A u \in Threads \ {t} : call'[u] = call[u] /\ holds'[u] = holds[u]
  BY ThreadFrame DEF LibraryStep
<1>o. call[t].op = "unlock" /\ pc[t] = "unlock_flag"
  BY OpAt DEF UnlockFlag, At
<1>1. PICK m \in Mutexes : m = call[t].arg
  BY <1>o DEF TypeInv, CallsMatch, CallMatchesPC
<1>m. m \in Queues
  BY DEF Queues
<1>2. UNCHANGED <<threadState, mem, holds>> /\ call'[t] = NoCall
  BY <1>t DEF UnlockFlag, Return, blockVars
<1>3. /\ \A u \in Threads : BeingWoken(u) <=> u = call[t].elem
      /\ \A u \in Threads : ~BeingWoken(u)'
      /\ \A u \in Threads : BeingWoken(u) => call[u].arg = m
  <2>1. \A u \in Threads : BeingWoken(u) <=> u = call[t].elem
    BY <1>f, <1>o DEF WokenShow, BeingWoken
  <2>2. \A u \in Threads : ~BeingWoken(u)'
    BY <1>f, <1>2 DEF WokenShow, NoCall, NewCall
  <2>3. \A u \in Threads : BeingWoken(u) => call[u].arg = m
    BY <1>f, <1>1 DEF WokenShow
  <2>. QED BY <2>1, <2>2, <2>3
<1>4. \A u \in Threads \ {t} : call'[u].arg = call[u].arg
  BY <1>f
<1>5. ASSUME NEW n \in Mutexes, n # m PROVE Waiters(n)' = Waiters(n)
  BY <1>f, <1>2, <1>3, <1>5, WaitersKept
<1>6. Owner(m) = t /\ Owner(m)' = NULL
  <2>1. Owns(t, m)
    BY <1>o, <1>1 DEF Owns, Unlocking
  <2>2. \A u \in Threads : ~Owns(u, m)'
    <3>1. ~Owns(t, m)'
      BY <1>o, <1>1, <1>2 DEF MutexInv, Owns, Unlocking, NoCall, NewCall
    <3>2. \A u \in Threads \ {t} : ~Owns(u, m)
      BY <2>1 DEF MutexInv, MutualExclusion, Owns
    <3>. QED BY <1>f, <3>1, <3>2 DEF Owns, Unlocking
  <2>. QED BY <2>1, <2>2 DEF OwnersShow
<1>7. ASSUME NEW n \in Mutexes, n # m PROVE Owner(n)' = Owner(n)
  <2>1. \A u \in Threads : Owns(u, n)' <=> Owns(u, n)
    BY <1>f, <1>o, <1>1, <1>2, <1>7 DEF Owns, Unlocking, NoCall, NewCall
  <2>. QED BY <2>1, OwnerKept
<1>8. contractOwner[m] = t /\ contractOwner' = [contractOwner EXCEPT ![m] = NULL]
  BY <1>6, <1>7 DEF contractOwner
<1>9. contractStatus[t] = "running"
  BY <1>f, <1>o, CurrentRuns DEF contractStatus
<1>10. PICK s \in Seq(Threads) : /\ QueuedIn(mem, t, m) = s
                                 /\ mem.queue[m].front = NULL => s = <<>>
  <2>1. PICK l : /\ IsList(l, mem, m)
                 /\ Len(l) <= Cardinality(Threads)
                 /\ Elements(l) = {u \in Threads : Place(u) = m}
    BY DEF WaitLists
  <2>2. l \in Seq(Threads) /\ Len(l) \in Nat /\ \A n \in 1 .. Len(l) : l[n] \in Elements(l) /\ l[n] \in Threads
    BY <2>1, LenProperties DEF IsList, Elements
  <2>3. Place(t) # m
    <3>1. threadState[t] \notin {"BLOCKED", "QUEUED"}
      BY <1>f, <1>o DEF StatesInv
    <3>. QED BY <1>m, <3>1 DEF Place, Home, HomeIn
  <2>4. \A n \in 1 .. Len(l) : l[n] # t
    BY <2>1, <2>2, <2>3
  <2>5. QueuedIn(mem, t, m) = l
    BY <1>t, <1>m, <2>1, <2>2, <2>4, QueuedIs
  <2>6. mem.queue[m].front = NULL => l = <<>>
    <3>1. Len(l) # 0 => mem.queue[m].front = l[1] /\ 1 \in 1 .. Len(l)
      BY <2>1, <2>2 DEF IsList
    <3>. QED BY <2>2, <3>1
  <2>. QED BY <2>2, <2>5, <2>6
<1>11. Queued(m) = s /\ Queued(m)' = s /\ Waiters(m)' = s
  <2>1. Queued(m) = s /\ Queued(m)' = s
    BY <1>f, <1>2, <1>10, QueuedEquals
  <2>. QED BY <1>3, <2>1, WaitersAre
<1>12. CASE call[t].elem = NULL
  <2>1. Waiters(m) = s /\ s = <<>>
    <3>1. mem.queue[m].front = NULL
      BY <1>f, <1>o, <1>1, <1>12 DEF MappingInv
    <3>2. \A u \in Threads : ~BeingWoken(u)
      BY <1>3, <1>12
    <3>. QED BY <1>10, <1>11, <3>1, <3>2, WaitersAre
  <2>2. contractWaiters' = contractWaiters
    BY <1>5, <1>11, <2>1 DEF contractWaiters
  <2>3. \A u \in Threads : BeingWoken(u)' <=> BeingWoken(u)
    BY <1>3, <1>12
  <2>4. contractStatus' = contractStatus
    BY <1>f, <1>2, <2>3, StatusKept
  <2>5. contractWaiters[m] = <<>>
    BY <2>1 DEF contractWaiters
  <2>. QED BY <1>8, <1>9, <2>2, <2>4, <2>5 DEF Contract!Release
<1>13. CASE call[t].elem # NULL
  <2>1. PICK e \in Threads : e = call[t].elem
    <3>1. call[t].elem \in ThreadOrNull
      BY <1>t DEF CallRecord
    <3>. QED BY <1>13, <3>1
  <2>2. threadState[e] = "QUEUED" /\ e # t
    BY <1>f, <1>o, <1>13, <2>1 DEF MappingInv, StatesInv
  <2>3. Waiters(m) = <<e>> \o s
    <3>1. \A u \in Threads : BeingWoken(u) /\ call[u].arg = m <=> u = e
      BY <1>3, <2>1
    <3>. QED BY <1>11, <3>1, WaitersAre
  <2>4. Waiters(m) # <<>> /\ Head(Waiters(m)) = e /\ Tail(Waiters(m)) = s
    <3>1. <<e>> \in Seq(Threads) /\ Len(<<e>>) = 1 /\ <<e>>[1] = e
      OBVIOUS
    <3>. DEFINE w == <<e>> \o s
    <3>2. /\ w \in Seq(Threads) /\ Len(w) = 1 + Len(s)
          /\ \A i \in 1 .. 1 + Len(s) : w[i] = IF i <= 1 THEN <<e>>[i] ELSE s[i - 1]
      BY <3>1, ConcatProperties
    <3>. HIDE DEF w
    <3>3. Len(s) \in Nat
      BY LenProperties
    <3>4. w # <<>> /\ Head(w) = e
      BY <3>1, <3>2, <3>3
    <3>5. /\ Tail(w) \in Seq(Threads) /\ Len(Tail(w)) = Len(s)
          /\ \A i \in 1 .. Len(Tail(w)) : Tail(w)[i] = w[i + 1]
      BY <3>2, <3>3, <3>4, HeadTailProperties
    <3>6. \A i \in 1 .. Len(s) : Tail(w)[i] = s[i]
      <4>. TAKE i \in 1 .. Len(s)
      <4>1. i + 1 \in 1 .. 1 + Len(s) /\ ~(i + 1 <= 1) /\ i + 1 - 1 = i
        BY <3>3
      <4>. QED BY <3>2, <3>5, <4>1
    <3>7. Tail(w) = s
      BY <3>5, <3>6, SeqEqual
    <3>. QED BY <2>3, <3>4, <3>7 DEF w
  <2>5. /\ contractWaiters[m] # <<>> /\ Head(contractWaiters[m]) = e
        /\ contractWaiters' = [contractWaiters EXCEPT ![m] = Tail(@)]
    BY <1>5, <1>11, <2>4 DEF contractWaiters
  <2>6. Status(e)' = "ready"
    BY <1>2, <1>3, <1>f, <2>2 DEF Status
  <2>7. ASSUME NEW u \in Threads, u # e PROVE Status(u)' = Status(u)
    BY <1>2, <1>3, <1>f, <2>1, <2>7 DEF Status
  <2>8. contractStatus' = [contractStatus EXCEPT ![e] = "ready"]
    BY <2>6, <2>7 DEF contractStatus
  <2>. QED BY <1>8, <1>9, <2>5, <2>8 DEF Contract!Release
<1>. QED BY <1>12, <1>13

\* my_pthread_exit up to the state: it holds nothing.
LEMMA ExitMaps ==
  ASSUME MapInv, MapInv', NEW t \in Threads, NEW v, Exit(t, v)
  PROVE  Contract!Exit(t)
<1>. USE DEF QueueInv, MapInv
<1>t. call \in [Threads -> CallRecord] /\ threadState \in [Threads -> States]
  BY DEF TypeInv, TypeOK
<1>f. currentThread = t /\ currentThread' = t /\ pc[t] = "user" /\ call[t].op = "none"
  BY OpAt DEF Exit, At, schedulerVars
<1>1. /\ UNCHANGED <<mem, holds>> /\ holds[t] = {}
      /\ \A u \in Threads : threadState'[u] = IF u = t THEN "EXITED" ELSE threadState[u]
      /\ call' = [call EXCEPT ![t] = NewCall("exit", v, NULL, NULL)]
  BY <1>t DEF Exit, SetState, Begin
<1>2. call'[t].op = "exit" /\ \A u \in Threads \ {t} : call'[u] = call[u]
  BY <1>t, <1>1 DEF NewCall
<1>3. \A u \in Threads : /\ BeingWoken(u)' <=> BeingWoken(u)
                         /\ BeingWoken(u) => call'[u].arg = call[u].arg
  BY <1>f, <1>2, WokenStays
<1>4. ASSUME NEW n \in Mutexes PROVE Waiters(n)' = Waiters(n)
  BY <1>f, <1>1, <1>3, WaitersKept
<1>5. \A u \in Threads, n \in Mutexes : Owns(u, n)' <=> Owns(u, n)
  BY <1>f, <1>1, <1>2 DEF Owns, Unlocking
<1>6. \A n \in Mutexes : Owner(n) # t
  <2>. TAKE n \in Mutexes
  <2>1. ~Owns(t, n)
    BY <1>f, <1>1 DEF Owns, Unlocking
  <2>2. t # NULL
    OBVIOUS
  <2>. QED BY <2>1, <2>2 DEF OwnersShow
<1>7. Status(t)' = "done" /\ \A u \in Threads : u # t => Status(u)' = Status(u)
  <2>1. Status(t)' = "done"
    <3>1. threadState'[t] = "EXITED"
      BY <1>1
    <3>. QED BY <3>1 DEF Status
  <2>2. ASSUME NEW u \in Threads, u # t PROVE Status(u)' = Status(u)
    <3>1. threadState'[u] = threadState[u] /\ (BeingWoken(u)' <=> BeingWoken(u))
      BY <1>1, <1>3, <2>2
    <3>. QED BY <1>f, <2>2, <3>1 DEF Status
  <2>. QED BY <2>1, <2>2
<1>8. contractStatus' = [contractStatus EXCEPT ![t] = "done"]
  BY <1>7 DEF contractStatus
<1>9. contractOwner' = contractOwner /\ \A n \in Mutexes : contractOwner[n] # t
  BY <1>5, <1>6, OwnersKept DEF contractOwner
<1>10. contractWaiters' = contractWaiters
  BY <1>4 DEF contractWaiters
<1>11. contractStatus[t] = "running"
  BY <1>f, CurrentRuns DEF contractStatus
<1>. QED BY <1>8, <1>9, <1>10, <1>11 DEF Contract!Exit

\* my_pthread_create up to the enqueue: the new thread can run.
LEMMA SpawnMaps ==
  ASSUME MapInv, MapInv', NEW t \in Threads, NEW c \in Threads, Create(t, c)
  PROVE  Contract!Spawn(t, c)
<1>. USE DEF QueueInv, MapInv
<1>t. /\ call \in [Threads -> CallRecord] /\ threadState \in [Threads -> States] /\ mem \in Heap
  BY DEF TypeInv, TypeOK, Heap
<1>f. currentThread = t /\ currentThread' = t /\ pc[t] = "user" /\ call[t].op = "none"
  BY OpAt DEF Create, At, schedulerVars
<1>1. /\ UNCHANGED holds /\ threadState[c] = "NEW" /\ c # t
      /\ \A u \in Threads : threadState'[u] = IF u = c THEN "QUEUED" ELSE threadState[u]
      /\ call' = [call EXCEPT ![t] = NewCall("create", NULL, c, 0)]
      /\ mem' = [mem EXCEPT !.next[c] = NULL]
  BY <1>t, <1>f DEF Create, SetState, NewInv
<1>2. call'[t].op = "create" /\ \A u \in Threads \ {t} : call'[u] = call[u]
  BY <1>t, <1>1 DEF NewCall
<1>3. /\ \A u \in Threads : ~BeingWoken(u) /\ ~BeingWoken(u)'
  BY <1>f, <1>2 DEF WokenShow
<1>4. \A u \in Threads : mem'.next[u] = mem.next[u]
  <2>1. Place(c) = NULL /\ Settled = mem
    BY <1>f, <1>1 DEF Place, Home, HomeIn, Settled, Settle
  <2>2. mem.next[c] = NULL
    BY <2>1 DEF ListsInv, Lists, On
  <2>. QED BY <1>t, <1>1, <2>2 DEF Heap
<1>5. ASSUME NEW n \in Mutexes PROVE Waiters(n)' = Waiters(n)
  <2>1. mem'.queue[n].front = mem.queue[n].front
    BY <1>1
  <2>. QED BY <1>f, <1>3, <1>4, <2>1, WaitersKept
<1>6. \A u \in Threads, n \in Mutexes : Owns(u, n)' <=> Owns(u, n)
  BY <1>f, <1>1, <1>2 DEF Owns, Unlocking
<1>7. Status(c) = "new" /\ Status(c)' = "ready" /\ \A u \in Threads : u # c => Status(u)' = Status(u)
  BY <1>f, <1>1, <1>3 DEF Status
<1>8. contractStatus[c] = "new" /\ contractStatus' = [contractStatus EXCEPT ![c] = "ready"]
  BY <1>7 DEF contractStatus
<1>9. contractOwner' = contractOwner
  BY <1>6, OwnersKept
<1>10. contractWaiters' = contractWaiters
  BY <1>5 DEF contractWaiters
<1>11. contractStatus[t] = "running"
  BY <1>f, CurrentRuns DEF contractStatus
<1>. QED BY <1>8, <1>9, <1>10, <1>11 DEF Contract!Spawn

\* The first call of my_pthread_create.
LEMMA StartMaps ==
  ASSUME MapInv, MapInv', NEW c \in Threads, FirstCreate(c)
  PROVE  Contract!Start(c)
<1>. USE DEF QueueInv, MapInv
<1>t. /\ threadState \in [Threads -> States] /\ mem \in Heap /\ priority \in [Threads -> Levels]
  BY DEF TypeInv, TypeOK, Heap
<1>1. /\ phase = "setup" /\ c # Main /\ currentThread = NULL /\ currentThread' = Main
      /\ mem' = Enqueue(mem, priority[c], c)
      /\ UNCHANGED <<pc, call, holds>>
      /\ \A u \in Threads : threadState[u] = "NEW"
      /\ \A u \in Threads :
           threadState'[u] = IF u = Main THEN "RUNNING" ELSE IF u = c THEN "QUEUED" ELSE "NEW"
  BY <1>t DEF FirstCreate, clientVars, AtBoundaries, StatesInv
<1>2. \A u \in Threads : call[u].op = "none"
  BY <1>1 DEF NewInv
<1>3. \A u \in Threads : ~BeingWoken(u) /\ ~BeingWoken(u)'
  BY <1>1, <1>2 DEF BeingWoken
<1>4. ASSUME NEW n \in Mutexes PROVE Waiters(n)' = Waiters(n)
  <2>1. priority[c] \in Queues /\ priority[c] # n /\ n \in Queues
    BY <1>t DEF Queues
  <2>2. mem'.queue[n].front = mem.queue[n].front
    BY <1>t, <1>1, <2>1 DEF Enqueue, Heap
  <2>3. \A u \in Threads : Place(u) # n
    BY <1>1, <2>1 DEF Place, Home, HomeIn
  <2>. QED BY <1>3, <2>2, <2>3, WaitersKept
<1>5. \A u \in Threads, n \in Mutexes : Owns(u, n)' <=> Owns(u, n)
  BY <1>1 DEF Owns, Unlocking
<1>6. \A u \in Threads :
        /\ Status(u) = "new"
        /\ Status(u)' = IF u = c THEN "ready" ELSE IF u = Main THEN "running" ELSE "new"
  BY <1>1, <1>3 DEF Status
<1>7. \A u \in Threads : contractStatus[u] = "new"
  BY <1>6 DEF contractStatus
<1>8. contractStatus' = [contractStatus EXCEPT ![Main] = "running", ![c] = "ready"]
  BY <1>6 DEF contractStatus
<1>9. contractOwner' = contractOwner
  BY <1>5, OwnersKept
<1>10. contractWaiters' = contractWaiters
  BY <1>4 DEF contractWaiters
<1>. QED BY <1>1, <1>7, <1>8, <1>9, <1>10 DEF Contract!Start

-----------------------------------------------------------------------------
(***************************************************************************)
(* The steps of schedule().                                                *)
(***************************************************************************)

\* Nothing the contract speaks of has changed.
LEMMA SameView ==
  ASSUME MapInv, MapInv', UNCHANGED <<currentThread, threadState, mem, call, holds>>
  PROVE  UNCHANGED <<contractStatus, contractOwner, contractWaiters>>
<1>1. \A u \in Threads : /\ BeingWoken(u)' <=> BeingWoken(u)
                         /\ call'[u].arg = call[u].arg
  BY WokenSame
<1>2. contractStatus' = contractStatus
  BY <1>1, StatusKept
<1>3. contractOwner' = contractOwner
  BY OwnersKept DEF Owns, Unlocking, MapInv
<1>4. ASSUME NEW m \in Mutexes PROVE Waiters(m)' = Waiters(m)
  BY <1>1, WaitersKept
<1>. QED BY <1>2, <1>3, <1>4 DEF contractWaiters

\* maintenance() changes links of run queues only.
LEMMA PromoteMaps ==
  ASSUME MapInv, MapInv', MaintainPromote
  PROVE  UNCHANGED <<contractStatus, contractOwner, contractWaiters>>
<1>. USE DEF QueueInv, MapInv
<1>1. /\ mem \in Heap /\ scan.level \in Queues /\ 0 \in Queues /\ 0 \in Levels /\ scan.level \in Levels
      /\ scan.ptr \in Threads /\ scan.prev \in ThreadOrNull
  BY SMTT(30) DEF TypeInv, TypeOK, Heap, Queues, Levels, MaintainPromote
<1>2. UNCHANGED <<currentThread, threadState, call, holds>> /\ sched = "maintenance"
  BY DEF MaintainPromote, clientVars
<1>c. currentThread \in Threads
  BY <1>2 DEF TypeInv, Current
<1>w. \A u \in Threads : /\ BeingWoken(u)' <=> BeingWoken(u)
                         /\ call'[u].arg = call[u].arg
  BY <1>2, WokenSame
<1>l. \A u \in Threads : Place(u) = Home(u)
  BY <1>2 DEF Place, InHand, Running, AtBoundaries, CallBoundaries
<1>o. On \in Places /\ Lists(mem, On) /\ On = [u \in Threads |-> Home(u)]
  BY <1>2, <1>c, ScheduleRests
<1>. DEFINE cut == Unlink(mem, scan.level, scan.ptr, scan.prev)
            h   == [cut EXCEPT !.next[scan.ptr] = NULL]
            rear == mem.queue[0].rear
<1>3. cut \in Heap
  BY <1>1, UnlinkType
<1>4. /\ \A u \in Threads : cut.next[u] = mem.next[u] \/ (scan.ptr # mem.queue[scan.level].front /\ u = scan.prev)
      /\ cut.queue[0].rear = rear
  BY <1>1, <1>2 DEF Unlink, Heap, ScanInv
<1>5. h.queue = cut.queue /\ \A u \in Threads : u # scan.ptr => h.next[u] = cut.next[u]
  BY <1>3 DEF Heap
<1>6. mem' = Enqueue(h, 0, scan.ptr)
  BY DEF MaintainPromote, Promoted
<1>h. h \in Heap
  BY <1>1, <1>3, HeapLinkType
<1>. HIDE DEF h, cut
<1>7. \A u \in Threads : mem'.next[u] = h.next[u] \/ (rear # NULL /\ u = rear)
  BY <1>4, <1>5, <1>6, <1>h DEF Enqueue, Heap
<1>8. rear # NULL => rear \in Threads /\ Home(rear) = 0
  <2>1. PICK pos \in [Threads -> Nat] : Linked(mem, 0, On, pos)
    BY <1>1, <1>o DEF Lists
  <2>2. rear \in ThreadOrNull
    BY <1>1 DEF Heap
  <2>. QED BY <1>o, <2>1, <2>2 DEF Linked
<1>9. ASSUME NEW m \in Mutexes, NEW u \in Threads, Place(u) = m PROVE mem'.next[u] = mem.next[u]
  <2>1. Home(u) = m /\ m # 0 /\ m # scan.level
    BY <1>1, <1>l, <1>9
  <2>2. u # scan.ptr /\ ~(rear # NULL /\ u = rear)
    BY <1>1, <1>2, <1>8, <2>1 DEF ScanInv
  <2>3. ~(scan.ptr # mem.queue[scan.level].front /\ u = scan.prev)
    BY <1>1, <1>2, <2>1 DEF ScanInv
  <2>. QED BY <1>4, <1>5, <1>7, <2>2, <2>3
<1>10. ASSUME NEW m \in Mutexes PROVE Waiters(m)' = Waiters(m)
  BY <1>2, <1>w, <1>9, <1>10, PromoteQueues, WaitersKept
<1>11. contractStatus' = contractStatus
  BY <1>2, <1>w, StatusKept
<1>12. contractOwner' = contractOwner
  BY <1>2, OwnersKept DEF Owns, Unlocking
<1>. QED BY <1>10, <1>11, <1>12 DEF contractWaiters

\* schedule() switches to the front of a run queue, as Switched says: nobody is
\* being woken meanwhile, no owner changes, and no link of a wait queue.
LEMMA SwitchMaps ==
  ASSUME MapInv, MapInv', sched # "idle", currentThread \in Threads,
         NEW h \in Heap, NEW st \in [Threads -> States], NEW pr \in [Threads -> Levels],
         SwitchTo(h, st), priority' = pr, UNCHANGED <<call, pc, holds>>,
         \A t \in Threads : st[t] = "BLOCKED" => threadState[t] = "BLOCKED",
         Lists(h, [t \in Threads |-> HomeIn(st, pr, t)]),
         \A m \in Mutexes : h.queue[m].front = mem.queue[m].front,
         \A t \in Threads, m \in Mutexes : Home(t) = m => st[t] = "BLOCKED" /\ h.next[t] = mem.next[t]
  PROVE  /\ currentThread' \in Threads /\ st[currentThread'] = "QUEUED"
         /\ threadState' = [st EXCEPT ![currentThread'] = "RUNNING"]
         /\ \A u \in Threads : ~BeingWoken(u) /\ ~BeingWoken(u)' /\ Place(u) = Home(u)
         /\ contractOwner' = contractOwner
         /\ \A m \in Mutexes : mem'.queue[m].front = mem.queue[m].front
         /\ \A u \in Threads, m \in Mutexes :
              Place(u) = m => mem'.next[u] = mem.next[u] /\ u # currentThread'
<1>. USE DEF QueueInv, MapInv
<1>1. /\ currentThread' \in Threads /\ st[currentThread'] = "QUEUED"
      /\ threadState' = [st EXCEPT ![currentThread'] = "RUNNING"]
  <2>1. \A t \in Threads : st[t] = "BLOCKED" => call[t].op = "lock"
    BY DEF StatesInv
  <2>. QED BY <2>1, Switched
<1>2. \A u \in Threads : ~BeingWoken(u) /\ ~BeingWoken(u)' /\ Place(u) = Home(u)
  <2>1. pc[currentThread] \in CallBoundaries
    BY DEF AtBoundaries
  <2>2. \A u \in Threads : ~BeingWoken(u)
    BY <2>1 DEF WokenShow
  <2>3. \A u \in Threads : ~BeingWoken(u)'
    BY <2>2, WokenSame
  <2>. QED BY <2>1, <2>2, <2>3 DEF Place, InHand, Running, CallBoundaries
<1>3. contractOwner' = contractOwner
  BY OwnersKept DEF Owns, Unlocking
<1>4. PICK i \in Levels : mem' = Dequeue(h, i) /\ currentThread' = h.queue[i].front
  BY DEF SwitchTo
<1>5. \A m \in Mutexes : mem'.queue[m].front = mem.queue[m].front
  <2>. TAKE m \in Mutexes
  <2>1. m \in Queues /\ m # i /\ i \in Queues
    BY DEF Queues
  <2>. QED BY <1>4, <2>1 DEF Dequeue, Heap
<1>6. ASSUME NEW u \in Threads, NEW m \in Mutexes, Place(u) = m
      PROVE  mem'.next[u] = mem.next[u] /\ u # currentThread'
  <2>1. st[u] = "BLOCKED" /\ h.next[u] = mem.next[u]
    BY <1>2, <1>6
  <2>2. u # currentThread'
    BY <1>1, <2>1
  <2>3. mem'.next[u] = h.next[u]
    BY <1>4, <2>2 DEF Dequeue, Heap
  <2>. QED BY <2>1, <2>2, <2>3
<1>. QED BY <1>1, <1>2, <1>3, <1>5, <1>6

\* A home that is a wait queue is that of a blocked thread.
LEMMA HomeBlocked ==
  ASSUME TypeInv, StatesInv, NEW t \in Threads, NEW m \in Mutexes
  PROVE  Home(t) = m <=> threadState[t] = "BLOCKED" /\ call[t].arg = m
<1>1. /\ threadState \in [Threads -> States] /\ priority \in [Threads -> Levels]
      /\ threadState[t] = "BLOCKED" => call[t].op = "lock"
  BY DEF StatesInv, TypeInv, TypeOK
<1>. QED BY <1>1, HomeCases DEF Home

\* The current thread goes to the rear of a run queue: it gives way to another,
\* or is the next one itself.
LEMMA RequeueMaps ==
  ASSUME MapInv, MapInv', sched # "idle", currentThread \in Threads, NEW p \in Levels,
         threadState[currentThread] \in {"YIELD", "JOINING", "RUNNING"},
         Requeue(currentThread, p)
  PROVE  \/ UNCHANGED <<contractStatus, contractOwner, contractWaiters>>
         \/ \E t, u \in Threads : Contract!Switch(t, u)
<1>. USE DEF QueueInv, MapInv
<1>t. /\ threadState \in [Threads -> States] /\ priority \in [Threads -> Levels] /\ mem \in Heap
      /\ p \in Queues
  BY DEF TypeInv, TypeOK, Heap, Queues
<1>1. PICK c \in Threads : c = currentThread
  OBVIOUS
<1>. DEFINE st == [threadState EXCEPT ![c] = "QUEUED"]
            pr == [priority EXCEPT ![c] = p]
            h  == Enqueue(mem, p, c)
            rear == mem.queue[p].rear
<1>2. /\ st \in [Threads -> States] /\ pr \in [Threads -> Levels] /\ h \in Heap
      /\ Lists(h, [t \in Threads |-> HomeIn(st, pr, t)])
  BY <1>1, RequeueLists, ZenonT(30)
<1>3. SwitchTo(h, st) /\ priority' = pr /\ UNCHANGED <<call, pc, holds>>
  BY <1>1 DEF Requeue, SwitchTo, LeaveSchedule, clientVars
<1>4. \A t \in Threads : st[t] = IF t = c THEN "QUEUED" ELSE threadState[t]
  BY <1>t
<1>5. \A m \in Mutexes : h.queue[m].front = mem.queue[m].front
  <2>1. \A m \in Mutexes : m # p
    BY <1>t
  <2>. QED BY <1>t, <2>1 DEF Enqueue, Heap
<1>6. rear # NULL => rear \in Threads /\ Home(rear) = p
  <2>1. On = [u \in Threads |-> Home(u)] /\ Lists(mem, On)
    BY ScheduleRests
  <2>2. PICK pos \in [Threads -> Nat] : Linked(mem, p, On, pos)
    BY <1>t, <2>1 DEF Lists
  <2>3. rear \in ThreadOrNull
    BY <1>t DEF Heap
  <2>. QED BY <2>1, <2>2, <2>3 DEF Linked
<1>7. ASSUME NEW t \in Threads, NEW m \in Mutexes, Home(t) = m
      PROVE  st[t] = "BLOCKED" /\ h.next[t] = mem.next[t]
  <2>1. threadState[t] = "BLOCKED" /\ t # c
    BY <1>1, <1>7, HomeBlocked
  <2>2. ~(rear # NULL /\ t = rear)
    <3>1. m # p
      BY <1>t
    <3>. QED BY <1>6, <1>7, <3>1
  <2>. QED BY <1>t, <1>1, <1>4, <2>1, <2>2 DEF Enqueue, Heap
<1>. HIDE DEF st, pr, h
<1>8. /\ currentThread' \in Threads /\ st[currentThread'] = "QUEUED"
      /\ threadState' = [st EXCEPT ![currentThread'] = "RUNNING"]
      /\ \A u \in Threads : ~BeingWoken(u) /\ ~BeingWoken(u)' /\ Place(u) = Home(u)
      /\ contractOwner' = contractOwner
      /\ \A m \in Mutexes : mem'.queue[m].front = mem.queue[m].front
      /\ \A u \in Threads, m \in Mutexes :
           Place(u) = m => mem'.next[u] = mem.next[u] /\ u # currentThread'
  <2>1. \A t \in Threads : st[t] = "BLOCKED" => threadState[t] = "BLOCKED"
    BY <1>4
  <2>. QED BY <1>2, <1>3, <1>5, <1>7, <2>1, SwitchMaps
<1>9. PICK n \in Threads : n = currentThread'
  BY <1>8
<1>10. ASSUME NEW m \in Mutexes PROVE Waiters(m)' = Waiters(m)
  <2>1. \A u \in Threads : Place(u) = m => u # c
    BY <1>1, <1>8, HomeBlocked
  <2>. QED BY <1>1, <1>8, <2>1, WaitersKept
<1>11. contractWaiters' = contractWaiters
  BY <1>10 DEF contractWaiters
<1>12. \A u \in Threads : threadState'[u] = IF u = n THEN "RUNNING" ELSE IF u = c THEN "QUEUED" ELSE threadState[u]
  BY <1>2, <1>4, <1>8, <1>9
<1>13. Status(c) = "running"
  BY <1>1 DEF Status
<1>14. Status(n)' = "running"
  BY <1>9, <1>12 DEF Status
<1>15. ASSUME NEW u \in Threads, u # n, u # c PROVE Status(u)' = Status(u)
  <2>1. threadState'[u] = threadState[u] /\ u # currentThread /\ u # currentThread'
    BY <1>1, <1>9, <1>12, <1>15
  <2>. QED BY <1>8, <2>1 DEF Status
<1>16. CASE n = c
  <2>1. \A u \in Threads : Status(u)' = Status(u)
    BY <1>13, <1>14, <1>15, <1>16
  <2>2. contractStatus' = contractStatus
    BY <2>1 DEF contractStatus
  <2>. QED BY <1>8, <1>11, <2>2
<1>17. CASE n # c
  <2>1. threadState[n] = "QUEUED" /\ threadState'[c] = "QUEUED"
    BY <1>4, <1>8, <1>9, <1>12, <1>17
  <2>2. Status(n) = "ready" /\ Status(c)' = "ready"
    BY <1>1, <1>8, <1>9, <1>17, <2>1 DEF Status
  <2>3. contractStatus' = [contractStatus EXCEPT ![c] = "ready", ![n] = "running"]
    BY <1>14, <1>15, <1>17, <2>2 DEF contractStatus
  <2>4. contractStatus[c] = "running" /\ contractStatus[n] = "ready"
    BY <1>13, <2>2 DEF contractStatus
  <2>5. Contract!Switch(c, n)
    BY <1>8, <1>11, <2>3, <2>4 DEF Contract!Switch
  <2>. QED BY <2>5
<1>. QED BY <1>16, <1>17

\* What schedule() knows of the heap it finds, when it puts no thread on it.
LEMMA AwayMaps ==
  ASSUME MapInv, MapInv', sched # "idle", currentThread \in Threads,
         SwitchTo(mem, threadState), UNCHANGED priority
  PROVE  /\ currentThread' \in Threads /\ threadState[currentThread'] = "QUEUED"
         /\ \A u \in Threads : threadState'[u] = IF u = currentThread' THEN "RUNNING" ELSE threadState[u]
         /\ \A u \in Threads : ~BeingWoken(u) /\ ~BeingWoken(u)' /\ Place(u) = Home(u)
         /\ contractOwner' = contractOwner /\ call' = call
         /\ \A m \in Mutexes : mem'.queue[m].front = mem.queue[m].front
         /\ \A u \in Threads, m \in Mutexes :
              Place(u) = m => mem'.next[u] = mem.next[u] /\ u # currentThread'
<1>. USE DEF QueueInv, MapInv
<1>1. /\ threadState \in [Threads -> States] /\ priority \in [Threads -> Levels] /\ mem \in Heap
      /\ UNCHANGED <<call, pc, holds>>
  BY DEF TypeInv, TypeOK, Heap, SwitchTo, LeaveSchedule, clientVars
<1>2. Lists(mem, [t \in Threads |-> HomeIn(threadState, priority, t)])
  BY ScheduleRests DEF Home
<1>3. \A t \in Threads, m \in Mutexes : Home(t) = m => threadState[t] = "BLOCKED"
  BY HomeBlocked
<1>4. /\ currentThread' \in Threads /\ threadState[currentThread'] = "QUEUED"
      /\ threadState' = [threadState EXCEPT ![currentThread'] = "RUNNING"]
      /\ \A u \in Threads : ~BeingWoken(u) /\ ~BeingWoken(u)' /\ Place(u) = Home(u)
      /\ contractOwner' = contractOwner
      /\ \A m \in Mutexes : mem'.queue[m].front = mem.queue[m].front
      /\ \A u \in Threads, m \in Mutexes :
           Place(u) = m => mem'.next[u] = mem.next[u] /\ u # currentThread'
  BY <1>1, <1>2, <1>3, SwitchMaps
<1>. QED BY <1>1, <1>4

\* The current thread has exited.
LEMMA ExitedMaps ==
  ASSUME MapInv, MapInv', sched # "idle", currentThread \in Threads,
         threadState[currentThread] = "EXITED", SwitchTo(mem, threadState), UNCHANGED priority
  PROVE  \E u \in Threads : Contract!Pick(u)
<1>. USE DEF QueueInv, MapInv
<1>1. PICK c \in Threads : c = currentThread
  OBVIOUS
<1>2. PICK n \in Threads : n = currentThread'
  BY AwayMaps
<1>3. /\ threadState[n] = "QUEUED"
      /\ \A u \in Threads : threadState'[u] = IF u = n THEN "RUNNING" ELSE threadState[u]
      /\ \A u \in Threads : ~BeingWoken(u) /\ ~BeingWoken(u)' /\ Place(u) = Home(u)
      /\ contractOwner' = contractOwner
      /\ \A m \in Mutexes : mem'.queue[m].front = mem.queue[m].front
      /\ \A u \in Threads, m \in Mutexes : Place(u) = m => mem'.next[u] = mem.next[u] /\ u # n
  BY <1>2, AwayMaps
<1>4. ASSUME NEW m \in Mutexes PROVE Waiters(m)' = Waiters(m)
  <2>1. \A u \in Threads : Place(u) = m => u # c
    BY <1>1, <1>3, HomeBlocked
  <2>. QED BY <1>1, <1>2, <1>3, <2>1, WaitersKept
<1>5. contractWaiters' = contractWaiters
  BY <1>4 DEF contractWaiters
<1>6. Status(n)' = "running"
  BY <1>2, <1>3 DEF Status
<1>7. Status(n) = "ready" /\ n # c
  BY <1>1, <1>3 DEF Status
<1>8. ASSUME NEW u \in Threads, u # n PROVE Status(u)' = Status(u) /\ Status(u) # "running"
  <2>1. threadState'[u] = threadState[u] /\ u # currentThread'
    BY <1>2, <1>3, <1>8
  <2>2. u = currentThread => threadState[u] = "EXITED"
    OBVIOUS
  <2>. QED BY <1>3, <2>1, <2>2 DEF Status
<1>9. contractStatus' = [contractStatus EXCEPT ![n] = "running"]
  BY <1>6, <1>8 DEF contractStatus
<1>10. contractStatus[n] = "ready" /\ \A u \in Threads : contractStatus[u] # "running"
  BY <1>7, <1>8 DEF contractStatus
<1>11. Contract!Pick(n)
  BY <1>3, <1>5, <1>9, <1>10 DEF Contract!Pick
<1>. QED BY <1>11

\* The current thread is blocked, the last on the wait queue of a taken mutex.
LEMMA BlockedMaps ==
  ASSUME MapInv, MapInv', sched # "idle", currentThread \in Threads,
         threadState[currentThread] = "BLOCKED", SwitchTo(mem, threadState), UNCHANGED priority
  PROVE  \E t, u \in Threads, m \in Mutexes : Contract!Park(t, u, m)
<1>. USE DEF QueueInv, MapInv
<1>t. mem \in Heap /\ mem' \in Heap /\ Cardinality(Threads) \in Nat
  BY FiniteAssumption, FS_CardinalityType DEF TypeInv, TypeOK, Heap
<1>1. PICK c \in Threads : c = currentThread
  OBVIOUS
<1>2. PICK n \in Threads : n = currentThread'
  BY AwayMaps
<1>3. /\ threadState[n] = "QUEUED" /\ call' = call
      /\ \A u \in Threads : threadState'[u] = IF u = n THEN "RUNNING" ELSE threadState[u]
      /\ \A u \in Threads : ~BeingWoken(u) /\ ~BeingWoken(u)' /\ Place(u) = Home(u)
      /\ contractOwner' = contractOwner
      /\ \A m \in Mutexes : mem'.queue[m].front = mem.queue[m].front
      /\ \A u \in Threads, m \in Mutexes : Place(u) = m => mem'.next[u] = mem.next[u] /\ u # n
  BY <1>2, AwayMaps
<1>4. n # c /\ threadState[c] = "BLOCKED" /\ call[c].op = "lock"
  BY <1>1, <1>3 DEF StatesInv
<1>m. PICK m \in Mutexes : m = call[c].arg
  BY <1>4 DEF TypeInv, CallsMatch, CallMatchesPC
<1>5. Place(c) = m /\ m \in Queues
  BY <1>3, <1>4, <1>m, HomeBlocked DEF Queues
<1>6. flag[m] = 1 /\ mem.queue[m].rear = c
  <2>1. pc[c] \in CallBoundaries
    BY <1>1 DEF AtBoundaries
  <2>2. Settled = mem
    BY ScheduleRests
  <2>. QED BY <1>1, <1>4, <1>m, <2>1, <2>2 DEF MappingInv, CallBoundaries
<1>7. mem.next[c] = NULL
  <2>1. Lists(mem, On) /\ On \in Places /\ On[c] = m
    BY <1>5, ScheduleRests DEF On
  <2>2. PICK pos \in [Threads -> Nat] : Linked(mem, m, On, pos)
    BY <1>5, <2>1 DEF Lists
  <2>. QED BY <1>t, <1>5, <1>6, <2>1, <2>2, LinkedAt
\* The list of m ends with c, whom only the switch makes a waiter.
<1>8. PICK l : /\ IsList(l, mem, m)
               /\ Len(l) <= Cardinality(Threads)
               /\ Elements(l) = {u \in Threads : Place(u) = m}
  BY DEF WaitLists
<1>9. l \in Seq(Threads) /\ Len(l) \in Nat /\ \A k \in 1 .. Len(l) : l[k] \in Elements(l) /\ l[k] \in Threads
  BY <1>8, LenProperties DEF IsList, Elements
<1>10. \A k \in 1 .. Len(l) : l[k] = c => k = Len(l)
  <2>. TAKE k \in 1 .. Len(l)
  <2>. HAVE l[k] = c
  <2>1. k # Len(l) => k + 1 \in 1 .. Len(l)
    BY <1>9
  <2>2. k # Len(l) => mem.next[l[k]] = l[k + 1]
    BY <1>8 DEF IsList
  <2>. QED BY <1>7, <1>9, <2>1, <2>2
<1>11. PICK j \in 1 .. Len(l) : l[j] = c
  BY <1>5, <1>8 DEF Elements
<1>12. PICK s \in Seq(Threads), e \in Threads : l = Append(s, e)
  <2>1. l # <<>>
    BY <1>9, <1>11
  <2>. QED BY <1>9, <2>1, SequenceEmptyOrAppend
<1>13. /\ Len(s) \in Nat /\ Len(l) = Len(s) + 1 /\ l[Len(s) + 1] = e
       /\ \A k \in 1 .. Len(s) : l[k] = s[k]
  BY <1>12, AppendProperties, LenProperties
<1>14. e = c
  BY <1>9, <1>10, <1>11, <1>13
<1>15. Queued(m) = s
  <2>1. \A k \in 1 .. Len(l) : l[k] # c <=> k <= Len(s)
    BY <1>9, <1>10, <1>13, <1>14
  <2>2. Len(s) <= Len(l) /\ \A k \in 1 .. Len(s) : s[k] = l[k]
    BY <1>13
  <2>3. QueuedIn(mem, c, m) = s
    BY <1>t, <1>5, <1>8, <2>1, <2>2, QueuedIs
  <2>. QED BY <1>1, <2>3, QueuedEquals
<1>16. Queued(m)' = l
  <2>1. IsList(l, mem', m)
    BY <1>3, <1>8, ListKept
  <2>2. \A k \in 1 .. Len(l) : l[k] # n
    BY <1>3, <1>8, <1>9
  <2>3. QueuedIn(mem', n, m) = l
    BY <1>t, <1>5, <1>8, <1>9, <2>1, <2>2, QueuedIs
  <2>. QED BY <1>2, <2>3, QueuedEquals
<1>17. Waiters(m)' = Append(Waiters(m), c)
  <2>1. Waiters(m) = s
    BY <1>3, <1>15, WaitersAre
  <2>2. Waiters(m)' = l
    BY <1>3, <1>16, WaitersAre
  <2>. QED BY <1>12, <1>14, <2>1, <2>2
<1>18. ASSUME NEW q \in Mutexes, q # m PROVE Waiters(q)' = Waiters(q)
  <2>1. \A u \in Threads : Place(u) = q => u # c
    BY <1>5, <1>18
  <2>. QED BY <1>1, <1>2, <1>3, <2>1, WaitersKept
<1>19. contractWaiters' = [contractWaiters EXCEPT ![m] = Append(@, c)]
  BY <1>17, <1>18 DEF contractWaiters
<1>20. contractOwner[m] \notin {NULL, c}
  <2>1. PICK t \in Threads : Owns(t, m)
    BY <1>6 DEF WakeInv
  <2>2. Owner(m) = t
    BY <2>1 DEF OwnersShow
  <2>3. ~Owns(c, m)
    BY <1>4, <1>m DEF MappingInv, Owns, Unlocking
  <2>. QED BY <2>1, <2>2, <2>3 DEF contractOwner
<1>21. Status(c) = "running" /\ Status(n) = "ready"
  <2>1. Status(c) = "running"
    BY <1>1, <1>4 DEF Status
  <2>2. Status(n) = "ready"
    BY <1>1, <1>3, <1>4 DEF Status
  <2>. QED BY <2>1, <2>2
<1>22. Status(c)' = "waiting" /\ Status(n)' = "running"
  <2>1. threadState'[c] = "BLOCKED" /\ threadState'[n] = "RUNNING" /\ c # currentThread'
    BY <1>2, <1>3, <1>4
  <2>2. Status(c)' = "waiting"
    BY <2>1 DEF Status
  <2>3. Status(n)' = "running"
    BY <1>2, <2>1 DEF Status
  <2>. QED BY <2>2, <2>3
<1>23. ASSUME NEW u \in Threads, u # n, u # c PROVE Status(u)' = Status(u)
  <2>1. threadState'[u] = threadState[u] /\ u # currentThread /\ u # currentThread'
    BY <1>1, <1>2, <1>3, <1>23
  <2>. QED BY <1>3, <2>1 DEF Status
<1>24. /\ contractStatus[c] = "running" /\ contractStatus[n] = "ready"
       /\ contractStatus' = [contractStatus EXCEPT ![c] = "waiting", ![n] = "running"]
  BY <1>4, <1>21, <1>22, <1>23 DEF contractStatus
<1>25. Contract!Park(c, n, m)
  BY <1>3, <1>19, <1>20, <1>24 DEF Contract!Park
<1>. QED BY <1>25

\* What schedule() does at its end.
LEMMA DispatchMaps ==
  ASSUME MapInv, MapInv', Dispatch
  PROVE  \/ UNCHANGED <<contractStatus, contractOwner, contractWaiters>>
         \/ Contract!Next
<1>. USE DEF MapInv
<1>1. sched # "idle" /\ currentThread \in Threads
  BY DEF Dispatch, DispatchLast, DispatchAlone, DispatchYield, DispatchExited, DispatchKeep,
     DispatchExpired, DispatchBlocked, TypeInv, Current
<1>2. priority[currentThread] \in Levels /\ Demoted(priority[currentThread]) \in Levels
  <2>1. priority[currentThread] \in Levels
    BY <1>1 DEF TypeInv, TypeOK
  <2>. QED BY <2>1 DEF Demoted, Levels
<1>3. CASE DispatchLast \/ \E e \in Elapsed : DispatchAlone(e) \/ DispatchKeep(e)
  <2>1. UNCHANGED <<currentThread, threadState, mem, call, holds>>
    BY <1>3 DEF DispatchLast, DispatchAlone, DispatchKeep, LeaveSchedule, clientVars
  <2>. QED BY <2>1, SameView
<1>4. CASE DispatchYield \/ \E e \in Elapsed : DispatchExpired(e)
  <2>1. PICK p \in Levels : Requeue(currentThread, p)
    BY <1>2, <1>4 DEF DispatchYield, DispatchExpired
  <2>2. threadState[currentThread] \in {"YIELD", "JOINING", "RUNNING"}
    BY <1>4 DEF DispatchYield, DispatchExpired
  <2>. QED BY <1>1, <2>1, <2>2, RequeueMaps DEF Contract!Next
<1>5. CASE DispatchExited
  <2>1. /\ threadState[currentThread] = "EXITED" /\ SwitchTo(mem, threadState) /\ UNCHANGED priority
    BY <1>5 DEF DispatchExited
  <2>. QED BY <1>1, <2>1, ExitedMaps DEF Contract!Next
<1>6. ASSUME NEW e \in Elapsed, DispatchBlocked(e) PROVE Contract!Next
  <2>1. /\ threadState[currentThread] = "BLOCKED" /\ SwitchTo(mem, threadState) /\ UNCHANGED priority
    BY <1>6 DEF DispatchBlocked
  <2>. QED BY <1>1, <2>1, BlockedMaps DEF Contract!Next
<1>. QED BY <1>3, <1>4, <1>5, <1>6 DEF Dispatch

-----------------------------------------------------------------------------
\* Every step of the library is a step of the contract or none.
LEMMA ContractStep ==
  ASSUME MapInv, MapInv', Next
  PROVE  \/ UNCHANGED <<contractStatus, contractOwner, contractWaiters>>
         \/ Contract!Next
<1>1. ASSUME NEW c \in Threads, FirstCreate(c) PROVE Contract!Next
  BY <1>1, StartMaps DEF Contract!Next
<1>2. ASSUME NEW t \in Threads, LibraryStep(t)
      PROVE  \/ UNCHANGED <<contractStatus, contractOwner, contractWaiters>>
             \/ Contract!Next
  <2>1. CASE LockTest(t) /\ flag[call[t].arg] # 1
    BY <2>1, LockMaps DEF Contract!Next
  <2>2. CASE UnlockFlag(t)
    BY <2>2, UnlockMaps DEF Contract!Next
  <2>3. CASE EnqueueFront(t) \/ EnqueueNext(t)
    BY <2>3, EnqueueMaps
  <2>4. CASE DequeueFront(t)
    BY <2>4, DequeueMaps
  <2>5. CASE \/ CallSchedule(t) \/ EnqueueTest(t) \/ EnqueueRear(t) \/ ExitValue(t) \/ JoinTest(t)
             \/ JoinValue(t) \/ JoinRun(t) \/ (LockTest(t) /\ flag[call[t].arg] = 1) \/ LockBlock(t)
             \/ UnlockTest(t) \/ DequeueNext(t) \/ DequeueRear(t) \/ UnlockState(t)
    BY <2>5, QuietMaps
  <2>. QED BY <1>2, <2>1, <2>2, <2>3, <2>4, <2>5 DEF LibraryStep
<1>3. ASSUME NEW t \in Threads, ClientStep(t)
      PROVE  \/ UNCHANGED <<contractStatus, contractOwner, contractWaiters>>
             \/ Contract!Next
  <2>1. ASSUME NEW u \in Threads, Create(t, u) PROVE Contract!Next
    BY <2>1, SpawnMaps DEF Contract!Next
  <2>2. ASSUME NEW v \in Values \cup {NULL}, Exit(t, v) PROVE Contract!Next
    BY <2>2, ExitMaps DEF Contract!Next
  <2>3. CASE \/ Yield(t) \/ Finish(t) \/ (\E u \in Threads : Join(t, u))
             \/ \E m \in Mutexes : Lock(t, m) \/ Unlock(t, m)
    BY <2>3, QuietMaps
  <2>. QED BY <1>3, <2>1, <2>2, <2>3 DEF ClientStep
<1>4. CASE SchedulerStep
  <2>1. CASE MaintainNextLevel \/ MaintainKeep
    <3>1. UNCHANGED <<currentThread, threadState, mem, call, holds>>
      BY <2>1 DEF MaintainNextLevel, MaintainKeep, blockVars, clientVars
    <3>. QED BY <3>1, SameView
  <2>. QED BY <1>4, <2>1, PromoteMaps, DispatchMaps DEF SchedulerStep
<1>5. CASE Tick \/ TickIgnored \/ Ended
  <2>1. UNCHANGED <<currentThread, threadState, mem, call, holds>>
    BY <1>5 DEF Tick, TickIgnored, Ended, vars, schedulerVars, blockVars, clientVars
  <2>. QED BY <2>1, SameView
<1>. QED BY <1>1, <1>2, <1>3, <1>4, <1>5 DEF Next

-----------------------------------------------------------------------------
\* The library starts as the contract does.
LEMMA ContractInit ==
  ASSUME TypeInv, QueueInv, Init
  PROVE  Contract!Init
<1>1. contractStatus = [t \in Threads |-> "new"]
  <2>1. \A t \in Threads : Status(t) = "new"
    BY DEF Init, Status
  <2>. QED BY <2>1 DEF contractStatus
<1>2. contractOwner = [m \in Mutexes |-> NULL]
  <2>1. ASSUME NEW m \in Mutexes PROVE Owner(m) = NULL
    <3>1. {t \in Threads : m \in holds[t] \/ Unlocking(t, m)} = {}
      BY DEF Init, Unlocking, NoCall, NewCall
    <3>. QED BY <3>1 DEF Owner
  <2>. QED BY <2>1 DEF contractOwner
<1>3. contractWaiters = [m \in Mutexes |-> <<>>]
  <2>1. ASSUME NEW m \in Mutexes PROVE Waiters(m) = <<>>
    <3>1. mem \in Heap /\ m \in Queues /\ mem.queue[m].front = NULL /\ currentThread \in ThreadOrNull
      BY DEF TypeInv, TypeOK, Heap, Queues, Init, EmptyQueues
    <3>2. IsList(<<>>, mem, m) /\ Len(<<>>) = 0
      BY <3>1 DEF IsList
    <3>3. Cardinality(Threads) \in Nat
      BY FiniteAssumption, FS_CardinalityType
    <3>4. QueuedIn(mem, currentThread, m) = <<>>
      <4>. DEFINE none == <<>>
      <4>1. /\ IsList(none, mem, m) /\ none \in Seq(Threads) /\ Len(none) <= Cardinality(Threads)
            /\ Len(none) <= Len(none) /\ ~\E k \in 1 .. Len(none) : TRUE
        BY <3>2, <3>3 DEF IsList
      <4>. HIDE DEF none
      <4>2. QueuedIn(mem, currentThread, m) = none
        BY <3>1, <4>1, QueuedIs
      <4>. QED BY <4>2 DEF none
    <3>5. \A u \in Threads : ~BeingWoken(u)
      BY DEF Init, BeingWoken, NoCall, NewCall
    <3>. QED BY <3>4, <3>5, QueuedEquals, WaitersAre
  <2>. QED BY <2>1 DEF contractWaiters
<1>. QED BY <1>1, <1>2, <1>3 DEF Contract!Init

\* The conditions under which the library keeps the contract hold in every state.
LEMMA MapInvariance ==
  ASSUME WindowsClosed
  PROVE  Spec /\ []~Deadlocked => []MapInv
<1>1. TypeInv /\ QueueInv /\ WakeInv /\ [Next]_vars => WakeInv'
  <2>1. ASSUME WakeInv, UNCHANGED vars PROVE WakeInv'
    BY <2>1 DEF vars, schedulerVars, blockVars, clientVars, WakeInv, Woken, Waits, Comes, Owns,
       Unlocking
  <2>. QED BY <2>1, WakeStep
<1>2. /\ TypeInv /\ TypeInv' /\ QueueInv /\ QueueInv' /\ WakeInv /\ MappingInv /\ [Next]_vars
      => MappingInv'
  <2>1. ASSUME MappingInv, UNCHANGED vars PROVE MappingInv'
    BY <2>1 DEF vars, schedulerVars, blockVars, clientVars, MappingInv, Settled
  <2>. QED BY <2>1, MappingStep
<1>3. TypeInv /\ QueueInv /\ MutexInv /\ WakeInv /\ MappingInv => MapInv
  BY WaitListsHold, OwnersShown, WokenShown DEF MapInv
<1>. QED BY WakeInit, MappingInit, <1>1, <1>2, <1>3, TypeInvariance, QueueInvariance,
            MutexInvariance, PTL DEF Spec

\* The library keeps the contract: one thread runs at a time, only a taken mutex
\* makes a thread wait, and a release wakes the thread that has waited longest, for
\* any constants with the windows closed, until a deadlock.
THEOREM ContractImplemented ==
  ASSUME WindowsClosed
  PROVE  Spec /\ []~Deadlocked => ImplementsContract
<1>1. MapInv /\ Init => Contract!Init
  BY ContractInit DEF MapInv
<1>2. MapInv /\ MapInv' /\ [Next]_vars => [Contract!Next]_(Contract!vars)
  <2>1. ASSUME MapInv, MapInv', UNCHANGED vars
        PROVE  UNCHANGED <<contractStatus, contractOwner, contractWaiters>>
    BY <2>1, SameView DEF vars, schedulerVars, blockVars, clientVars
  <2>2. ASSUME MapInv, MapInv', Next
        PROVE  UNCHANGED Contract!vars \/ Contract!Next
    BY <2>2, ContractStep DEF Contract!vars
  <2>3. ASSUME MapInv, MapInv', UNCHANGED vars PROVE UNCHANGED Contract!vars
    BY <2>1, <2>3 DEF Contract!vars
  <2>. QED BY <2>2, <2>3
<1>. QED BY <1>1, <1>2, MapInvariance, PTL DEF Spec, ImplementsContract, Contract!Spec

\* It keeps it for good when the windows are closed and the threads take the mutexes
\* in an order, as those of Clients do.
THEOREM ContractImplementedInOrder ==
  ASSUME WindowsClosed, NEW top \in Nat, NEW rank \in [Mutexes -> 0 .. top]
  PROVE  Spec /\ []InOrder(rank) => ImplementsContract
BY ContractImplemented, NeverDeadlocked, PTL
=============================================================================

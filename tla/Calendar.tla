------------------------------- MODULE Calendar -------------------------------
(***************************************************************************)
(* The thread library before the submitted one, the "calendar" of          *)
(* scheduler+virtualMemoryManager/my_pthread.c: queues that count their    *)
(* threads, a wait queue per mutex, and every switch made by               *)
(* my_pthread_yield() or my_pthread_exit().                                *)
(*                                                                         *)
(* cal is the memory of the library with the timer and the processor; a    *)
(* function of the file is an operator from one such record to the next,   *)
(* so that signal_handler(), which calls my_pthread_yield(), is their      *)
(* composition.  Both stop the timer first: a call is one step except at   *)
(* the statements named in Windows, before which the signal may arrive.    *)
(***************************************************************************)
EXTENDS Naturals, FiniteSets

CONSTANTS
  Threads, Main, Mutexes, NULL,
  Windows       \* statements inside calls before which the signal may arrive

ASSUME MainAssumption == Main \in Threads
ASSUME NamesAssumption == NULL \notin Threads \cup Mutexes

Levels == {"high", "normal", "low"}
Queues == Levels \cup {"dead"} \cup Mutexes
Places == {"user", "count", "join", "take", "wait", "sleep", "wake", "exited"}

VARIABLES
  cal,          \* the scheduler, the nodes of the threads and the mutexes
  at,           \* at[t]: the statement of a call that thread t is at, or "user"
  arg,          \* arg[t]: the mutex or the thread that call is about
  held          \* held[t]: the mutexes that t was told it has

vars == <<cal, at, arg, held>>

Empty == [head |-> NULL, tail |-> NULL, num_threads |-> 0]

\* init_scheduler(), then the first my_pthread_create(), which makes the node
\* of main as well.  The timer first runs after the first switch.
Init ==
  \E t \in Threads \ {Main} :
    /\ cal = [queue   |-> [q \in Queues |-> IF q = "high" THEN [head |-> t, tail |-> t, num_threads |-> 1]
                                                          ELSE Empty],
              next    |-> [u \in Threads |-> NULL],
              status  |-> [u \in Threads |-> CASE u = Main -> "RUNNING" [] u = t -> "NEW" [] OTHER -> "none"],
              level   |-> [u \in Threads |-> IF u \in {Main, t} THEN "high" ELSE "none"],
              lock    |-> [m \in Mutexes |-> [status |-> "NOT_LOCKED", holder |-> NULL]],
              running |-> Main,
              cpu     |-> Main,
              timer   |-> FALSE,
              alarm   |-> FALSE,
              process |-> "ok"]
    /\ at = [u \in Threads |-> "user"]
    /\ arg = [u \in Threads |-> NULL]
    /\ held = [u \in Threads |-> {}]

-----------------------------------------------------------------------------
(***************************************************************************)
(* Queues.  A read or write through NULL ends the process: the handler of  *)
(* SIGSEGV finds no page to swap.                                          *)
(***************************************************************************)
Fault(c) == [c EXCEPT !.process = "fault"]

\* Mutant: the thread is put before the others.
Link_first(c, q, t) ==
  LET Q == c.queue[q]
  IN  IF Q.num_threads = 0 THEN [c EXCEPT !.queue[q].head = t, !.queue[q].tail = t]
      ELSE [c EXCEPT !.queue[q].head = t, !.next[t] = Q.head]

\* enqueue() up to the count.
Link(c, q, t) ==
  LET Q == c.queue[q]
      last == IF Q.num_threads = 1 THEN Q.head ELSE Q.tail
  IN  IF Q.num_threads = 0 THEN [c EXCEPT !.queue[q].head = t, !.queue[q].tail = t]
      ELSE IF last = NULL THEN Fault(c)
      ELSE [c EXCEPT !.queue[q].tail = t, !.next[last] = t]

Count(c, q) == [c EXCEPT !.queue[q].num_threads = @ + 1]

Enqueue(c, q, t) == Count(Link(c, q, t), q)

\* Mutant: the thread that leaves the queue keeps its link.
Dequeue_keepsLink(c, q) ==
  LET Q == c.queue[q]
  IN  CASE Q.num_threads = 0 -> c
        [] Q.num_threads > 0 /\ Q.head = NULL -> Fault(c)
        [] Q.num_threads = 1 /\ Q.head # NULL -> [c EXCEPT !.queue[q] = Empty]
        [] Q.num_threads > 1 /\ Q.head # NULL ->
             [c EXCEPT !.queue[q].head = c.next[Q.head], !.queue[q].num_threads = @ - 1]

\* Mutant: the queue is not found empty, and its count goes below zero.
Dequeue_fromEmpty(c, q) ==
  LET Q == c.queue[q]
  IN  CASE Q.head = NULL -> [c EXCEPT !.queue[q].num_threads = @ - 1]
        [] Q.num_threads = 1 /\ Q.head # NULL ->
             [c EXCEPT !.queue[q] = Empty, !.next[Q.head] = NULL]
        [] Q.num_threads > 1 /\ Q.head # NULL ->
             [c EXCEPT !.queue[q].head = c.next[Q.head],
                       !.queue[q].num_threads = @ - 1,
                       !.next[Q.head] = NULL]

\* dequeue(); the thread it returns is Head(c, q).
Dequeue(c, q) ==
  LET Q == c.queue[q]
  IN  CASE Q.num_threads = 0 -> c
        [] Q.num_threads > 0 /\ Q.head = NULL -> Fault(c)
        [] Q.num_threads = 1 /\ Q.head # NULL ->
             [c EXCEPT !.queue[q] = Empty, !.next[Q.head] = NULL]
        [] Q.num_threads > 1 /\ Q.head # NULL ->
             [c EXCEPT !.queue[q].head = c.next[Q.head],
                       !.queue[q].num_threads = @ - 1,
                       !.next[Q.head] = NULL]

Head(c, q) == IF c.queue[q].num_threads = 0 THEN NULL ELSE c.queue[q].head

\* The level getThread() takes a thread from, if there is one.
FirstLevel(c) == CASE c.queue["high"].num_threads > 0 -> "high"
                   [] c.queue["high"].num_threads = 0 /\ c.queue["normal"].num_threads > 0 -> "normal"
                   [] c.queue["high"].num_threads = 0 /\ c.queue["normal"].num_threads = 0 -> "low"

GetThread(c) == Dequeue(c, FirstLevel(c))
NextThread(c) == Head(c, FirstLevel(c))

\* maintain(): every thread of the lowest level goes to the highest.
Maintain(c) ==
  LET moved[n \in Nat] == IF n = 0 THEN c
                          ELSE Enqueue(Dequeue(moved[n - 1], "low"), "high", Head(moved[n - 1], "low"))
  IN  moved[c.queue["low"].num_threads]

\* reschedule() of thread t; long: it has used up the time of its level.
\* INVERTED has the value of ENDED.
Reschedule(c, t, long) ==
  LET lower == CASE c.level[t] = "high" -> "normal" [] OTHER -> "low"
      level == IF c.status[t] \notin {"YIELD", "ENDED"} /\ long THEN lower ELSE c.level[t]
      q     == IF c.status[t] = "ENDED" THEN "high" ELSE level
  IN  IF q = "none" THEN c ELSE Enqueue([c EXCEPT !.level[t] = level], q, t)

\* The switch to thread t at the end of my_pthread_yield() and my_pthread_exit().
SwitchTo(c, t) ==
  [c EXCEPT !.status[t] = "RUNNING", !.running = t, !.cpu = t, !.timer = TRUE, !.alarm = TRUE]

StopTimer(c) == [c EXCEPT !.timer = FALSE, !.alarm = FALSE]

\* my_pthread_yield().  For the status YIELD reschedule() does not look at the
\* time used up.  The branch for an old_thread that is NULL reads its id when
\* there is a thread to switch to.
Yield(c) ==
  LET old == c.running
      new == NextThread(c)
      stopped == StopTimer(c)
      waiting == GetThread(stopped)
      rest == IF old # NULL /\ c.status[old] # "ENDED"
              THEN Reschedule([waiting EXCEPT !.status[old] = "YIELD"], old, FALSE)
              ELSE waiting
  IN  IF rest.process # "ok" THEN rest
      ELSE IF new = NULL THEN rest
      ELSE IF old = NULL THEN Fault(rest)
      ELSE SwitchTo(rest, new)

\* signal_handler().
SignalHandler(c) ==
  LET kept == Maintain(StopTimer(c))
      old == c.running
  IN  IF old = NULL THEN Fault(c)
      ELSE CASE c.status[old] = "YIELD" -> Yield(kept)
             [] c.status[old] = "RUNNING" -> Yield([kept EXCEPT !.status[old] = "READY"])
             [] c.status[old] \in {"ENDED", "WAITING"} -> Yield([kept EXCEPT !.status[old] = "HELP"])
             [] c.status[old] \in {"HELP", "NEW", "READY"} -> kept

-----------------------------------------------------------------------------
(***************************************************************************)
(* The calls, by the thread on the processor.                              *)
(***************************************************************************)
Runs(t) == cal.process = "ok" /\ cal.cpu = t
At(t, place) == Runs(t) /\ at[t] = place
Goto(t, place, x) == /\ at' = [at EXCEPT ![t] = place]
                     /\ arg' = [arg EXCEPT ![t] = x]
Created(t) == cal.status[t] # "none"

\* The timer expires.
Tick ==
  /\ cal.process = "ok"
  /\ cal.timer
  /\ at[cal.cpu] \in {"user", "join"} \cup Windows
  /\ cal' = SignalHandler(cal)
  /\ UNCHANGED <<at, arg, held>>

\* my_pthread_create(): the new thread is linked into the queue...
Create(t, u) ==
  /\ At(t, "user")
  /\ ~Created(u)
  /\ cal' = Link([cal EXCEPT !.status[u] = "NEW", !.level[u] = "high"], "high", u)
  /\ Goto(t, "count", u)
  /\ UNCHANGED held

\* ... and counted.
CreateCount(t) ==
  /\ At(t, "count")
  /\ cal' = Count(cal, "high")
  /\ Goto(t, "user", NULL)
  /\ UNCHANGED held

CallYield(t) ==
  /\ At(t, "user")
  /\ cal' = Yield(cal)
  /\ UNCHANGED <<at, arg, held>>

\* my_pthread_exit().  With no other thread ready it calls my_pthread_yield(),
\* which returns, and so does my_pthread_exit().
Exit(t) ==
  /\ At(t, "user")
  /\ held[t] = {}
  /\ LET dead == cal.running
         c == Enqueue([StopTimer(cal) EXCEPT !.status[dead] = "ENDED"], "dead", dead)
     IN  cal' = IF dead = NULL THEN StopTimer(cal)
                ELSE IF NextThread(c) # NULL
                     THEN IF GetThread(c).process = "ok" THEN SwitchTo(GetThread(c), NextThread(c))
                                                         ELSE GetThread(c)
                     ELSE Yield([c EXCEPT !.running = NULL])
  /\ Goto(t, "exited", NULL)
  /\ UNCHANGED held

\* run_user_thread() after the thread's function has returned, which it also
\* does after a my_pthread_exit() that returned.  With no thread to switch to,
\* the context of main, or one that was never saved, goes on.
Return(t) ==
  /\ t # Main
  /\ At(t, "user") \/ At(t, "exited")
  /\ held[t] = {}
  /\ LET c == Yield([cal EXCEPT !.status[t] = "ENDED", !.running = NULL])
     IN  cal' = IF cal.status[t] = "ENDED" \/ c.process = "ok"
                THEN [cal EXCEPT !.status[t] = "ENDED", !.process = "returned"]
                ELSE c
  /\ UNCHANGED <<at, arg, held>>

Join(t, u) ==
  /\ At(t, "user")
  /\ u # t
  /\ Created(u)
  /\ Goto(t, "join", u)
  /\ UNCHANGED <<cal, held>>

\* The loop of my_pthread_join().
JoinTest(t) ==
  /\ At(t, "join")
  /\ IF cal.status[arg[t]] = "ENDED"
     THEN UNCHANGED cal /\ Goto(t, "user", NULL)
     ELSE cal' = Yield(cal) /\ UNCHANGED <<at, arg>>
  /\ UNCHANGED held

\* my_pthread_mutex_lock() reads lock_status.
Lock(t, m) ==
  /\ At(t, "user")
  /\ m \notin held[t]
  /\ Goto(t, IF cal.lock[m].status = "NOT_LOCKED" THEN "take" ELSE "wait", m)
  /\ UNCHANGED <<cal, held>>

\* ... sets it, and names the running thread as the holder.
LockTake(t) ==
  /\ At(t, "take")
  /\ cal' = [cal EXCEPT !.lock[arg[t]] = [status |-> "LOCKED", holder |-> cal.running]]
  /\ held' = [held EXCEPT ![t] = @ \cup {arg[t]}]
  /\ Goto(t, "user", NULL)

Below(l, k) == CASE k = "high" -> l # "high"
                 [] k = "normal" -> l \in {"none", "low"}
                 [] k = "low" -> l = "none"
                 [] k = "none" -> FALSE

\* The holder is taken from its queue, whose other threads are dequeued and
\* enqueued until it comes up, and put in the highest.  Its level is NORMAL
\* after the assignment that was meant to compare.  A holder that is not in
\* that queue: no step of the loop ends it, or the queue is empty.
Invert(c, h) ==
  LET low  == c.level[h] = "low"
      q    == IF low THEN "low" ELSE "normal"
      s    == [c EXCEPT !.status[h] = "ENDED", !.level[h] = q]
      turned[n \in Nat] ==
        IF n = 0 THEN s ELSE Enqueue(Dequeue(turned[n - 1], q), q, Head(turned[n - 1], q))
      turns == {n \in 0 .. c.queue[q].num_threads : Head(turned[n], q) = h}
      least == CHOOSE n \in turns : \A k \in turns : n <= k
  IN  CASE turns # {} -> Reschedule(Dequeue(turned[least], q), h, FALSE)
        [] turns = {} /\ c.queue[q].num_threads = 0 -> Fault(c)
        [] turns = {} /\ c.queue[q].num_threads # 0 -> [c EXCEPT !.process = "loop"]

\* The lock is taken: the caller joins the wait queue.
LockWait(t) ==
  /\ At(t, "wait")
  /\ LET m == arg[t]
         h == cal.lock[m].holder
         c == IF Below(cal.level[h], cal.level[cal.running]) THEN Invert(cal, h) ELSE cal
     IN  cal' = IF h = NULL \/ cal.running = NULL THEN Fault(cal)
                ELSE IF c.process # "ok" THEN c
                ELSE [Enqueue(c, m, c.running) EXCEPT !.status[c.running] = "WAITING"]
  /\ Goto(t, "sleep", arg[t])
  /\ UNCHANGED held

\* ... and yields, as nobody; when that returns it has been told the lock is its.
LockSleep(t) ==
  /\ At(t, "sleep")
  /\ cal' = Yield([cal EXCEPT !.running = NULL])
  /\ held' = IF cal'.process = "ok" THEN [held EXCEPT ![t] = @ \cup {arg[t]}] ELSE held
  /\ Goto(t, "user", NULL)

\* my_pthread_mutex_unlock() clears lock_status; where it was not set, the timer is
\* started again and that is all...
Unlock(t, m) ==
  /\ At(t, "user")
  /\ m \in held[t]
  /\ held' = [held EXCEPT ![t] = @ \ {m}]
  /\ cal' = [cal EXCEPT !.lock[m].status = "NOT_LOCKED",
                        !.timer = IF cal.lock[m].status = "LOCKED" THEN @ ELSE cal.alarm]
  /\ Goto(t, IF cal.lock[m].status = "LOCKED" THEN "wake" ELSE "user", m)

\* ... and wakes the first waiter.  The timer runs as it was last set.
UnlockWake(t) ==
  /\ At(t, "wake")
  /\ LET m == arg[t]
         w == Head(cal, m)
         c == Dequeue(cal, m)
     IN  \E long \in BOOLEAN :
           cal' = [(IF w = NULL \/ c.process # "ok" THEN c
                    ELSE Reschedule([c EXCEPT !.status[w] = "READY"], w, long))
                   EXCEPT !.timer = cal.alarm]
  /\ Goto(t, "user", NULL)
  /\ UNCHANGED held

ThreadStep(t) ==
  \/ \E u \in Threads : Create(t, u)
  \/ CreateCount(t)
  \/ CallYield(t)
  \/ Exit(t)
  \/ Return(t)
  \/ \E u \in Threads : Join(t, u)
  \/ JoinTest(t)
  \/ \E m \in Mutexes : Lock(t, m)
  \/ LockTake(t)
  \/ LockWait(t)
  \/ LockSleep(t)
  \/ \E m \in Mutexes : Unlock(t, m)
  \/ UnlockWake(t)

Next == Tick \/ \E t \in Threads : ThreadStep(t)

Spec == Init /\ [][Next]_vars

\* The kernel delivers the signal to a thread that computes or tests a join, and
\* calls are short.  The thread outside the library may compute or call for ever.
LibraryStep(t) == \/ CreateCount(t) \/ JoinTest(t) \/ LockTake(t)
                  \/ LockWait(t) \/ LockSleep(t) \/ UnlockWake(t)

FairSpec == Spec /\ WF_vars(Tick) /\ WF_vars(\E t \in Threads : LibraryStep(t))

-----------------------------------------------------------------------------
Status == {"none", "HELP", "ENDED", "RUNNING", "WAITING", "YIELD", "NEW", "READY"}

TypeOK ==
  /\ cal \in [queue   : [Queues -> [head : Threads \cup {NULL}, tail : Threads \cup {NULL},
                                   num_threads : Nat]],
              next    : [Threads -> Threads \cup {NULL}],
              status  : [Threads -> Status],
              level   : [Threads -> Levels \cup {"none"}],
              lock    : [Mutexes -> [status : {"LOCKED", "NOT_LOCKED"}, holder : Threads \cup {NULL}]],
              running : Threads \cup {NULL},
              cpu     : Threads,
              timer   : BOOLEAN,
              alarm   : BOOLEAN,
              process : {"ok", "fault", "loop", "returned"}]
  /\ at \in [Threads -> Places]
  /\ arg \in [Threads -> Threads \cup Mutexes \cup {NULL}]
  /\ held \in [Threads -> SUBSET Mutexes]

\* The threads linked into queue q: create links one before it counts it.
Size(q) == cal.queue[q].num_threads + (IF q = "high" /\ at[cal.cpu] = "count" THEN 1 ELSE 0)

\* The i-th thread of queue q.
Nth(q, i) ==
  LET thread[k \in Nat] == IF k <= 1 THEN cal.queue[q].head
                           ELSE LET before == thread[k - 1]
                                IN  IF before = NULL THEN NULL ELSE cal.next[before]
  IN  thread[i]

In(q) == {Nth(q, i) : i \in 1 .. Size(q)}

\* Queue q is a list of as many threads as it counts.
Proper(q) ==
  LET last == cal.queue[q].tail
  IN  /\ NULL \notin In(q)
      /\ Cardinality(In(q)) = Size(q)
      /\ Size(q) > 0 => last = Nth(q, Size(q)) /\ cal.next[last] = NULL

\* A thread that has been created is in the queue of its level while it could
\* run, with the ended ones after it has, or on the processor.
Sound ==
  /\ cal.running = cal.cpu
  /\ \A q \in Queues : Proper(q)
  /\ \A q \in Levels : In(q) = {t \in Threads \ {cal.cpu} : cal.level[t] = q
                                   /\ cal.status[t] \in {"NEW", "YIELD"}}
  /\ In("dead") = {t \in Threads : cal.status[t] = "ENDED"}
  /\ \A m \in Mutexes : In(m) = {t \in Threads : cal.status[t] = "WAITING" /\ arg[t] = m}

NoneReady == \A q \in Levels : Size(q) = 0

\* The queues stay as they should be through every call and every expiry of the
\* timer, until a thread yields, or is told to by the timer, when no other one
\* is ready: it is then queued and goes on.
SoundKept ==
  [][Sound /\ ~NoneReady => cal'.process # "ok" \/ Sound']_vars

\* While the queues are sound, a thread that is ready gets to run, unless the one
\* on the processor is outside the library with its timer stopped, or goes on
\* unlocking: each unlock starts the time slice again.
QueuedRuns ==
  \A t \in Threads :
    cal.status[t] \in {"NEW", "YIELD"} ~>
      \/ cal.cpu = t
      \/ cal.process # "ok"
      \/ at[cal.cpu] = "wake"
      \/ at[cal.cpu] = "user" /\ ~cal.timer
      \/ ~Sound

=============================================================================

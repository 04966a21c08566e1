----------------------------- MODULE Scheduler -----------------------------
(***************************************************************************)
(* The user-level thread library of                                        *)
(* scheduler+virtualMemoryManager/submission/my_pthread.c: a multi-level   *)
(* feedback scheduler driven by a one-shot 50 ms SIGALRM timer, with       *)
(* create, yield, exit, join and a mutex.                                  *)
(*                                                                         *)
(* One process runs one thread at a time.  What makes the library hard is  *)
(* the timer: timer_handler runs schedule() on the stack of whatever       *)
(* thread is running, between any two statements of that thread, library   *)
(* code included.  The library never masks the signal; its only defence is *)
(* inScheduler, which makes the handler return at once while schedule() is *)
(* running.  So the statements of every library call are steps of their    *)
(* own here (pc says which is next) and Tick may come between any two of   *)
(* them; schedule() itself is entered, does its maintenance loop and then  *)
(* dispatches, and no other thread moves meanwhile.                        *)
(***************************************************************************)
EXTENDS Integers, FiniteSets

CONSTANTS
  Threads,                \* thread control blocks, Main among them
  Main,                   \* the thread that first calls my_pthread_create
  Mutexes,                \* mutexes, all through my_pthread_mutex_init
  Values,                 \* what a thread may pass to my_pthread_exit, not NULL
  NULL,                   \* the null pointer
  RUN_QUEUES,             \* number of priority levels
  MAINTENANCE_THRESHOLD,  \* calls of schedule() between two maintenances
  Calls,                  \* the library calls the client makes after set-up
  MaxHeld,                \* bound: mutexes a thread holds at once
  Preemptible             \* program points at which the signal may arrive

Ops == {"create", "yield", "exit", "join", "lock", "unlock"}

PCs == {"user", "schedule", "returned",
        "enqueue", "enqueue_front", "enqueue_next", "enqueue_rear",
        "exit_value", "join_test", "join_value", "join_run",
        "lock_test", "lock_block",
        "unlock_test", "dequeue", "dequeue_next", "dequeue_rear",
        "unlock_state", "unlock_flag"}

States == {"NEW", "QUEUED", "YIELD", "EXITED", "JOINING", "BLOCKED", "RUNNING"}

Levels == 0 .. (RUN_QUEUES - 1)

Queues == Levels \cup Mutexes

ASSUME ThreadsAssumption == Main \in Threads /\ NULL \notin Threads
ASSUME FiniteAssumption  == IsFiniteSet(Threads)
ASSUME QueuesAssumption  == Levels \cap Mutexes = {} /\ NULL \notin Queues
ASSUME LevelsAssumption  == RUN_QUEUES \in Nat \ {0, 1}
ASSUME CycleAssumption   == MAINTENANCE_THRESHOLD \in Nat \ {0}
ASSUME ClientAssumption  == Calls \subseteq Ops /\ MaxHeld \in Nat
ASSUME SignalAssumption  == Preemptible \subseteq PCs

VARIABLES
  phase,             \* "setup", "live", "ended" or "crashed"
  currentThread,     \* myScheduler->currentThread
  inScheduler,       \* myScheduler->inScheduler, 0 or 1
  maintenanceCycle,  \* myScheduler->maintenanceCycle
  sched,             \* where schedule() is: "idle", "maintenance", "dispatch"
  scan,              \* level, ptr and prev of the loop in maintenance()
  byTimer,           \* the running schedule() was called by timer_handler
  armed,             \* the one-shot timer is running
  threadState,       \* state of each control block, "NEW" before create
  priority,          \* priority of each control block
  timeRun,           \* timeRun in whole 50 ms slices, up to RUN_QUEUES
  aged,              \* threads maintenance() has found older than LIFETIME_THRESHOLD
  retval,            \* retval of each control block
  mem,               \* the links: next of each thread, front and rear of each queue
  flag,              \* flag of each mutex
  pc,                \* next statement of each thread
  call,              \* the library call each thread is in, and its locals
  holds              \* mutexes whose lock call returned and that were not unlocked

schedulerVars == <<currentThread, inScheduler, maintenanceCycle, sched, scan, byTimer>>
blockVars     == <<threadState, priority, timeRun, retval>>
clientVars    == <<pc, call, holds>>
vars == <<phase, schedulerVars, armed, blockVars, aged, mem, flag, clientVars>>

ThreadOrNull == Threads \cup {NULL}

\* The arguments and locals of a library call.
NewCall(name, x, e, q) == [op |-> name, arg |-> x, elem |-> e, queue |-> q, got |-> NULL]

NoCall == NewCall("none", NULL, NULL, NULL)
NoScan == [level |-> 0, ptr |-> NULL, prev |-> NULL]

-----------------------------------------------------------------------------
(***************************************************************************)
(* The intrusive queues.  A heap h is a record of the next fields and the  *)
(* queues: a thread has one next field, whichever queue it is in.          *)
(***************************************************************************)

\* enqueue() run to completion, as schedule() and maintenance() run it.
Enqueue(h, q, t) ==
  LET rear == h.queue[q].rear
  IN  [next  |-> IF rear = NULL THEN h.next ELSE [h.next EXCEPT ![rear] = t],
       queue |-> [h.queue EXCEPT
                    ![q] = [front |-> IF rear = NULL THEN t ELSE @.front,
                            rear  |-> t]]]

\* dequeue() of a queue whose front is not NULL.
Dequeue(h, q) ==
  LET first  == h.queue[q].front
      second == h.next[first]
  IN  [next  |-> [h.next EXCEPT ![first] = NULL],
       queue |-> [h.queue EXCEPT
                    ![q] = [front |-> second,
                            rear  |-> IF second = NULL THEN NULL ELSE @.rear]]]

\* maintenance() takes ptr, whose predecessor is prev, out of the list of level i.
Unlink(h, i, ptr, prev) ==
  LET after == h.next[ptr]
  IN  IF ptr = h.queue[i].front
      THEN [next  |-> h.next,
            queue |-> [h.queue EXCEPT
                         ![i] = [front |-> after,
                                 rear  |-> IF after = NULL THEN NULL ELSE @.rear]]]
      ELSE [next  |-> [h.next EXCEPT ![prev] = after],
            queue |-> [h.queue EXCEPT
                         ![i].rear = IF after = NULL THEN prev ELSE @]]

\* Mutant: the lowest level is not looked at.
SomeQueued_missesLowest(h) == \E i \in 0 .. (RUN_QUEUES - 2) : h.queue[i].front # NULL

\* checkNextThread(): some run queue has a front.
SomeQueued(h) == \E i \in Levels : h.queue[i].front # NULL

\* getNextThread() takes the front of level i: no level before it has one.
IsNextLevel(h, i) == /\ h.queue[i].front # NULL
                     /\ \A j \in 0 .. (i - 1) : h.queue[j].front = NULL

-----------------------------------------------------------------------------
EmptyQueues == [q \in Queues |-> [front |-> NULL, rear |-> NULL]]

\* my_pthread_mutex_init of every mutex; the queues are emptied above.
ClearFlags == [m \in Mutexes |-> 0]

Init ==
  /\ phase = "setup"
  /\ currentThread = NULL
  /\ inScheduler = 0
  /\ maintenanceCycle = 0
  /\ sched = "idle"
  /\ scan = NoScan
  /\ byTimer = FALSE
  /\ armed = FALSE
  /\ threadState = [t \in Threads |-> "NEW"]
  /\ priority = [t \in Threads |-> 0]
  /\ timeRun = [t \in Threads |-> 0]
  /\ aged = {}
  /\ retval = [t \in Threads |-> NULL]
  /\ mem = [next  |-> [t \in Threads |-> NULL],
            queue |-> EmptyQueues]
  /\ flag = ClearFlags
  /\ pc = [t \in Threads |-> "user"]
  /\ call = [t \in Threads |-> NoCall]
  /\ holds = [t \in Threads |-> {}]

\* Thread t runs, outside schedule(), and its next statement is l.
At(t, l) == /\ phase = "live"
            /\ sched = "idle"
            /\ currentThread = t
            /\ pc[t] = l

SetState(t, s) == threadState' = [threadState EXCEPT ![t] = s]

Goto(t, l) == pc' = [pc EXCEPT ![t] = l]

Begin(t, name, x) == call' = [call EXCEPT ![t] = NewCall(name, x, NULL, NULL)]

Return(t) == /\ Goto(t, "user")
             /\ call' = [call EXCEPT ![t] = NoCall]

-----------------------------------------------------------------------------
(***************************************************************************)
(* schedule().  It is entered by a thread at "schedule" or by the timer;   *)
(* every 20th call runs maintenance(), a step for each round of its loop;  *)
(* Dispatch is the rest, down to swapcontext.                              *)
(***************************************************************************)

StartOfLevel(h, i) == [level |-> i, ptr |-> h.queue[i].front, prev |-> NULL]

\* Mutant: the cycle is one call longer than the threshold.
EnterSchedule_cycleTooLong ==
  /\ inScheduler' = 1
  /\ IF maintenanceCycle + 1 > MAINTENANCE_THRESHOLD
     THEN maintenanceCycle' = 0 /\ sched' = "maintenance" /\ scan' = StartOfLevel(mem, 1)
     ELSE maintenanceCycle' = maintenanceCycle + 1 /\ sched' = "dispatch" /\ scan' = NoScan

EnterSchedule ==
  /\ inScheduler' = 1
  /\ IF maintenanceCycle + 1 >= MAINTENANCE_THRESHOLD
     THEN /\ maintenanceCycle' = 0
          /\ sched' = "maintenance"
          /\ scan' = StartOfLevel(mem, 1)
     ELSE /\ maintenanceCycle' = maintenanceCycle + 1
          /\ sched' = "dispatch"
          /\ scan' = NoScan

\* Mutant: join looks once, an if for a while.
AfterSchedule_joinsOnce(op) ==
  CASE op = "yield" -> "user"
    [] op = "exit"  -> "returned"
    [] op = "join"  -> "join_value"
    [] op = "lock"  -> "lock_test"

\* Where the caller of schedule() goes on.
AfterSchedule(op) ==
  CASE op = "yield" -> "user"
    [] op = "exit"  -> "returned"
    [] op = "join"  -> "join_test"
    [] op = "lock"  -> "lock_test"

\* A library call of t calls schedule().
CallSchedule(t) ==
  /\ At(t, "schedule")
  /\ EnterSchedule
  /\ Goto(t, AfterSchedule(call[t].op))
  /\ call' = IF call[t].op = "yield" THEN [call EXCEPT ![t] = NoCall] ELSE call
  /\ byTimer' = FALSE
  /\ UNCHANGED <<phase, currentThread, armed, blockVars, aged, mem, flag, holds>>

\* The timer expires and timer_handler() calls schedule() for the running thread.
Tick ==
  /\ phase = "live"
  /\ armed
  /\ inScheduler = 0
  /\ pc[currentThread] \in Preemptible
  /\ armed' = FALSE
  /\ byTimer' = TRUE
  /\ EnterSchedule
  /\ UNCHANGED <<phase, currentThread, blockVars, aged, mem, flag, clientVars>>

\* The timer expires inside a schedule() that a thread called: timer_handler
\* returns and the expiry is lost.  During a handler's own schedule() the
\* signal is masked and the timer, one-shot, is not running.
TickIgnored ==
  /\ phase = "live"
  /\ armed
  /\ inScheduler = 1
  /\ ~byTimer
  /\ armed' = FALSE
  /\ UNCHANGED <<phase, schedulerVars, blockVars, aged, mem, flag, clientVars>>

MaintainNextLevel ==
  /\ sched = "maintenance"
  /\ scan.ptr = NULL
  /\ IF scan.level = RUN_QUEUES - 1
     THEN sched' = "dispatch" /\ scan' = NoScan
     ELSE sched' = "maintenance" /\ scan' = StartOfLevel(mem, scan.level + 1)
  /\ UNCHANGED <<phase, currentThread, inScheduler, maintenanceCycle, byTimer,
                 armed, blockVars, aged, mem, flag, clientVars>>

\* A thread that is not yet old enough is passed over.
MaintainKeep ==
  /\ sched = "maintenance"
  /\ scan.ptr # NULL
  /\ scan.ptr \notin aged
  /\ scan' = [scan EXCEPT !.prev = scan.ptr, !.ptr = mem.next[scan.ptr]]
  /\ UNCHANGED <<phase, currentThread, inScheduler, maintenanceCycle, sched,
                 byTimer, armed, blockVars, aged, mem, flag, clientVars>>

\* Mutant: the thread is put back at the lowest level.
Promoted_staysLow(cut, ptr) ==
  Enqueue([cut EXCEPT !.next[ptr] = NULL], RUN_QUEUES - 1, ptr)

\* The heap after maintenance() has re-queued ptr, already unlinked, at level 0.
Promoted(cut, ptr) == Enqueue([cut EXCEPT !.next[ptr] = NULL], 0, ptr)

\* The thread ptr is past LIFETIME_THRESHOLD, as it then stays.  The round
\* advances ptr once before it re-queues the thread and, if that left a
\* thread, once more at its end.
MaintainPromote ==
  LET cut   == Unlink(mem, scan.level, scan.ptr, scan.prev)
      after == cut.next[scan.ptr]
      h     == Promoted(cut, scan.ptr)
  IN  /\ sched = "maintenance"
      /\ scan.ptr # NULL
      /\ aged' = aged \cup {scan.ptr}
      /\ priority' = [priority EXCEPT ![scan.ptr] = 0]
      /\ mem' = h
      /\ scan' = IF after = NULL
                 THEN [scan EXCEPT !.ptr = NULL]
                 ELSE [scan EXCEPT !.prev = after, !.ptr = h.next[after]]
      /\ UNCHANGED <<phase, currentThread, inScheduler, maintenanceCycle, sched,
                     byTimer, armed, threadState, timeRun, retval, flag, clientVars>>

\* Whole slices the current thread may have run for: the timer expires no
\* earlier than 50 ms after timeStart, a call may come at any time, and the
\* fractions of several calls add up.
Elapsed == IF byTimer THEN 1 .. 2 ELSE 0 .. 1

Ran(t, e) == IF timeRun[t] + e > RUN_QUEUES THEN RUN_QUEUES ELSE timeRun[t] + e

\* The time slice of level p is used up.
Expired(p, run) == run >= p + 1

Demoted(p) == IF p + 1 >= RUN_QUEUES THEN RUN_QUEUES - 1 ELSE p + 1

LeaveSchedule ==
  /\ inScheduler' = 0
  /\ sched' = "idle"
  /\ byTimer' = FALSE
  /\ UNCHANGED <<phase, maintenanceCycle, scan, retval, aged, flag, clientVars>>

\* Mutant: a call of schedule() relies on the timer that is running.
Rearm_onlyAfterTick == armed' = (armed \/ byTimer)

\* Restart the timer; the 50 ms are never over before schedule() is left.
Rearm == armed' = TRUE

\* Nothing is queued and the current thread has exited: schedule() returns to
\* it without restarting the timer.
DispatchLast ==
  /\ sched = "dispatch"
  /\ ~SomeQueued(mem)
  /\ threadState[currentThread] = "EXITED"
  /\ LeaveSchedule
  /\ UNCHANGED <<currentThread, armed, threadState, priority, timeRun, mem>>

\* Nothing is queued: the current thread goes on, its state left as it was.
DispatchAlone(e) ==
  /\ sched = "dispatch"
  /\ ~SomeQueued(mem)
  /\ threadState[currentThread] # "EXITED"
  /\ timeRun' = [timeRun EXCEPT ![currentThread] = Ran(currentThread, e)]
  /\ Rearm
  /\ LeaveSchedule
  /\ UNCHANGED <<currentThread, threadState, priority, mem>>

\* The current thread keeps running.
DispatchKeep(e) ==
  LET t == currentThread
  IN  /\ sched = "dispatch"
      /\ SomeQueued(mem)
      /\ \/ threadState[t] = "QUEUED"
         \/ threadState[t] = "RUNNING" /\ ~Expired(priority[t], Ran(t, e))
      /\ timeRun' = [timeRun EXCEPT ![t] = Ran(t, e)]
      /\ Rearm
      /\ LeaveSchedule
      /\ UNCHANGED <<currentThread, threadState, priority, mem>>

\* getNextThread() on heap h and the switch to the thread it returns, where st
\* are the states after the current thread was put away.
SwitchTo(h, st) ==
  \E i \in Levels :
    LET next == h.queue[i].front
    IN  /\ IsNextLevel(h, i)
        /\ mem' = Dequeue(h, i)
        /\ currentThread' = next
        /\ threadState' = [st EXCEPT ![next] = "RUNNING"]
        /\ Rearm
        /\ LeaveSchedule

\* The current thread t goes to the rear of the run queue of level p.
Requeue(t, p) ==
  /\ priority' = [priority EXCEPT ![t] = p]
  /\ timeRun' = [timeRun EXCEPT ![t] = 0]
  /\ SwitchTo(Enqueue(mem, p, t), [threadState EXCEPT ![t] = "QUEUED"])

\* It yielded, or joins a thread that has not exited: same priority.
DispatchYield ==
  LET t == currentThread
  IN  /\ sched = "dispatch"
      /\ SomeQueued(mem)
      /\ threadState[t] \in {"YIELD", "JOINING"}
      /\ Requeue(t, priority[t])

\* Its time slice is used up: one priority lower.
DispatchExpired(e) ==
  LET t == currentThread
  IN  /\ sched = "dispatch"
      /\ SomeQueued(mem)
      /\ threadState[t] = "RUNNING"
      /\ Expired(priority[t], Ran(t, e))
      /\ Requeue(t, Demoted(priority[t]))

\* It exited: it is in no queue any more, and nothing reads its times again.
DispatchExited ==
  /\ sched = "dispatch"
  /\ SomeQueued(mem)
  /\ threadState[currentThread] = "EXITED"
  /\ SwitchTo(mem, threadState)
  /\ UNCHANGED <<priority, timeRun>>

\* It is blocked, in the wait queue of a mutex.
DispatchBlocked(e) ==
  /\ sched = "dispatch"
  /\ SomeQueued(mem)
  /\ threadState[currentThread] = "BLOCKED"
  /\ timeRun' = [timeRun EXCEPT ![currentThread] = Ran(currentThread, e)]
  /\ SwitchTo(mem, threadState)
  /\ UNCHANGED priority

Dispatch == \/ DispatchLast
            \/ DispatchYield
            \/ DispatchExited
            \/ \E e \in Elapsed : \/ DispatchAlone(e)
                                  \/ DispatchKeep(e)
                                  \/ DispatchExpired(e)
                                  \/ DispatchBlocked(e)

-----------------------------------------------------------------------------
(***************************************************************************)
(* enqueue() as a thread runs it outside schedule(), a statement a step:   *)
(* create for the new thread, lock for the caller, unlock for the waiter.  *)
(***************************************************************************)

EnqueueTest(t) ==
  /\ At(t, "enqueue")
  /\ Goto(t, IF mem.queue[call[t].queue].rear = NULL THEN "enqueue_front"
                                                     ELSE "enqueue_next")
  /\ UNCHANGED <<phase, schedulerVars, armed, blockVars, aged, mem, flag, call, holds>>

EnqueueFront(t) ==
  /\ At(t, "enqueue_front")
  /\ mem' = [mem EXCEPT !.queue[call[t].queue].front = call[t].elem]
  /\ Goto(t, "enqueue_rear")
  /\ UNCHANGED <<phase, schedulerVars, armed, blockVars, aged, flag, call, holds>>

\* q->rear->next = thread, where rear is read again: it may be NULL by now,
\* and the process ends in the paging library's SIGSEGV handler.
EnqueueNext(t) ==
  LET rear == mem.queue[call[t].queue].rear
  IN  /\ At(t, "enqueue_next")
      /\ IF rear = NULL
         THEN phase' = "crashed" /\ UNCHANGED <<mem, pc>>
         ELSE /\ mem' = [mem EXCEPT !.next[rear] = call[t].elem]
              /\ Goto(t, "enqueue_rear")
              /\ UNCHANGED phase
      /\ UNCHANGED <<schedulerVars, armed, blockVars, aged, flag, call, holds>>

EnqueueRear(t) ==
  /\ At(t, "enqueue_rear")
  /\ mem' = [mem EXCEPT !.queue[call[t].queue].rear = call[t].elem]
  /\ CASE call[t].op = "create" -> Return(t)
       [] call[t].op = "lock"   -> /\ Goto(t, "schedule")
                                   /\ Begin(t, "lock", call[t].arg)
       [] call[t].op = "unlock" -> Goto(t, "unlock_flag") /\ UNCHANGED call
  /\ UNCHANGED <<phase, schedulerVars, armed, blockVars, aged, flag, holds>>

-----------------------------------------------------------------------------
(***************************************************************************)
(* my_pthread_create                                                       *)
(***************************************************************************)

\* The first call, by Main: it sets up the scheduler and makes Main its current
\* thread.  The timer starts only at its end, so nothing interrupts it.
FirstCreate(c) ==
  /\ phase = "setup"
  /\ c # Main
  /\ phase' = "live"
  /\ currentThread' = Main
  /\ threadState' = [threadState EXCEPT ![Main] = "RUNNING", ![c] = "QUEUED"]
  /\ mem' = Enqueue(mem, priority[c], c)
  /\ Rearm
  /\ UNCHANGED <<inScheduler, maintenanceCycle, sched, scan, byTimer, priority,
                 timeRun, retval, aged, flag, clientVars>>

\* A later call: the new thread's block is filled in, then enqueued.
Create(t, c) ==
  /\ At(t, "user")
  /\ "create" \in Calls
  /\ threadState[c] = "NEW"
  /\ SetState(c, "QUEUED")
  /\ priority' = [priority EXCEPT ![c] = 0]
  /\ timeRun' = [timeRun EXCEPT ![c] = 0]
  /\ retval' = [retval EXCEPT ![c] = NULL]
  /\ mem' = [mem EXCEPT !.next[c] = NULL]
  /\ call' = [call EXCEPT ![t] = NewCall("create", NULL, c, 0)]
  /\ Goto(t, "enqueue")
  /\ UNCHANGED <<phase, schedulerVars, armed, aged, flag, holds>>

-----------------------------------------------------------------------------
(***************************************************************************)
(* my_pthread_yield, my_pthread_exit and my_pthread_join                   *)
(***************************************************************************)

Yield(t) ==
  /\ At(t, "user")
  /\ "yield" \in Calls
  /\ SetState(t, "YIELD")
  /\ Begin(t, "yield", NULL)
  /\ Goto(t, "schedule")
  /\ UNCHANGED <<phase, schedulerVars, armed, priority, timeRun, retval, aged,
                 mem, flag, holds>>

\* v may be NULL.  A thread that holds a mutex does not exit.
Exit(t, v) ==
  /\ At(t, "user")
  /\ "exit" \in Calls
  /\ holds[t] = {}
  /\ SetState(t, "EXITED")
  /\ Begin(t, "exit", v)
  /\ Goto(t, IF v = NULL THEN "schedule" ELSE "exit_value")
  /\ UNCHANGED <<phase, schedulerVars, armed, priority, timeRun, retval, aged,
                 mem, flag, holds>>

ExitValue(t) ==
  /\ At(t, "exit_value")
  /\ retval' = [retval EXCEPT ![t] = call[t].arg]
  /\ Goto(t, "schedule")
  /\ UNCHANGED <<phase, schedulerVars, armed, threadState, priority, timeRun,
                 aged, mem, flag, call, holds>>

\* u was created before, by anyone.
Join(t, u) ==
  /\ At(t, "user")
  /\ "join" \in Calls
  /\ u # t
  /\ threadState[u] # "NEW"
  /\ SetState(t, "JOINING")
  /\ Begin(t, "join", u)
  /\ Goto(t, "join_test")
  /\ UNCHANGED <<phase, schedulerVars, armed, priority, timeRun, retval, aged,
                 mem, flag, holds>>

\* Mutant: the target counts as exited once it has a value.
JoinTest_waitsForValue(t) ==
  /\ At(t, "join_test")
  /\ Goto(t, IF retval[call[t].arg] # NULL THEN "join_value" ELSE "schedule")
  /\ UNCHANGED <<phase, schedulerVars, armed, blockVars, aged, mem, flag, call, holds>>

\* A thread resumed in the loop finds its own state RUNNING, not JOINING.
JoinTest(t) ==
  /\ At(t, "join_test")
  /\ Goto(t, IF threadState[call[t].arg] = "EXITED" THEN "join_value" ELSE "schedule")
  /\ UNCHANGED <<phase, schedulerVars, armed, blockVars, aged, mem, flag, call, holds>>

JoinValue(t) ==
  /\ At(t, "join_value")
  /\ call' = [call EXCEPT ![t].got = retval[call[t].arg]]
  /\ Goto(t, "join_run")
  /\ UNCHANGED <<phase, schedulerVars, armed, blockVars, aged, mem, flag, holds>>

JoinRun(t) ==
  /\ At(t, "join_run")
  /\ SetState(t, "RUNNING")
  /\ Return(t)
  /\ UNCHANGED <<phase, schedulerVars, armed, priority, timeRun, retval, aged,
                 mem, flag, holds>>

-----------------------------------------------------------------------------
(***************************************************************************)
(* my_pthread_mutex_lock and my_pthread_mutex_unlock                       *)
(***************************************************************************)

Lock(t, m) ==
  /\ At(t, "user")
  /\ "lock" \in Calls
  /\ m \notin holds[t]
  /\ Cardinality(holds[t]) < MaxHeld
  /\ Begin(t, "lock", m)
  /\ Goto(t, "lock_test")
  /\ UNCHANGED <<phase, schedulerVars, armed, blockVars, aged, mem, flag, holds>>

\* Mutant: the flag is tested and not set.
LockTest_doesNotSet(t) ==
  LET m == call[t].arg
  IN  /\ At(t, "lock_test")
      /\ IF flag[m] = 1
         THEN Goto(t, "lock_block") /\ UNCHANGED <<call, holds>>
         ELSE Return(t) /\ holds' = [holds EXCEPT ![t] = @ \cup {m}]
      /\ UNCHANGED <<phase, schedulerVars, armed, blockVars, aged, mem, flag>>

\* __sync_lock_test_and_set
LockTest(t) ==
  LET m == call[t].arg
  IN  /\ At(t, "lock_test")
      /\ flag' = [flag EXCEPT ![m] = 1]
      /\ IF flag[m] = 1
         THEN Goto(t, "lock_block") /\ UNCHANGED <<call, holds>>
         ELSE Return(t) /\ holds' = [holds EXCEPT ![t] = @ \cup {m}]
      /\ UNCHANGED <<phase, schedulerVars, armed, blockVars, aged, mem>>

LockBlock(t) ==
  /\ At(t, "lock_block")
  /\ SetState(t, "BLOCKED")
  /\ call' = [call EXCEPT ![t].elem = t, ![t].queue = call[t].arg]
  /\ Goto(t, "enqueue")
  /\ UNCHANGED <<phase, schedulerVars, armed, priority, timeRun, retval, aged,
                 mem, flag, holds>>

\* Only a thread whose lock returned unlocks.
Unlock(t, m) ==
  /\ At(t, "user")
  /\ "unlock" \in Calls
  /\ m \in holds[t]
  /\ holds' = [holds EXCEPT ![t] = @ \ {m}]
  /\ Begin(t, "unlock", m)
  /\ Goto(t, "unlock_test")
  /\ UNCHANGED <<phase, schedulerVars, armed, blockVars, aged, mem, flag>>

\* Mutant: a queue of one thread is taken for empty.
UnlockTest_missesLast(t) ==
  LET wait == mem.queue[call[t].arg]
  IN  /\ At(t, "unlock_test")
      /\ Goto(t, IF wait.front = wait.rear THEN "unlock_flag" ELSE "dequeue")
      /\ UNCHANGED <<phase, schedulerVars, armed, blockVars, aged, mem, flag, call, holds>>

UnlockTest(t) ==
  /\ At(t, "unlock_test")
  /\ Goto(t, IF mem.queue[call[t].arg].front = NULL THEN "unlock_flag" ELSE "dequeue")
  /\ UNCHANGED <<phase, schedulerVars, armed, blockVars, aged, mem, flag, call, holds>>

\* Mutant: the thread that came last is woken.
DequeueFront_takesRear(t) ==
  LET m    == call[t].arg
      last == mem.queue[m].rear
  IN  /\ At(t, "dequeue")
      /\ mem' = [mem EXCEPT !.queue[m].front = mem.next[@]]
      /\ call' = [call EXCEPT ![t].elem = last]
      /\ Goto(t, "dequeue_next")
      /\ UNCHANGED <<phase, schedulerVars, armed, blockVars, aged, flag, holds>>

\* dequeue() of the wait queue.  An empty queue makes it return NULL, which unlock
\* dereferences.  Lines 158 to 163 are one step: nobody but the holder of the mutex
\* takes from this queue, so front changes in between only if it is NULL.
DequeueFront(t) ==
  LET m     == call[t].arg
      first == mem.queue[m].front
  IN  /\ At(t, "dequeue")
      /\ IF first = NULL
         THEN phase' = "crashed" /\ UNCHANGED <<mem, pc, call>>
         ELSE /\ mem' = [mem EXCEPT !.queue[m].front = mem.next[first]]
              /\ call' = [call EXCEPT ![t].elem = first]
              /\ Goto(t, "dequeue_next")
              /\ UNCHANGED phase
      /\ UNCHANGED <<schedulerVars, armed, blockVars, aged, flag, holds>>

DequeueNext(t) ==
  /\ At(t, "dequeue_next")
  /\ mem' = [mem EXCEPT !.next[call[t].elem] = NULL]
  /\ Goto(t, "dequeue_rear")
  /\ UNCHANGED <<phase, schedulerVars, armed, blockVars, aged, flag, call, holds>>

\* Mutant: rear is kept when the last waiter goes.
DequeueRear_keepsRear(t) ==
  /\ At(t, "dequeue_rear")
  /\ Goto(t, "unlock_state")
  /\ UNCHANGED <<phase, schedulerVars, armed, blockVars, aged, mem, flag, call, holds>>

\* The test of line 166 and the store it guards are one step: that a thread is
\* appended in between, whose rear is lost then, is left out.
DequeueRear(t) ==
  LET m == call[t].arg
  IN  /\ At(t, "dequeue_rear")
      /\ mem' = IF mem.queue[m].front = NULL
                THEN [mem EXCEPT !.queue[m].rear = NULL]
                ELSE mem
      /\ Goto(t, "unlock_state")
      /\ UNCHANGED <<phase, schedulerVars, armed, blockVars, aged, flag, call, holds>>

UnlockState(t) ==
  LET waiter == call[t].elem
  IN  /\ At(t, "unlock_state")
      /\ SetState(waiter, "QUEUED")
      /\ call' = [call EXCEPT ![t].queue = priority[waiter]]
      /\ Goto(t, "enqueue")
      /\ UNCHANGED <<phase, schedulerVars, armed, priority, timeRun, retval, aged,
                     mem, flag, holds>>

UnlockFlag(t) ==
  /\ At(t, "unlock_flag")
  /\ flag' = [flag EXCEPT ![call[t].arg] = 0]
  /\ Return(t)
  /\ UNCHANGED <<phase, schedulerVars, armed, blockVars, aged, mem, holds>>

-----------------------------------------------------------------------------
\* The last thread to exit returns from its function, whose uc_link is NULL, and
\* the process ends.  (It also ends when main returns: it just stops then.)
Finish(t) ==
  /\ At(t, "returned")
  /\ phase' = "ended"
  /\ UNCHANGED <<schedulerVars, armed, blockVars, aged, mem, flag, clientVars>>

\* A process that ended takes no more steps.
Ended == phase \in {"ended", "crashed"} /\ UNCHANGED vars

\* The rest of a library call, after its first statement.
LibraryStep(t) ==
  \/ CallSchedule(t)
  \/ EnqueueTest(t) \/ EnqueueFront(t) \/ EnqueueNext(t) \/ EnqueueRear(t)
  \/ ExitValue(t)
  \/ JoinTest(t) \/ JoinValue(t) \/ JoinRun(t)
  \/ LockTest(t) \/ LockBlock(t)
  \/ UnlockTest(t) \/ DequeueFront(t) \/ DequeueNext(t) \/ DequeueRear(t)
  \/ UnlockState(t) \/ UnlockFlag(t)

ClientStep(t) ==
  \/ \E u \in Threads : Create(t, u) \/ Join(t, u)
  \/ Yield(t)
  \/ \E v \in Values \cup {NULL} : Exit(t, v)
  \/ \E m \in Mutexes : Lock(t, m) \/ Unlock(t, m)
  \/ Finish(t)

SchedulerStep == MaintainNextLevel \/ MaintainKeep \/ MaintainPromote \/ Dispatch

Next ==
  \/ \E c \in Threads : FirstCreate(c)
  \/ \E t \in Threads : LibraryStep(t) \/ ClientStep(t)
  \/ SchedulerStep
  \/ Tick
  \/ TickIgnored
  \/ Ended

Spec == Init /\ [][Next]_vars

(***************************************************************************)
(* A slice of 50 ms is far longer than a library statement, so a thread    *)
(* that is dispatched again and again gets through its call (SF); the body *)
(* of schedule() is never interrupted and an armed timer expires while a   *)
(* thread computes (WF).  The microseconds of a thread that keeps calling  *)
(* schedule() add up to a slice, and a thread that maintenance() examines  *)
(* again and again is old in the end (SF).  The client owes nothing.       *)
(***************************************************************************)
Fairness ==
  /\ \A t \in Threads : SF_vars(LibraryStep(t))
  /\ WF_vars(SchedulerStep)
  /\ WF_vars(Tick)
  /\ SF_vars(\E e \in Elapsed \ {0} : DispatchKeep(e) \/ DispatchExpired(e))
  /\ \A t \in Threads : SF_vars(scan.ptr = t /\ MaintainPromote)

FairSpec == Spec /\ Fairness

-----------------------------------------------------------------------------
CallRecord == [op : Ops \cup {"none"},
               arg : Threads \cup Mutexes \cup Values \cup {NULL},
               elem : ThreadOrNull,
               queue : Queues \cup {NULL},
               got : Values \cup {NULL}]

\* Every variable keeps its type, whatever the timer interrupts.
TypeOK ==
  /\ phase \in {"setup", "live", "ended", "crashed"}
  /\ currentThread \in ThreadOrNull
  /\ inScheduler \in {0, 1}
  /\ maintenanceCycle \in 0 .. (MAINTENANCE_THRESHOLD - 1)
  /\ sched \in {"idle", "maintenance", "dispatch"}
  /\ scan \in [level : Levels, ptr : ThreadOrNull, prev : ThreadOrNull]
  /\ byTimer \in BOOLEAN
  /\ armed \in BOOLEAN
  /\ threadState \in [Threads -> States]
  /\ priority \in [Threads -> Levels]
  /\ timeRun \in [Threads -> 0 .. RUN_QUEUES]
  /\ aged \subseteq Threads
  /\ retval \in [Threads -> Values \cup {NULL}]
  /\ mem \in [next : [Threads -> ThreadOrNull],
              queue : [Queues -> [front : ThreadOrNull, rear : ThreadOrNull]]]
  /\ flag \in [Mutexes -> {0, 1}]
  /\ pc \in [Threads -> PCs]
  /\ call \in [Threads -> CallRecord]
  /\ holds \in [Threads -> SUBSET Mutexes]

-----------------------------------------------------------------------------
\* Thread t is inside my_pthread_mutex_unlock(m), before flag is cleared.
Unlocking(t, m) == call[t].op = "unlock" /\ call[t].arg = m

\* At most one thread is between the return of my_pthread_mutex_lock(m) and the
\* store that clears the flag in my_pthread_mutex_unlock(m), wherever the timer
\* strikes.
MutualExclusion ==
  \A m \in Mutexes : \A t, u \in Threads :
    /\ m \in holds[t] \/ Unlocking(t, m)
    /\ m \in holds[u] \/ Unlocking(u, m)
    => t = u

\* The scheduler never loses its clock: outside schedule() the one-shot timer is
\* running, unless the last thread has exited.  Every path through schedule()
\* has to restart it, also when an expiry was ignored because inScheduler was 1.
TimerArmed ==
  phase = "live" /\ sched = "idle"
    => armed \/ threadState[currentThread] = "EXITED"

-----------------------------------------------------------------------------
\* The list of queue q: its nth element, NULL past the end.
Nth(q) ==
  LET nth[n \in 1 .. Cardinality(Threads)] ==
        IF n = 1 THEN mem.queue[q].front
                 ELSE IF nth[n - 1] = NULL THEN NULL ELSE mem.next[nth[n - 1]]
  IN  nth

\* The threads on it: more steps than threads only meet the same ones again.
Chain(q) == {Nth(q)[n] : n \in 1 .. Cardinality(Threads)} \ {NULL}

\* The list ends at rear, so it has no cycle, and both ends are NULL together.
WellFormed(q) ==
  IF mem.queue[q].front = NULL
  THEN mem.queue[q].rear = NULL
  ELSE /\ mem.queue[q].rear \in Chain(q)
       /\ mem.next[mem.queue[q].rear] = NULL

\* The signal may arrive now.
Interruptible == /\ phase = "live"
                 /\ sched = "idle"
                 /\ pc[currentThread] \in Preemptible

\* What my_pthread_t.h says of the states: a thread that is QUEUED is on the run
\* queue of its priority, one that is BLOCKED is on the wait queue of the mutex
\* it wants, any other is on no queue, and only the current thread is neither of
\* them, new or exited.  A thread missing from its list never runs again.
QueuesMatchStates ==
  Interruptible =>
    /\ \A q \in Queues : WellFormed(q)
    /\ \A t \in Threads :
         {q \in Queues : t \in Chain(q)} =
           CASE threadState[t] = "QUEUED"  -> {priority[t]}
             [] threadState[t] = "BLOCKED" -> {call[t].arg}
             [] OTHER                      -> {}
    /\ \A t \in Threads \ {currentThread} :
         threadState[t] \in {"NEW", "QUEUED", "BLOCKED", "EXITED"}

\* A thread waits for a mutex only while the mutex is taken, or while a thread
\* that was woken for it is on its way to take it: no wake-up is lost.
\* It needs the windows closed: a thread that is switched from between the test of
\* the flag and its own enqueue (line 475) may wait for ever.
NoLostWakeup ==
  Interruptible =>
    \A m \in Mutexes :
      Chain(m) # {} =>
        \/ \E t \in Threads : m \in holds[t] \/ Unlocking(t, m)
        \/ \E t \in Threads : /\ call[t].op = "lock"
                              /\ call[t].arg = m
                              /\ threadState[t] # "BLOCKED"

\* my_pthread_join hands over the value its target passed to my_pthread_exit,
\* NULL if it passed none.
JoinDeliversRetval ==
  \A t \in Threads :
    pc[t] = "join_run" => call[t].got = call[call[t].arg].arg

\* my_pthread_exit returns only in the last thread: "all threads have finished
\* running" is what schedule() prints then.  It fails with the window of line 475
\* open: who waits for a free mutex is in no run queue.
LastExitIsLast ==
  phase = "live" /\ sched = "idle" /\ pc[currentThread] = "returned"
    => \A t \in Threads : threadState[t] \in {"NEW", "EXITED"}

\* Every thread in a run queue is dispatched in the end, although a thread that
\* yields or joins in a loop keeps its high priority: maintenance() promotes
\* whoever it keeps waiting.
QueuedRuns ==
  \A t \in Threads :
    threadState[t] = "QUEUED" ~> currentThread = t \/ phase # "live"

\* A join returns once its target has exited.
JoinReturns ==
  \A t, u \in Threads :
    /\ call[t].op = "join"
    /\ call[t].arg = u
    /\ threadState[u] = "EXITED"
    ~> call[t].op # "join" \/ phase # "live"

=============================================================================

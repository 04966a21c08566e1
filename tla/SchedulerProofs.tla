-------------------------- MODULE SchedulerProofs --------------------------
(***************************************************************************)
(* Theorems about Scheduler for any number of threads, mutexes, levels and *)
(* values, and for any set of points at which the signal may arrive.       *)
(***************************************************************************)
EXTENDS Scheduler, TLAPS

\* A thread that is current once there is one, and schedule() only then.
Current ==
  /\ phase = "setup" => sched = "idle"
  /\ phase # "setup" => currentThread \in Threads
  /\ inScheduler = IF sched = "idle" THEN 0 ELSE 1

EnqueuePCs == {"enqueue", "enqueue_front", "enqueue_next", "enqueue_rear"}

\* The statement a thread is at belongs to the call it is in, and the locals of
\* the call are there when they are used.
CallMatchesPC(t) ==
  /\ call[t].op = "none"   => pc[t] = "user"
  /\ call[t].op = "create" => pc[t] \in EnqueuePCs
  /\ call[t].op = "yield"  => pc[t] = "schedule"
  /\ call[t].op = "exit"   => /\ pc[t] \in {"exit_value", "schedule", "returned"}
                              /\ call[t].arg \in Values \cup {NULL}
  /\ call[t].op = "join"   => /\ pc[t] \in {"join_test", "join_value", "join_run", "schedule"}
                              /\ call[t].arg \in Threads
  /\ call[t].op = "lock"   => /\ pc[t] \in {"lock_test", "lock_block", "schedule"} \cup EnqueuePCs
                              /\ call[t].arg \in Mutexes
  /\ call[t].op = "unlock" => /\ pc[t] \in {"unlock_test", "dequeue", "dequeue_next", "dequeue_rear",
                                            "unlock_state", "unlock_flag"} \cup EnqueuePCs
                              /\ call[t].arg \in Mutexes
  /\ pc[t] \in {"dequeue_next", "dequeue_rear", "unlock_state"} => call[t].elem \in Threads
  /\ pc[t] \in EnqueuePCs => call[t].elem \in Threads /\ call[t].queue \in Queues

CallsMatch == \A t \in Threads : CallMatchesPC(t)

\* TypeOK is inductive together with these two.
TypeInv == TypeOK /\ Current /\ CallsMatch

\* The type of the links.
Heap == [next : [Threads -> ThreadOrNull],
         queue : [Queues -> [front : ThreadOrNull, rear : ThreadOrNull]]]

\* enqueue() keeps the links well typed.
LEMMA EnqueueType ==
  ASSUME NEW h \in Heap, NEW q \in Queues, NEW t \in Threads
  PROVE  Enqueue(h, q, t) \in Heap
BY DEF Heap, Enqueue, ThreadOrNull

\* dequeue() of a queue that is not empty keeps the links well typed.
LEMMA DequeueType ==
  ASSUME NEW h \in Heap, NEW q \in Queues, h.queue[q].front # NULL
  PROVE  Dequeue(h, q) \in Heap
BY DEF Heap, Dequeue, ThreadOrNull

\* What maintenance() does to the list it promotes from keeps the links well typed.
LEMMA UnlinkType ==
  ASSUME NEW h \in Heap, NEW i \in Queues, NEW t \in Threads, NEW p \in ThreadOrNull
  PROVE  Unlink(h, i, t, p) \in Heap
BY ZenonT(30) DEF Heap, Unlink, ThreadOrNull

\* So does a store to a single next, front or rear, a statement of enqueue() or
\* dequeue() that the timer may follow.
LEMMA HeapLinkType ==
  ASSUME NEW h \in Heap, NEW q \in Queues, NEW t \in Threads, NEW e \in ThreadOrNull
  PROVE  /\ [h EXCEPT !.next[t] = e] \in Heap
         /\ [h EXCEPT !.queue[q].front = e] \in Heap
         /\ [h EXCEPT !.queue[q].rear = e] \in Heap
<1>1. [h.next EXCEPT ![t] = e] \in [Threads -> ThreadOrNull]
  BY DEF Heap
<1>2. /\ [h.queue[q] EXCEPT !.front = e] \in [front : ThreadOrNull, rear : ThreadOrNull]
      /\ [h.queue[q] EXCEPT !.rear = e] \in [front : ThreadOrNull, rear : ThreadOrNull]
  BY DEF Heap
<1>3. /\ [h.queue EXCEPT ![q] = [h.queue[q] EXCEPT !.front = e]]
           \in [Queues -> [front : ThreadOrNull, rear : ThreadOrNull]]
      /\ [h.queue EXCEPT ![q] = [h.queue[q] EXCEPT !.rear = e]]
           \in [Queues -> [front : ThreadOrNull, rear : ThreadOrNull]]
  BY <1>2 DEF Heap
<1>. QED BY <1>1, <1>3 DEF Heap

\* A library call starts with well-typed locals.
LEMMA NewCallType ==
  ASSUME NEW n \in Ops \cup {"none"}, NEW x \in Threads \cup Mutexes \cup Values \cup {NULL},
         NEW e \in ThreadOrNull, NEW q \in Queues \cup {NULL}
  PROVE NewCall(n, x, e, q) \in CallRecord
BY DEF NewCall, CallRecord

\* A store to a local of a library call keeps the locals well typed.
LEMMA CallUpdateType ==
  ASSUME NEW c \in CallRecord, NEW e \in ThreadOrNull, NEW q \in Queues \cup {NULL},
         NEW v \in Values \cup {NULL}
  PROVE  /\ [c EXCEPT !.elem = e] \in CallRecord
         /\ [c EXCEPT !.queue = q] \in CallRecord
         /\ [c EXCEPT !.elem = e, !.queue = q] \in CallRecord
         /\ [c EXCEPT !.got = v] \in CallRecord
BY DEF CallRecord

USE ThreadsAssumption, QueuesAssumption, LevelsAssumption, CycleAssumption DEF ThreadOrNull

\* Every step keeps the types.
LEMMA TypeOKStep == ASSUME TypeInv, Next PROVE TypeOK'
<1>. USE DEF TypeInv, TypeOK, schedulerVars, blockVars, clientVars
<1>c. ASSUME NEW t \in Threads, NEW n \in Ops \cup {"none"},
             NEW x \in Threads \cup Mutexes \cup Values \cup {NULL},
             NEW e \in ThreadOrNull, NEW q \in Queues \cup {NULL}
      PROVE  [call EXCEPT ![t] = NewCall(n, x, e, q)] \in [Threads -> CallRecord]
  BY NewCallType
<1>r. ASSUME NEW t \in Threads, Return(t)
      PROVE  call' \in [Threads -> CallRecord] /\ pc' \in [Threads -> PCs]
  BY <1>c, <1>r DEF Return, NoCall, Goto, PCs
<1>m. mem \in Heap
  BY DEF Heap
<1>h. ASSUME mem' \in Heap
      PROVE  mem' \in [next : [Threads -> ThreadOrNull],
                       queue : [Queues -> [front : ThreadOrNull, rear : ThreadOrNull]]]
  BY <1>h DEF Heap
<1>z. 0 \in Levels /\ Levels \subseteq Queues /\ Mutexes \subseteq Queues
  BY DEF Levels, Queues
<1>s. ASSUME EnterSchedule
      PROVE  /\ inScheduler' \in {0, 1}
             /\ maintenanceCycle' \in 0 .. (MAINTENANCE_THRESHOLD - 1)
             /\ sched' \in {"idle", "maintenance", "dispatch"}
             /\ scan' \in [level : Levels, ptr : ThreadOrNull, prev : ThreadOrNull]
  <2>1. 1 \in Levels
    BY DEF Levels
  <2>2. mem.queue[1].front \in ThreadOrNull
    BY <2>1, <1>z
  <2>. QED BY <1>s, <1>z, <2>1, <2>2 DEF EnterSchedule, StartOfLevel, NoScan
<1>1. ASSUME NEW t \in Threads, FirstCreate(t) PROVE TypeOK'
  <2>1. mem' \in Heap
    BY <1>1, <1>m, <1>z, EnqueueType DEF FirstCreate
  <2>. QED BY <1>1, <1>h, <2>1 DEF FirstCreate, Rearm, States
<1>2. ASSUME NEW t \in Threads, NEW u \in Threads, Create(t, u) PROVE TypeOK'
  <2>1. mem' \in Heap
    BY <1>2, <1>m, <1>z, HeapLinkType DEF Create
  <2>2. call' \in [Threads -> CallRecord]
    BY <1>2, <1>c, <1>z DEF Create, Ops
  <2>3. pc' = [pc EXCEPT ![t] = "enqueue"]
    BY <1>2 DEF Create, Goto
  <2>4. pc' \in [Threads -> PCs]
    BY <2>3 DEF PCs
  <2>5. /\ threadState' = [threadState EXCEPT ![u] = "QUEUED"]
        /\ priority' = [priority EXCEPT ![u] = 0]
        /\ timeRun' = [timeRun EXCEPT ![u] = 0]
        /\ retval' = [retval EXCEPT ![u] = NULL]
        /\ UNCHANGED <<phase, schedulerVars, armed, aged, flag, holds>>
    BY <1>2 DEF Create, SetState
  <2>. QED BY <1>h, <1>z, <2>1, <2>2, <2>4, <2>5 DEF States
<1>3. ASSUME NEW t \in Threads, Yield(t) PROVE TypeOK'
  <2>1. call' \in [Threads -> CallRecord]
    BY <1>3, <1>c DEF Yield, Begin, Ops
  <2>. QED BY <1>3, <2>1, ZenonT(30) DEF Yield, SetState, States, Goto, PCs
<1>4. ASSUME NEW t \in Threads, NEW v \in Values \cup {NULL}, Exit(t, v) PROVE TypeOK'
  <2>1. call' \in [Threads -> CallRecord]
    BY <1>4, <1>c DEF Exit, Begin, Ops
  <2>. QED BY <1>4, <2>1, ZenonT(30) DEF Exit, SetState, States, Goto, PCs
<1>5. ASSUME NEW t \in Threads, ExitValue(t) PROVE TypeOK'
  <2>1. call[t].op = "exit" /\ call[t].arg \in Values \cup {NULL}
    BY <1>5 DEF ExitValue, At, CallsMatch, CallMatchesPC, CallRecord, Ops, EnqueuePCs
  <2>. QED BY <1>5, <2>1 DEF ExitValue, Goto, PCs
<1>6. ASSUME NEW t \in Threads, NEW u \in Threads, Join(t, u) PROVE TypeOK'
  <2>1. call' \in [Threads -> CallRecord]
    BY <1>6, <1>c DEF Join, Begin, Ops
  <2>. QED BY <1>6, <2>1, ZenonT(30) DEF Join, SetState, States, Goto, PCs
<1>7. ASSUME NEW t \in Threads, JoinTest(t) PROVE TypeOK'
  BY <1>7 DEF JoinTest, Goto, PCs
<1>8. ASSUME NEW t \in Threads, JoinValue(t) PROVE TypeOK'
  <2>1. call[t].op = "join" /\ call[t].arg \in Threads
    BY <1>8 DEF JoinValue, At, CallsMatch, CallMatchesPC, CallRecord, Ops, EnqueuePCs
  <2>2. retval[call[t].arg] \in Values \cup {NULL}
    BY <2>1
  <2>3. call' \in [Threads -> CallRecord]
    BY <1>8, <2>2, CallUpdateType DEF JoinValue
  <2>. QED BY <1>8, <2>3 DEF JoinValue, Goto, PCs
<1>9. ASSUME NEW t \in Threads, JoinRun(t) PROVE TypeOK'
  BY <1>9, <1>r DEF JoinRun, SetState, States
<1>10. ASSUME NEW t \in Threads, NEW m \in Mutexes, Lock(t, m) PROVE TypeOK'
  <2>1. call' \in [Threads -> CallRecord]
    BY <1>10, <1>c DEF Lock, Begin, Ops
  <2>. QED BY <1>10, <2>1, ZenonT(30) DEF Lock, Goto, PCs
<1>11. ASSUME NEW t \in Threads, LockTest(t) PROVE TypeOK'
  <2>1. call[t].arg \in Mutexes
    BY <1>11 DEF LockTest, At, CallsMatch, CallMatchesPC, CallRecord, Ops, EnqueuePCs
  <2>2. call' \in [Threads -> CallRecord] /\ pc' \in [Threads -> PCs]
    BY <1>11, <1>r DEF LockTest, Goto, PCs
  <2>. QED BY <1>11, <2>1, <2>2 DEF LockTest
<1>12. ASSUME NEW t \in Threads, LockBlock(t) PROVE TypeOK'
  <2>1. call[t].arg \in Mutexes
    BY <1>12 DEF LockBlock, At, CallsMatch, CallMatchesPC, CallRecord, Ops, EnqueuePCs
  <2>2. call' \in [Threads -> CallRecord]
    BY <1>12, <1>z, <2>1, CallUpdateType DEF LockBlock
  <2>. QED BY <1>12, <2>2 DEF LockBlock, SetState, States, Goto, PCs
<1>13. ASSUME NEW t \in Threads, NEW m \in Mutexes, Unlock(t, m) PROVE TypeOK'
  <2>1. call' \in [Threads -> CallRecord]
    BY <1>13, <1>c DEF Unlock, Begin, Ops
  <2>. QED BY <1>13, <2>1, ZenonT(30) DEF Unlock, Goto, PCs
<1>14. ASSUME NEW t \in Threads, UnlockTest(t) PROVE TypeOK'
  BY <1>14 DEF UnlockTest, Goto, PCs
<1>15. ASSUME NEW t \in Threads, DequeueFront(t) PROVE TypeOK'
  <2>1. call[t].arg \in Queues
    BY <1>15, <1>z DEF DequeueFront, At, CallsMatch, CallMatchesPC, CallRecord, Ops, EnqueuePCs
  <2>. DEFINE first == mem.queue[call[t].arg].front
  <2>2. CASE first = NULL
    BY <1>15, <2>2 DEF DequeueFront
  <2>3. CASE first # NULL
    <3>1. first \in Threads /\ mem.next[first] \in ThreadOrNull
      BY <2>1, <2>3
    <3>2. /\ mem' = [mem EXCEPT !.queue[call[t].arg].front = mem.next[first]]
          /\ call' = [call EXCEPT ![t].elem = first]
          /\ pc' = [pc EXCEPT ![t] = "dequeue_next"]
          /\ UNCHANGED <<phase, schedulerVars, armed, blockVars, aged, flag, holds>>
      BY <1>15, <2>3 DEF DequeueFront, Goto
    <3>3. mem' \in Heap
      BY <1>m, <2>1, <3>1, <3>2, HeapLinkType
    <3>4. call' \in [Threads -> CallRecord]
      <4>1. call[t] \in CallRecord
        OBVIOUS
      <4>2. [call[t] EXCEPT !.elem = first] \in CallRecord
        BY <3>1, <4>1, CallUpdateType
      <4>. QED BY <3>2, <4>2
    <3>. QED BY <1>h, <3>2, <3>3, <3>4, ZenonT(30) DEF PCs
  <2>. QED BY <2>2, <2>3
<1>16. ASSUME NEW t \in Threads, DequeueNext(t) PROVE TypeOK'
  <2>1. call[t].elem \in Threads
    BY <1>16 DEF DequeueNext, At, CallsMatch, CallMatchesPC
  <2>2. mem' \in Heap
    BY <1>16, <1>m, <1>z, <2>1, HeapLinkType DEF DequeueNext
  <2>. QED BY <1>16, <1>h, <2>2, ZenonT(30) DEF DequeueNext, Goto, PCs
<1>17. ASSUME NEW t \in Threads, DequeueRear(t) PROVE TypeOK'
  <2>1. call[t].arg \in Queues
    BY <1>17, <1>z DEF DequeueRear, At, CallsMatch, CallMatchesPC, CallRecord, Ops, EnqueuePCs
  <2>2. mem' \in Heap
    BY <1>17, <1>m, <2>1, HeapLinkType DEF DequeueRear
  <2>. QED BY <1>17, <1>h, <2>2, ZenonT(30) DEF DequeueRear, Goto, PCs
<1>18. ASSUME NEW t \in Threads, UnlockState(t) PROVE TypeOK'
  <2>1. call[t].elem \in Threads
    BY <1>18 DEF UnlockState, At, CallsMatch, CallMatchesPC
  <2>2. call' \in [Threads -> CallRecord]
    BY <1>18, <1>z, <2>1, CallUpdateType DEF UnlockState
  <2>. QED BY <1>18, <2>2, ZenonT(30) DEF UnlockState, SetState, States, Goto, PCs
<1>19. ASSUME NEW t \in Threads, UnlockFlag(t) PROVE TypeOK'
  BY <1>19, <1>r DEF UnlockFlag
<1>20. ASSUME NEW t \in Threads, EnqueueTest(t) PROVE TypeOK'
  BY <1>20 DEF EnqueueTest, Goto, PCs
<1>e. ASSUME NEW t \in Threads, pc[t] \in EnqueuePCs
      PROVE  call[t].queue \in Queues /\ call[t].elem \in Threads
  BY <1>e DEF CallsMatch, CallMatchesPC
<1>21. ASSUME NEW t \in Threads, EnqueueFront(t) PROVE TypeOK'
  <2>1. mem' \in Heap
    BY <1>21, <1>m, <1>e, HeapLinkType DEF EnqueueFront, At, EnqueuePCs
  <2>. QED BY <1>21, <1>h, <2>1, ZenonT(30) DEF EnqueueFront, Goto, PCs
<1>22. ASSUME NEW t \in Threads, EnqueueNext(t) PROVE TypeOK'
  <2>. DEFINE rear == mem.queue[call[t].queue].rear
  <2>1. CASE rear = NULL
    BY <1>22, <2>1 DEF EnqueueNext
  <2>2. CASE rear # NULL
    <3>1. rear \in Threads /\ call[t].elem \in Threads
      BY <1>22, <1>e, <2>2 DEF EnqueueNext, At, EnqueuePCs
    <3>2. /\ mem' = [mem EXCEPT !.next[rear] = call[t].elem]
          /\ pc' = [pc EXCEPT ![t] = "enqueue_rear"]
          /\ UNCHANGED <<phase, schedulerVars, armed, blockVars, aged, flag, call, holds>>
      BY <1>22, <2>2 DEF EnqueueNext, Goto
    <3>3. mem' \in Heap
      BY <1>m, <1>z, <3>1, <3>2, HeapLinkType
    <3>. QED BY <1>h, <3>2, <3>3, ZenonT(30) DEF PCs
  <2>. QED BY <2>1, <2>2
<1>23. ASSUME NEW t \in Threads, EnqueueRear(t) PROVE TypeOK'
  <2>1. mem' \in Heap
    BY <1>23, <1>m, <1>e, HeapLinkType DEF EnqueueRear, At, EnqueuePCs
  <2>2. call[t].op \in {"create", "lock", "unlock"}
    BY <1>23 DEF EnqueueRear, At, CallsMatch, CallMatchesPC, CallRecord, Ops
  <2>3. call[t].arg \in Threads \cup Mutexes \cup Values \cup {NULL}
    BY DEF CallRecord
  <2>4. CASE call[t].op = "create"
    <3>1. Return(t)
      BY <1>23, <2>4 DEF EnqueueRear
    <3>. QED BY <1>23, <1>h, <1>r, <2>1, <3>1, ZenonT(30) DEF EnqueueRear
  <2>5. CASE call[t].op = "lock"
    <3>1. Goto(t, "schedule") /\ Begin(t, "lock", call[t].arg)
      BY <1>23, <2>5 DEF EnqueueRear
    <3>2. call' \in [Threads -> CallRecord]
      BY <1>c, <2>3, <3>1 DEF Begin, Ops
    <3>. QED BY <1>23, <1>h, <2>1, <3>1, <3>2, ZenonT(30) DEF EnqueueRear, Goto, PCs
  <2>6. CASE call[t].op = "unlock"
    <3>1. Goto(t, "unlock_flag") /\ UNCHANGED call
      BY <1>23, <2>6 DEF EnqueueRear
    <3>. QED BY <1>23, <1>h, <2>1, <3>1, ZenonT(30) DEF EnqueueRear, Goto, PCs
  <2>. QED BY <2>2, <2>4, <2>5, <2>6
<1>24. ASSUME NEW t \in Threads, CallSchedule(t) PROVE TypeOK'
  <2>1. call[t].op \in {"yield", "exit", "join", "lock"}
    BY <1>24 DEF CallSchedule, At, CallsMatch, CallMatchesPC, CallRecord, Ops, EnqueuePCs
  <2>2. AfterSchedule(call[t].op) \in PCs
    BY <2>1 DEF AfterSchedule, PCs
  <2>3. call' \in [Threads -> CallRecord]
    BY <1>24, <1>c DEF CallSchedule, NoCall
  <2>. QED BY <1>24, <1>s, <2>2, <2>3 DEF CallSchedule, Goto
<1>25. ASSUME NEW t \in Threads, Finish(t) PROVE TypeOK'
  BY <1>25 DEF Finish
<1>26. CASE Tick
  BY <1>26, <1>s DEF Tick
<1>27. CASE TickIgnored
  BY <1>27 DEF TickIgnored
<1>28. CASE MaintainNextLevel
  <2>1. CASE scan.level = RUN_QUEUES - 1
    BY <1>28, <1>z, <2>1 DEF MaintainNextLevel, NoScan
  <2>2. CASE scan.level # RUN_QUEUES - 1
    <3>1. scan.level + 1 \in Levels
      <4>1. scan.level \in 0 .. (RUN_QUEUES - 1)
        BY DEF Levels
      <4>2. ASSUME NEW i \in 0 .. (RUN_QUEUES - 1), i # RUN_QUEUES - 1
            PROVE  i + 1 \in 0 .. (RUN_QUEUES - 1)
        BY <4>2
      <4>. QED BY <2>2, <4>1, <4>2 DEF Levels
    <3>2. mem.queue[scan.level + 1].front \in ThreadOrNull
      BY <1>z, <3>1
    <3>. QED BY <1>28, <2>2, <3>1, <3>2 DEF MaintainNextLevel, StartOfLevel
  <2>. QED BY <2>1, <2>2
<1>29. CASE MaintainKeep
  BY <1>29 DEF MaintainKeep
<1>30. CASE MaintainPromote
  <2>. DEFINE cut   == Unlink(mem, scan.level, scan.ptr, scan.prev)
              after == cut.next[scan.ptr]
              clear == [cut EXCEPT !.next[scan.ptr] = NULL]
  <2>1. scan.ptr \in Threads /\ scan.prev \in ThreadOrNull /\ scan.level \in Queues
    BY <1>30, <1>z DEF MaintainPromote
  <2>2. cut \in Heap
    BY <1>m, <2>1, UnlinkType
  <2>3. after \in ThreadOrNull
    BY <2>1, <2>2 DEF Heap
  <2>4. clear \in Heap
    BY <1>z, <2>1, <2>2, HeapLinkType
  <2>5. mem' \in Heap
    BY <1>30, <1>z, <2>1, <2>4, EnqueueType DEF MaintainPromote, Promoted
  <2>6. scan' \in [level : Levels, ptr : ThreadOrNull, prev : ThreadOrNull]
    <3>1. CASE after = NULL
      BY <1>30, <3>1 DEF MaintainPromote
    <3>2. CASE after # NULL
      <4>1. mem'.next[after] \in ThreadOrNull
        BY <2>3, <2>5, <3>2 DEF Heap
      <4>2. scan' = [scan EXCEPT !.prev = after, !.ptr = mem'.next[after]]
        BY <1>30, <3>2 DEF MaintainPromote
      <4>. QED BY <2>3, <4>1, <4>2
    <3>. QED BY <3>1, <3>2
  <2>. QED BY <1>30, <1>h, <1>z, <2>1, <2>5, <2>6 DEF MaintainPromote
<1>31. CASE Dispatch
  <2>. DEFINE t == currentThread
  <2>l. ASSUME LeaveSchedule
        PROVE  /\ inScheduler' \in {0, 1}
               /\ sched' \in {"idle", "maintenance", "dispatch"}
               /\ byTimer' \in BOOLEAN
               /\ UNCHANGED <<phase, maintenanceCycle, scan, retval, aged, flag, clientVars>>
    BY <2>l DEF LeaveSchedule
  <2>c. t \in Threads
    BY <1>31 DEF Current, Dispatch, DispatchLast, DispatchAlone, DispatchYield, DispatchExited,
                 DispatchKeep, DispatchExpired, DispatchBlocked
  <2>e. ASSUME NEW e \in Elapsed
        PROVE  Ran(t, e) \in 0 .. RUN_QUEUES
    BY <2>c, <2>e DEF Elapsed, Ran
  <2>w. ASSUME NEW h \in Heap, NEW st \in [Threads -> States], SwitchTo(h, st)
        PROVE  /\ mem' \in Heap
               /\ currentThread' \in Threads
               /\ threadState' \in [Threads -> States]
               /\ armed' \in BOOLEAN
               /\ LeaveSchedule
    <3>1. PICK i \in Levels :
            LET next == h.queue[i].front
            IN  /\ IsNextLevel(h, i)
                /\ mem' = Dequeue(h, i)
                /\ currentThread' = next
                /\ threadState' = [st EXCEPT ![next] = "RUNNING"]
                /\ Rearm
                /\ LeaveSchedule
      BY <2>w DEF SwitchTo
    <3>2. h.queue[i].front \in Threads
      BY <1>z, <3>1 DEF IsNextLevel, Heap
    <3>3. mem' \in Heap
      BY <1>z, <3>1, <3>2, DequeueType
    <3>. QED BY <3>1, <3>2, <3>3 DEF Rearm, States
  <2>q. ASSUME NEW p \in Levels, Requeue(t, p) PROVE TypeOK'
    <3>1. Enqueue(mem, p, t) \in Heap
      BY <1>m, <1>z, <2>c, EnqueueType
    <3>2. [threadState EXCEPT ![t] = "QUEUED"] \in [Threads -> States]
      BY DEF States
    <3>3. SwitchTo(Enqueue(mem, p, t), [threadState EXCEPT ![t] = "QUEUED"])
      BY <2>q DEF Requeue
    <3>4. /\ priority' = [priority EXCEPT ![t] = p]
          /\ timeRun' = [timeRun EXCEPT ![t] = 0]
      BY <2>q DEF Requeue
    <3>5. priority' \in [Threads -> Levels] /\ timeRun' \in [Threads -> 0 .. RUN_QUEUES]
      <4>1. 0 \in 0 .. RUN_QUEUES
        OBVIOUS
      <4>2. [timeRun EXCEPT ![t] = 0] \in [Threads -> 0 .. RUN_QUEUES]
        BY <4>1
      <4>. QED BY <3>4, <4>2
    <3>. QED BY <1>h, <2>l, <2>w, <3>1, <3>2, <3>3, <3>5
  <2>1. CASE DispatchLast
    BY <2>1, <2>l DEF DispatchLast
  <2>2. ASSUME NEW e \in Elapsed, DispatchAlone(e) PROVE TypeOK'
    BY <2>2, <2>l, <2>e DEF DispatchAlone, Rearm
  <2>3. ASSUME NEW e \in Elapsed, DispatchKeep(e) PROVE TypeOK'
    BY <2>3, <2>l, <2>e DEF DispatchKeep, Rearm
  <2>4. CASE DispatchYield
    BY <2>4, <2>c, <2>q DEF DispatchYield
  <2>5. ASSUME NEW e \in Elapsed, DispatchExpired(e) PROVE TypeOK'
    <3>1. Demoted(priority[t]) \in Levels
      BY <2>c DEF Demoted, Levels
    <3>. QED BY <2>5, <2>q, <3>1 DEF DispatchExpired
  <2>6. CASE DispatchExited
    BY <2>6, <1>m, <1>h, <2>l, <2>w DEF DispatchExited
  <2>7. ASSUME NEW e \in Elapsed, DispatchBlocked(e) PROVE TypeOK'
    BY <2>7, <1>m, <1>h, <2>l, <2>w, <2>e DEF DispatchBlocked
  <2>. QED BY <1>31, <2>1, <2>2, <2>3, <2>4, <2>5, <2>6, <2>7 DEF Dispatch
<1>32. CASE Ended
  BY <1>32 DEF Ended, vars
<1>. QED
  BY <1>1, <1>2, <1>3, <1>4, <1>5, <1>6, <1>7, <1>8, <1>9, <1>10, <1>11, <1>12, <1>13, <1>14,
     <1>15, <1>16, <1>17, <1>18, <1>19, <1>20, <1>21, <1>22, <1>23, <1>24, <1>25, <1>26, <1>27,
     <1>28, <1>29, <1>30, <1>31, <1>32 DEF Next, LibraryStep, ClientStep, SchedulerStep

\* The call a thread is in, read off its next statement.
LEMMA OpAt ==
  ASSUME TypeInv, NEW t \in Threads
  PROVE  /\ pc[t] = "exit_value" => call[t].op = "exit"
         /\ pc[t] \in {"join_test", "join_value", "join_run"} => call[t].op = "join"
         /\ pc[t] \in {"lock_test", "lock_block"} => call[t].op = "lock"
         /\ pc[t] \in {"unlock_test", "dequeue", "dequeue_next", "dequeue_rear",
                       "unlock_state", "unlock_flag"} => call[t].op = "unlock"
         /\ pc[t] \in EnqueuePCs => call[t].op \in {"create", "lock", "unlock"}
         /\ pc[t] = "schedule" => call[t].op \in {"yield", "exit", "join", "lock"}
         /\ pc[t] = "returned" => call[t].op = "exit"
         /\ pc[t] = "user" => call[t].op = "none"
<1>1. call[t].op \in Ops \cup {"none"}
  BY DEF TypeInv, TypeOK, CallRecord
<1>2. CallMatchesPC(t)
  BY DEF TypeInv, CallsMatch
<1>. QED BY <1>1, <1>2 DEF CallMatchesPC, Ops, EnqueuePCs

\* Every step keeps a current thread, and inScheduler set in schedule() only.
LEMMA CurrentStep == ASSUME TypeInv, Next PROVE Current'
<1>. USE DEF TypeInv, Current, At, schedulerVars, blockVars, clientVars
<1>1. ASSUME NEW t \in Threads, FirstCreate(t) PROVE Current'
  BY <1>1 DEF FirstCreate
<1>2. ASSUME NEW t \in Threads, LibraryStep(t) PROVE Current'
  <2>1. CASE CallSchedule(t)
    BY <2>1 DEF CallSchedule, EnterSchedule
  <2>2. CASE DequeueFront(t) \/ EnqueueNext(t)
    BY <2>2 DEF DequeueFront, EnqueueNext
  <2>. QED
    BY <1>2, <2>1, <2>2 DEF LibraryStep, EnqueueTest, EnqueueFront, EnqueueRear, ExitValue, JoinTest,
       JoinValue, JoinRun, LockTest, LockBlock, UnlockTest, DequeueNext, DequeueRear, UnlockState,
       UnlockFlag
<1>3. ASSUME NEW t \in Threads, ClientStep(t) PROVE Current'
  BY <1>3 DEF ClientStep, Create, Join, Yield, Exit, Lock, Unlock, Finish
<1>4. CASE SchedulerStep
  <2>1. CASE MaintainNextLevel \/ MaintainKeep \/ MaintainPromote
    BY <2>1 DEF MaintainNextLevel, MaintainKeep, MaintainPromote
  <2>2. CASE Dispatch
    <3>1. ASSUME NEW h, NEW st, SwitchTo(h, st)
          PROVE  LeaveSchedule /\ (h \in Heap => currentThread' \in Threads)
      BY <3>1 DEF SwitchTo, IsNextLevel, Heap, Queues
    <3>2. mem \in Heap
      BY DEF TypeOK, Heap
    <3>3. phase # "setup" /\ currentThread \in Threads
      BY <2>2 DEF Dispatch, DispatchLast, DispatchAlone, DispatchYield, DispatchExited,
                  DispatchKeep, DispatchExpired, DispatchBlocked
    <3>4. LeaveSchedule => inScheduler' = 0 /\ sched' = "idle" /\ phase' = phase
      BY DEF LeaveSchedule
    <3>5. LeaveSchedule /\ currentThread' \in Threads
      <4>1. ASSUME NEW p \in Levels, Requeue(currentThread, p)
            PROVE  LeaveSchedule /\ currentThread' \in Threads
        <5>1. Enqueue(mem, p, currentThread) \in Heap
          BY <3>2, <3>3, EnqueueType DEF Queues
        <5>. QED BY <3>1, <4>1, <5>1 DEF Requeue
      <4>2. CASE DispatchLast
        BY <3>3, <4>2 DEF DispatchLast
      <4>3. CASE DispatchYield
        BY <3>3, <4>1, <4>3 DEF DispatchYield, TypeOK
      <4>4. CASE DispatchExited
        BY <3>1, <3>2, <4>4 DEF DispatchExited
      <4>5. ASSUME NEW e \in Elapsed, DispatchAlone(e) \/ DispatchKeep(e)
            PROVE  LeaveSchedule /\ currentThread' \in Threads
        BY <3>3, <4>5 DEF DispatchAlone, DispatchKeep
      <4>6. ASSUME NEW e \in Elapsed, DispatchExpired(e)
            PROVE  LeaveSchedule /\ currentThread' \in Threads
        <5>1. Demoted(priority[currentThread]) \in Levels
          BY <3>3 DEF Demoted, Levels, TypeOK
        <5>. QED BY <4>1, <4>6, <5>1 DEF DispatchExpired
      <4>7. ASSUME NEW e \in Elapsed, DispatchBlocked(e)
            PROVE  LeaveSchedule /\ currentThread' \in Threads
        BY <3>1, <3>2, <4>7 DEF DispatchBlocked
      <4>. QED BY <2>2, <4>2, <4>3, <4>4, <4>5, <4>6, <4>7 DEF Dispatch
    <3>. QED BY <3>3, <3>4, <3>5
  <2>. QED BY <1>4, <2>1, <2>2 DEF SchedulerStep
<1>5. CASE Tick
  BY <1>5 DEF Tick, EnterSchedule
<1>6. CASE TickIgnored
  BY <1>6 DEF TickIgnored
<1>7. CASE Ended
  BY <1>7 DEF Ended, vars
<1>. QED BY <1>1, <1>2, <1>3, <1>4, <1>5, <1>6, <1>7 DEF Next

\* Every step leaves each thread at a statement of the call it is in.
LEMMA CallsMatchStep == ASSUME TypeInv, Next PROVE CallsMatch'
<1>. USE DEF CallsMatch, At
<1>t. /\ call \in [Threads -> CallRecord] /\ pc \in [Threads -> PCs]
      /\ mem \in Heap /\ priority \in [Threads -> Levels]
      /\ CallsMatch
  BY DEF TypeInv, TypeOK, Heap
<1>k. ASSUME UNCHANGED <<pc, call>> PROVE CallsMatch'
  BY <1>t, <1>k DEF CallMatchesPC
<1>r. ASSUME NEW t \in Threads, Return(t) PROVE CallsMatch'
  BY <1>r, <1>t DEF Return, NoCall, NewCall, Goto, CallMatchesPC, EnqueuePCs
\* Thread t moves on inside its call.
<1>g. ASSUME NEW t \in Threads, CallMatchesPC(t)',
             \A u \in Threads \ {t} : pc'[u] = pc[u] /\ call'[u] = call[u]
      PROVE  CallsMatch'
  BY <1>g, <1>t DEF CallMatchesPC
<1>1. ASSUME NEW t \in Threads, FirstCreate(t) PROVE CallsMatch'
  BY <1>1, <1>k DEF FirstCreate, clientVars
<1>2. ASSUME NEW t \in Threads, LibraryStep(t) PROVE CallsMatch'
  <2>1. CASE ExitValue(t)
    BY <1>t, <1>g, <2>1, OpAt DEF ExitValue, Goto, CallMatchesPC, CallRecord, EnqueuePCs
  <2>2. CASE JoinTest(t)
    BY <1>t, <1>g, <2>2, OpAt DEF JoinTest, Goto, CallMatchesPC, CallRecord, EnqueuePCs
  <2>3. CASE JoinValue(t)
    BY <1>t, <1>g, <2>3, OpAt DEF JoinValue, Goto, CallMatchesPC, CallRecord, EnqueuePCs
  <2>4. CASE JoinRun(t)
    BY <1>r, <2>4 DEF JoinRun
  <2>5. CASE LockTest(t)
    BY <1>t, <1>g, <2>5, OpAt DEF LockTest, Goto, CallMatchesPC, CallRecord, EnqueuePCs, Return, NoCall, NewCall
  <2>6. CASE LockBlock(t)
    <3>1. call[t].op = "lock" /\ call[t].arg \in Mutexes
      BY <1>t, <2>6, OpAt DEF LockBlock, CallMatchesPC
    <3>2. /\ call' = [call EXCEPT ![t] = [call[t] EXCEPT !.elem = t, !.queue = call[t].arg]]
          /\ pc' = [pc EXCEPT ![t] = "enqueue"]
      BY <2>6 DEF LockBlock, Goto
    <3>3. /\ call'[t].op = "lock" /\ call'[t].arg \in Mutexes
          /\ call'[t].elem = t /\ call'[t].queue = call[t].arg
      BY <1>t, <3>1, <3>2 DEF CallRecord
    <3>. QED BY <1>t, <1>g, <3>1, <3>2, <3>3 DEF CallMatchesPC, EnqueuePCs, Queues
  <2>7. CASE UnlockTest(t)
    BY <1>t, <1>g, <2>7, OpAt DEF UnlockTest, Goto, CallMatchesPC, CallRecord, EnqueuePCs
  <2>8. CASE DequeueFront(t)
    <3>. DEFINE first == mem.queue[call[t].arg].front
    <3>1. call[t].op = "unlock" /\ call[t].arg \in Mutexes
      BY <1>t, <2>8, OpAt DEF DequeueFront, CallMatchesPC
    <3>2. CASE first = NULL
      BY <1>k, <2>8, <3>2 DEF DequeueFront
    <3>3. CASE first # NULL
      <4>1. first \in Threads
        BY <1>t, <3>1, <3>3 DEF Heap, Queues
      <4>2. /\ call' = [call EXCEPT ![t] = [call[t] EXCEPT !.elem = first]]
            /\ pc' = [pc EXCEPT ![t] = "dequeue_next"]
        BY <2>8, <3>3 DEF DequeueFront, Goto
      <4>3. call'[t].op = "unlock" /\ call'[t].arg \in Mutexes /\ call'[t].elem = first
        BY <1>t, <3>1, <4>2 DEF CallRecord
      <4>. QED BY <1>t, <1>g, <4>1, <4>2, <4>3 DEF CallMatchesPC, EnqueuePCs
    <3>. QED BY <3>2, <3>3
  <2>9. CASE DequeueNext(t)
    BY <1>t, <1>g, <2>9, OpAt DEF DequeueNext, Goto, CallMatchesPC, CallRecord, EnqueuePCs
  <2>10. CASE DequeueRear(t)
    BY <1>t, <1>g, <2>10, OpAt DEF DequeueRear, Goto, CallMatchesPC, CallRecord, EnqueuePCs
  <2>11. CASE UnlockState(t)
    <3>1. call[t].op = "unlock" /\ call[t].arg \in Mutexes /\ call[t].elem \in Threads
      BY <1>t, <2>11, OpAt DEF UnlockState, CallMatchesPC
    <3>2. /\ call' = [call EXCEPT ![t] = [call[t] EXCEPT !.queue = priority[call[t].elem]]]
          /\ pc' = [pc EXCEPT ![t] = "enqueue"]
      BY <2>11 DEF UnlockState, Goto
    <3>3. /\ call'[t].op = "unlock" /\ call'[t].arg \in Mutexes
          /\ call'[t].elem \in Threads /\ call'[t].queue \in Levels
      BY <1>t, <3>1, <3>2 DEF CallRecord
    <3>. QED BY <1>t, <1>g, <3>2, <3>3 DEF CallMatchesPC, EnqueuePCs, Queues
  <2>12. CASE UnlockFlag(t)
    BY <1>r, <2>12 DEF UnlockFlag
  <2>13. CASE EnqueueTest(t)
    BY <1>t, <1>g, <2>13, OpAt DEF EnqueueTest, Goto, CallMatchesPC, CallRecord, EnqueuePCs
  <2>14. CASE EnqueueFront(t)
    BY <1>t, <1>g, <2>14, OpAt DEF EnqueueFront, Goto, CallMatchesPC, CallRecord, EnqueuePCs
  <2>15. CASE EnqueueNext(t)
    BY <1>t, <1>g, <2>15, OpAt DEF EnqueueNext, Goto, CallMatchesPC, CallRecord, EnqueuePCs
  <2>16. CASE EnqueueRear(t)
    <3>1. call[t].op \in {"create", "lock", "unlock"}
      BY <2>16, OpAt DEF EnqueueRear, EnqueuePCs
    <3>2. CASE call[t].op = "create"
      BY <1>r, <2>16, <3>2 DEF EnqueueRear
    <3>3. CASE call[t].op = "lock"
      <4>1. Goto(t, "schedule") /\ Begin(t, "lock", call[t].arg)
        BY <2>16, <3>3 DEF EnqueueRear
      <4>2. call[t].arg \in Mutexes
        BY <1>t, <3>3 DEF CallMatchesPC
      <4>. QED BY <1>t, <1>g, <4>1, <4>2 DEF Goto, Begin, NewCall, CallMatchesPC, EnqueuePCs
    <3>4. CASE call[t].op = "unlock"
      <4>1. Goto(t, "unlock_flag") /\ UNCHANGED call
        BY <2>16, <3>4 DEF EnqueueRear
      <4>2. call[t].arg \in Mutexes
        BY <1>t, <3>4 DEF CallMatchesPC
      <4>. QED BY <1>t, <1>g, <3>4, <4>1, <4>2 DEF Goto, CallMatchesPC, EnqueuePCs
    <3>. QED BY <3>1, <3>2, <3>3, <3>4
  <2>17. CASE CallSchedule(t)
    BY <1>t, <1>g, <2>17, OpAt DEF CallSchedule, Goto, CallMatchesPC, CallRecord, EnqueuePCs, NoCall, NewCall, AfterSchedule
  <2>. QED BY <1>2, <2>1, <2>2, <2>3, <2>4, <2>5, <2>6, <2>7, <2>8, <2>9, <2>10, <2>11, <2>12, <2>13, <2>14, <2>15, <2>16, <2>17 DEF LibraryStep
<1>3. ASSUME NEW t \in Threads, ClientStep(t) PROVE CallsMatch'
  <2>1. ASSUME NEW u \in Threads, Create(t, u) PROVE CallsMatch'
    BY <1>t, <2>1 DEF Create, NewCall, Goto, CallMatchesPC, EnqueuePCs, Levels, Queues
  <2>2. ASSUME NEW u \in Threads, Join(t, u) PROVE CallsMatch'
    BY <1>t, <2>2 DEF Join, Begin, NewCall, Goto, CallMatchesPC, EnqueuePCs
  <2>3. CASE Yield(t)
    BY <1>t, <2>3 DEF Yield, Begin, NewCall, Goto, CallMatchesPC, EnqueuePCs
  <2>4. ASSUME NEW v \in Values \cup {NULL}, Exit(t, v) PROVE CallsMatch'
    BY <1>t, <2>4 DEF Exit, Begin, NewCall, Goto, CallMatchesPC, EnqueuePCs
  <2>5. ASSUME NEW m \in Mutexes, Lock(t, m) PROVE CallsMatch'
    BY <1>t, <2>5 DEF Lock, Begin, NewCall, Goto, CallMatchesPC, EnqueuePCs
  <2>6. ASSUME NEW m \in Mutexes, Unlock(t, m) PROVE CallsMatch'
    BY <1>t, <2>6 DEF Unlock, Begin, NewCall, Goto, CallMatchesPC, EnqueuePCs
  <2>7. CASE Finish(t)
    BY <1>k, <2>7 DEF Finish, clientVars
  <2>. QED BY <1>3, <2>1, <2>2, <2>3, <2>4, <2>5, <2>6, <2>7 DEF ClientStep
<1>4. CASE SchedulerStep
  BY <1>k, <1>4 DEF SchedulerStep, MaintainNextLevel, MaintainKeep, MaintainPromote, Dispatch,
     DispatchLast, DispatchAlone, DispatchYield, DispatchExited, DispatchKeep, DispatchExpired,
     DispatchBlocked, Requeue, SwitchTo, LeaveSchedule, clientVars
<1>5. CASE Tick \/ TickIgnored \/ Ended
  BY <1>k, <1>5 DEF Tick, TickIgnored, Ended, vars, clientVars
<1>. QED BY <1>1, <1>2, <1>3, <1>4, <1>5 DEF Next

\* The state before the first my_pthread_create satisfies TypeInv.
LEMMA TypeInvInit == Init => TypeInv
<1>. SUFFICES ASSUME Init PROVE TypeInv
  OBVIOUS
<1>1. 0 \in Levels /\ 0 \in 0 .. (MAINTENANCE_THRESHOLD - 1) /\ 0 \in 0 .. RUN_QUEUES
  BY DEF Levels
<1>2. call \in [Threads -> CallRecord]
  BY NewCallType DEF Init, NoCall
<1>3. mem \in [next : [Threads -> ThreadOrNull],
               queue : [Queues -> [front : ThreadOrNull, rear : ThreadOrNull]]]
  BY DEF Init, EmptyQueues
<1>4. TypeOK
  BY <1>1, <1>2, <1>3 DEF Init, TypeOK, NoScan, ClearFlags, States, PCs
<1>5. Current /\ CallsMatch
  BY DEF Init, Current, CallsMatch, CallMatchesPC, NoCall, NewCall, EnqueuePCs
<1>. QED BY <1>4, <1>5 DEF TypeInv

\* TypeInv is an invariant, whatever the timer interrupts.
THEOREM TypeInvariance == Spec => []TypeInv
<1>1. TypeInv /\ [Next]_vars => TypeInv'
  <2>1. ASSUME TypeInv, Next PROVE TypeInv'
    BY <2>1, TypeOKStep, CurrentStep, CallsMatchStep DEF TypeInv
  <2>2. ASSUME TypeInv, UNCHANGED vars PROVE TypeInv'
    BY <2>2 DEF TypeInv, TypeOK, Current, CallsMatch, CallMatchesPC, vars, schedulerVars,
                blockVars, clientVars
  <2>. QED BY <2>1, <2>2
<1>. QED BY TypeInvInit, <1>1, PTL DEF Spec

\* Every variable keeps its type, for any number of threads, mutexes and levels
\* and any set of points at which the signal may arrive.
THEOREM TypeCorrect == Spec => []TypeOK
<1>1. TypeInv => TypeOK
  BY DEF TypeInv
<1>. QED BY TypeInvariance, <1>1, PTL

-----------------------------------------------------------------------------
(***************************************************************************)
(* Mutual exclusion and the clock of Scheduler, for any constants.  Both   *)
(* hold wherever the signal strikes: neither uses anything about the       *)
(* queues, which the signal can destroy.                                   *)
(***************************************************************************)

USE DEF ThreadOrNull

\* t is between the return of its lock of m and the clearing of the flag.
Owns(t, m) == m \in holds[t] \/ Unlocking(t, m)

\* MutualExclusion is inductive with these two: an owned mutex has its flag set,
\* so that the test-and-set of another thread fails, and the thread that clears
\* the flag is no longer counted as holding the mutex.
MutexInv ==
  /\ MutualExclusion
  /\ \A t \in Threads, m \in Mutexes : Owns(t, m) => flag[m] = 1
  /\ \A t \in Threads, m \in Mutexes : Unlocking(t, m) => m \notin holds[t]

\* A step that leaves the flags, what is held and who is unlocking alone.
LEMMA MutexUnchanged ==
  ASSUME TypeInv, MutexInv, UNCHANGED <<flag, holds>>,
         \A t \in Threads : call'[t].op = "unlock" => /\ call[t].op = "unlock"
                                                     /\ call'[t].arg = call[t].arg
  PROVE  MutexInv'
BY DEF MutexInv, MutualExclusion, Owns, Unlocking

\* The mutex operations keep MutexInv.
LEMMA MutexOps ==
  ASSUME TypeInv, MutexInv, NEW t \in Threads,
         \/ LockTest(t) \/ UnlockFlag(t) \/ \E m \in Mutexes : Unlock(t, m)
  PROVE  MutexInv'
<1>. USE DEF MutexInv, MutualExclusion, Owns, Unlocking, At
<1>t. /\ flag \in [Mutexes -> {0, 1}]
      /\ holds \in [Threads -> SUBSET Mutexes]
      /\ call \in [Threads -> CallRecord]
  BY DEF TypeInv, TypeOK
<1>1. CASE LockTest(t)
  <2>. DEFINE m == call[t].arg
  <2>1. m \in Mutexes /\ call[t].op = "lock"
    BY <1>1, OpAt DEF LockTest, TypeInv, CallsMatch, CallMatchesPC
  <2>2. CASE flag[m] = 1
    <3>1. UNCHANGED <<flag, holds, call>>
      BY <1>1, <1>t, <2>1, <2>2 DEF LockTest
    <3>. QED BY <3>1, MutexUnchanged
  <2>3. CASE flag[m] # 1
    <3>1. /\ flag' = [flag EXCEPT ![m] = 1]
          /\ holds' = [holds EXCEPT ![t] = @ \cup {m}]
          /\ call' = [call EXCEPT ![t] = NoCall]
      BY <1>1, <2>3 DEF LockTest, Return
    <3>2. \A u \in Threads : ~Owns(u, m)
      BY <2>1, <2>3
    <3>3. \A u \in Threads, n \in Mutexes :
            Unlocking(u, n)' <=> Unlocking(u, n)
      BY <1>t, <2>1, <3>1 DEF NoCall, NewCall
    <3>4. \A u \in Threads, n \in Mutexes :
            n \in holds'[u] <=> n \in holds[u] \/ (u = t /\ n = m)
      BY <1>t, <3>1
    <3>5. \A n \in Mutexes : flag'[n] = IF n = m THEN 1 ELSE flag[n]
      BY <1>t, <3>1
    <3>. QED BY <2>1, <3>2, <3>3, <3>4, <3>5
  <2>. QED BY <2>2, <2>3
<1>2. ASSUME NEW m \in Mutexes, Unlock(t, m) PROVE MutexInv'
  <2>1. /\ m \in holds[t] /\ call[t].op = "none"
        /\ holds' = [holds EXCEPT ![t] = @ \ {m}]
        /\ call' = [call EXCEPT ![t] = NewCall("unlock", m, NULL, NULL)]
        /\ flag' = flag
    BY <1>2, OpAt DEF Unlock, Begin
  <2>2. \A u \in Threads, n \in Mutexes :
          Unlocking(u, n)' <=> Unlocking(u, n) \/ (u = t /\ n = m)
    BY <1>t, <2>1 DEF NewCall
  <2>3. \A u \in Threads, n \in Mutexes :
          n \in holds'[u] <=> n \in holds[u] /\ ~(u = t /\ n = m)
    BY <1>t, <2>1
  <2>. QED BY <2>1, <2>2, <2>3
<1>3. CASE UnlockFlag(t)
  <2>. DEFINE m == call[t].arg
  <2>1. m \in Mutexes /\ call[t].op = "unlock"
    BY <1>3, OpAt DEF UnlockFlag, TypeInv, CallsMatch, CallMatchesPC
  <2>2. /\ flag' = [flag EXCEPT ![m] = 0]
        /\ call' = [call EXCEPT ![t] = NoCall]
        /\ holds' = holds
    BY <1>3 DEF UnlockFlag, Return
  <2>3. m \notin holds[t] /\ \A u \in Threads \ {t} : ~Owns(u, m)
    BY <2>1
  <2>4. \A u \in Threads, n \in Mutexes :
          Unlocking(u, n)' <=> Unlocking(u, n) /\ u # t
    BY <1>t, <2>1, <2>2 DEF NoCall, NewCall
  <2>5. \A n \in Mutexes : flag'[n] = IF n = m THEN 0 ELSE flag[n]
    BY <1>t, <2>2
  <2>. QED BY <2>1, <2>2, <2>3, <2>4, <2>5
<1>. QED BY <1>1, <1>2, <1>3

\* Every step keeps MutexInv.
LEMMA MutexStep == ASSUME TypeInv, MutexInv, Next PROVE MutexInv'
<1>t. call \in [Threads -> CallRecord]
  BY DEF TypeInv, TypeOK
<1>u. ASSUME UNCHANGED <<flag, clientVars>> PROVE MutexInv'
  BY <1>u, MutexUnchanged DEF clientVars
<1>1. ASSUME NEW t \in Threads, FirstCreate(t) PROVE MutexInv'
  BY <1>1, <1>u DEF FirstCreate
<1>2. ASSUME NEW t \in Threads, LibraryStep(t) PROVE MutexInv'
  <2>1. CASE LockTest(t) \/ UnlockFlag(t)
    BY <2>1, MutexOps
  <2>2. CASE CallSchedule(t)
    BY <1>t, <2>2, MutexUnchanged DEF CallSchedule, NoCall, NewCall
  <2>3. CASE JoinValue(t) \/ LockBlock(t) \/ DequeueFront(t) \/ UnlockState(t)
    <3>1. UNCHANGED <<flag, holds>>
      BY <2>3 DEF JoinValue, LockBlock, DequeueFront, UnlockState
    <3>2. ASSUME NEW c, call' = [call EXCEPT ![t] = c], c.op = call[t].op, c.arg = call[t].arg
          PROVE  MutexInv'
      BY <1>t, <3>1, <3>2, MutexUnchanged
    <3>3. call[t] \in CallRecord
      BY <1>t
    <3>4. CASE JoinValue(t)
      <4>. DEFINE c == [call[t] EXCEPT !.got = retval[call[t].arg]]
      <4>1. c.op = call[t].op /\ c.arg = call[t].arg
        BY <3>3 DEF CallRecord
      <4>2. call' = [call EXCEPT ![t] = c]
        BY <3>4 DEF JoinValue
      <4>. HIDE DEF c
      <4>. QED BY <3>2, <4>1, <4>2
    <3>5. CASE LockBlock(t)
      <4>. DEFINE c == [call[t] EXCEPT !.elem = t, !.queue = call[t].arg]
      <4>1. c.op = call[t].op /\ c.arg = call[t].arg
        BY <3>3 DEF CallRecord
      <4>2. call' = [call EXCEPT ![t] = c]
        BY <3>5 DEF LockBlock
      <4>. HIDE DEF c
      <4>. QED BY <3>2, <4>1, <4>2
    <3>6. CASE DequeueFront(t)
      <4>. DEFINE first == mem.queue[call[t].arg].front
                  c     == [call[t] EXCEPT !.elem = first]
      <4>1. c.op = call[t].op /\ c.arg = call[t].arg
        BY <3>3 DEF CallRecord
      <4>2. CASE first = NULL
        BY <1>u, <3>6, <4>2 DEF DequeueFront, clientVars
      <4>3. CASE first # NULL
        <5>1. call' = [call EXCEPT ![t] = c]
          BY <3>6, <4>3 DEF DequeueFront
        <5>. HIDE DEF c
        <5>. QED BY <3>2, <4>1, <5>1
      <4>. QED BY <4>2, <4>3
    <3>7. CASE UnlockState(t)
      <4>. DEFINE c == [call[t] EXCEPT !.queue = priority[call[t].elem]]
      <4>1. c.op = call[t].op /\ c.arg = call[t].arg
        BY <3>3 DEF CallRecord
      <4>2. call' = [call EXCEPT ![t] = c]
        BY <3>7 DEF UnlockState
      <4>. HIDE DEF c
      <4>. QED BY <3>2, <4>1, <4>2
    <3>. QED BY <2>3, <3>4, <3>5, <3>6, <3>7
  <2>4. CASE EnqueueRear(t)
    <3>1. call[t].op \in {"create", "lock", "unlock"}
      BY <2>4, OpAt DEF EnqueueRear, At, EnqueuePCs
    <3>2. \/ call' = call
          \/ call' = [call EXCEPT ![t] = NoCall]
          \/ call' = [call EXCEPT ![t] = NewCall("lock", call[t].arg, NULL, NULL)]
      BY <2>4, <3>1 DEF EnqueueRear, Return, Begin
    <3>3. UNCHANGED <<flag, holds>>
      BY <2>4 DEF EnqueueRear
    <3>. QED BY <1>t, <3>2, <3>3, MutexUnchanged DEF NoCall, NewCall
  <2>5. CASE JoinRun(t)
    BY <1>t, <2>5, MutexUnchanged DEF JoinRun, Return, NoCall, NewCall
  <2>6. CASE \/ EnqueueTest(t) \/ EnqueueFront(t) \/ EnqueueNext(t) \/ ExitValue(t)
             \/ JoinTest(t) \/ UnlockTest(t) \/ DequeueNext(t) \/ DequeueRear(t)
    BY <2>6, MutexUnchanged DEF EnqueueTest, EnqueueFront, EnqueueNext, ExitValue, JoinTest,
       UnlockTest, DequeueNext, DequeueRear
  <2>. QED BY <1>2, <2>1, <2>2, <2>3, <2>4, <2>5, <2>6 DEF LibraryStep
<1>3. ASSUME NEW t \in Threads, ClientStep(t) PROVE MutexInv'
  <2>1. ASSUME NEW m \in Mutexes, Unlock(t, m) PROVE MutexInv'
    BY <2>1, MutexOps
  <2>2. ASSUME UNCHANGED <<flag, holds>>, NEW n \in Ops \ {"unlock"}, NEW x, NEW e, NEW q,
               call' = [call EXCEPT ![t] = NewCall(n, x, e, q)]
        PROVE  MutexInv'
    BY <1>t, <2>2, MutexUnchanged DEF NewCall
  <2>3. ASSUME NEW u \in Threads, Create(t, u) PROVE MutexInv'
    <3>1. call' = [call EXCEPT ![t] = NewCall("create", NULL, u, 0)] /\ UNCHANGED <<flag, holds>>
      BY <2>3 DEF Create
    <3>. QED BY <2>2, <3>1 DEF Ops
  <2>4. ASSUME NEW u \in Threads, Join(t, u) PROVE MutexInv'
    BY <2>2, <2>4 DEF Join, Begin, Ops
  <2>5. CASE Yield(t)
    BY <2>2, <2>5 DEF Yield, Begin, Ops
  <2>6. ASSUME NEW v, Exit(t, v) PROVE MutexInv'
    BY <2>2, <2>6 DEF Exit, Begin, Ops
  <2>7. ASSUME NEW m \in Mutexes, Lock(t, m) PROVE MutexInv'
    BY <2>2, <2>7 DEF Lock, Begin, Ops
  <2>8. CASE Finish(t)
    BY <1>u, <2>8 DEF Finish
  <2>. QED BY <1>3, <2>1, <2>3, <2>4, <2>5, <2>6, <2>7, <2>8 DEF ClientStep
<1>4. CASE SchedulerStep
  BY <1>u, <1>4 DEF SchedulerStep, MaintainNextLevel, MaintainKeep, MaintainPromote, Dispatch,
     DispatchLast, DispatchAlone, DispatchYield, DispatchExited, DispatchKeep, DispatchExpired,
     DispatchBlocked, Requeue, SwitchTo, LeaveSchedule
<1>5. CASE Tick \/ TickIgnored \/ Ended
  BY <1>u, <1>5 DEF Tick, TickIgnored, Ended, vars
<1>. QED BY <1>1, <1>2, <1>3, <1>4, <1>5 DEF Next

LEMMA MutexInvariance == Spec => []MutexInv
<1>1. Init => MutexInv
  BY DEF Init, MutexInv, MutualExclusion, Owns, Unlocking, NoCall, NewCall
<1>2. TypeInv /\ MutexInv /\ [Next]_vars => MutexInv'
  <2>1. ASSUME TypeInv, MutexInv, UNCHANGED vars PROVE MutexInv'
    BY <2>1, MutexUnchanged DEF vars, clientVars
  <2>. QED BY <2>1, MutexStep
<1>. QED BY <1>1, <1>2, TypeInvariance, PTL DEF Spec

\* At most one thread is between the return of my_pthread_mutex_lock(m) and the
\* store that clears the flag in my_pthread_mutex_unlock(m), for any number of
\* threads and mutexes and wherever the timer strikes.
THEOREM MutualExclusionHolds == Spec => []MutualExclusion
<1>1. MutexInv => MutualExclusion
  BY DEF MutexInv
<1>. QED BY <1>1, MutexInvariance, PTL

-----------------------------------------------------------------------------
\* TimerArmed is inductive with: a thread is EXITED only inside its exit call,
\* so the current thread cannot leave that state without schedule().
TimerInv ==
  /\ TimerArmed
  /\ \A t \in Threads : threadState[t] = "EXITED" => call[t].op = "exit"

\* Every step keeps TimerInv.
LEMMA TimerStep == ASSUME TypeInv, TimerInv, Next PROVE TimerInv'
<1>. USE DEF TimerInv, TimerArmed, At, Rearm
<1>t. /\ threadState \in [Threads -> States] /\ call \in [Threads -> CallRecord]
      /\ phase # "setup" => currentThread \in Threads
      /\ inScheduler = IF sched = "idle" THEN 0 ELSE 1
  BY DEF TypeInv, TypeOK, Current
\* A step of a call that is no exit call: t runs, so the timer is armed.
<1>r. ASSUME NEW t \in Threads, At(t, pc[t]), call[t].op # "exit",
             UNCHANGED <<currentThread, sched, armed>>, phase' = phase \/ phase' # "live",
             \A u \in Threads : threadState'[u] = "EXITED" => threadState[u] = "EXITED",
             \A u \in Threads \ {t} : call'[u] = call[u]
      PROVE  TimerInv'
  <2>1. threadState[t] # "EXITED" /\ armed
    BY <1>r
  <2>. QED BY <1>r, <2>1
<1>1. ASSUME NEW t \in Threads, FirstCreate(t) PROVE TimerInv'
  BY <1>1, <1>t DEF FirstCreate, clientVars
<1>2. ASSUME NEW t \in Threads, LibraryStep(t) PROVE TimerInv'
  <2>1. CASE CallSchedule(t)
    <3>1. sched' # "idle" /\ UNCHANGED threadState
      BY <2>1 DEF CallSchedule, EnterSchedule, blockVars
    <3>2. call' = call \/ (call[t].op = "yield" /\ call' = [call EXCEPT ![t] = NoCall])
      BY <2>1 DEF CallSchedule
    <3>. QED BY <1>t, <3>1, <3>2
  <2>2. CASE ExitValue(t)
    BY <1>t, <2>2 DEF ExitValue, schedulerVars
  <2>3. CASE \/ EnqueueTest(t) \/ EnqueueFront(t) \/ EnqueueNext(t) \/ EnqueueRear(t)
             \/ JoinTest(t) \/ JoinValue(t) \/ LockTest(t) \/ UnlockTest(t)
             \/ DequeueFront(t) \/ DequeueNext(t) \/ DequeueRear(t) \/ UnlockFlag(t)
    <3>1. /\ At(t, pc[t])
          /\ UNCHANGED <<currentThread, sched, armed, threadState>>
          /\ phase' = phase \/ phase' # "live"
      BY <2>3 DEF EnqueueTest, EnqueueFront, EnqueueNext, EnqueueRear, JoinTest, JoinValue,
         LockTest, UnlockTest, DequeueFront, DequeueNext, DequeueRear, UnlockFlag,
         schedulerVars, blockVars
    <3>2. call[t].op # "exit"
      BY <2>3, OpAt DEF EnqueueTest, EnqueueFront, EnqueueNext, EnqueueRear, JoinTest, JoinValue,
         LockTest, UnlockTest, DequeueFront, DequeueNext, DequeueRear, UnlockFlag, EnqueuePCs
    <3>3. \A u \in Threads \ {t} : call'[u] = call[u]
      <4>1. call[t].op \in {"create", "lock", "unlock"} \/ ~EnqueueRear(t)
        BY OpAt DEF EnqueueRear, EnqueuePCs
      <4>. QED BY <1>t, <2>3, <4>1 DEF EnqueueTest, EnqueueFront, EnqueueNext, EnqueueRear,
         JoinTest, JoinValue, LockTest, UnlockTest, DequeueFront, DequeueNext, DequeueRear,
         UnlockFlag, Return, Begin
    <3>. QED BY <1>r, <3>1, <3>2, <3>3
  <2>4. CASE JoinRun(t) \/ LockBlock(t) \/ UnlockState(t)
    <3>1. /\ At(t, pc[t]) /\ call[t].op # "exit"
          /\ UNCHANGED <<phase, currentThread, sched, armed>>
      BY <2>4, OpAt DEF JoinRun, LockBlock, UnlockState, schedulerVars
    <3>2. \E u \in Threads, s \in States \ {"EXITED"} :
            threadState' = [threadState EXCEPT ![u] = s]
      <4>1. pc[t] = "unlock_state" => call[t].elem \in Threads
        BY DEF TypeInv, CallsMatch, CallMatchesPC
      <4>. QED BY <2>4, <4>1 DEF JoinRun, LockBlock, UnlockState, SetState, States
    <3>3. \A u \in Threads : threadState'[u] = "EXITED" => threadState[u] = "EXITED"
      BY <1>t, <3>2
    <3>4. \A u \in Threads \ {t} : call'[u] = call[u]
      BY <1>t, <2>4 DEF JoinRun, LockBlock, UnlockState, Return
    <3>. QED BY <1>r, <3>1, <3>3, <3>4
  <2>. QED BY <1>2, <2>1, <2>2, <2>3, <2>4 DEF LibraryStep
<1>3. ASSUME NEW t \in Threads, ClientStep(t) PROVE TimerInv'
  <2>1. CASE Finish(t)
    BY <2>1 DEF Finish, schedulerVars, blockVars, clientVars
  <2>2. ASSUME NEW v, Exit(t, v) PROVE TimerInv'
    <3>1. /\ threadState' = [threadState EXCEPT ![t] = "EXITED"]
          /\ call' = [call EXCEPT ![t] = NewCall("exit", v, NULL, NULL)]
          /\ currentThread' = t
      BY <2>2 DEF Exit, SetState, Begin, schedulerVars
    <3>. QED BY <1>t, <3>1 DEF NewCall, States
  <2>3. ASSUME NEW u \in Threads, NEW m,
               Create(t, u) \/ Join(t, u) \/ Yield(t) \/ Lock(t, m) \/ Unlock(t, m)
        PROVE  TimerInv'
    <3>1. /\ At(t, pc[t]) /\ call[t].op # "exit"
          /\ UNCHANGED <<phase, currentThread, sched, armed>>
      BY <2>3, OpAt DEF Create, Join, Yield, Lock, Unlock, schedulerVars
    <3>2. \/ threadState' = threadState
          \/ \E w \in Threads, s \in States \ {"EXITED"} :
               threadState' = [threadState EXCEPT ![w] = s]
      BY <2>3 DEF Create, Join, Yield, Lock, Unlock, SetState, States, blockVars
    <3>3. \A w \in Threads : threadState'[w] = "EXITED" => threadState[w] = "EXITED"
      BY <1>t, <3>2
    <3>4. \A w \in Threads \ {t} : call'[w] = call[w]
      BY <1>t, <2>3 DEF Create, Join, Yield, Lock, Unlock, Begin
    <3>. QED BY <1>r, <3>1, <3>3, <3>4
  <2>. QED BY <1>3, <2>1, <2>2, <2>3 DEF ClientStep
<1>4. CASE MaintainNextLevel \/ MaintainKeep \/ MaintainPromote
  BY <1>4 DEF MaintainNextLevel, MaintainKeep, MaintainPromote, clientVars, blockVars
<1>5. CASE Dispatch
  <2>1. call' = call
    BY <1>5 DEF Dispatch, DispatchLast, DispatchAlone, DispatchYield, DispatchExited,
       DispatchKeep, DispatchExpired, DispatchBlocked, Requeue, SwitchTo, LeaveSchedule, clientVars
  <2>2. \/ armed'
        \/ threadState'[currentThread'] = "EXITED"
    BY <1>5 DEF Dispatch, DispatchLast, DispatchAlone, DispatchYield, DispatchExited,
       DispatchKeep, DispatchExpired, DispatchBlocked, Requeue, SwitchTo
  <2>3. \A u \in Threads : threadState'[u] = "EXITED" => threadState[u] = "EXITED"
    <3>1. ASSUME NEW h, NEW st \in [Threads -> States], SwitchTo(h, st),
                 \A u \in Threads : st[u] = "EXITED" => threadState[u] = "EXITED"
          PROVE  \A u \in Threads : threadState'[u] = "EXITED" => threadState[u] = "EXITED"
      BY <3>1 DEF SwitchTo
    <3>2. ASSUME NEW p, Requeue(currentThread, p)
          PROVE  \A u \in Threads : threadState'[u] = "EXITED" => threadState[u] = "EXITED"
      <4>1. [threadState EXCEPT ![currentThread] = "QUEUED"] \in [Threads -> States]
        BY <1>t DEF States
      <4>2. \A u \in Threads : [threadState EXCEPT ![currentThread] = "QUEUED"][u] = "EXITED"
                                 => threadState[u] = "EXITED"
        BY <1>t
      <4>. QED BY <3>1, <3>2, <4>1, <4>2 DEF Requeue
    <3>. QED BY <1>t, <1>5, <3>1, <3>2 DEF Dispatch, DispatchLast, DispatchAlone, DispatchYield,
       DispatchExited, DispatchKeep, DispatchExpired, DispatchBlocked
  <2>. QED BY <2>1, <2>2, <2>3
<1>6. CASE Tick
  BY <1>6 DEF Tick, EnterSchedule, blockVars, clientVars
<1>7. CASE TickIgnored
  BY <1>7, <1>t DEF TickIgnored, schedulerVars, blockVars, clientVars
<1>8. CASE Ended
  BY <1>8 DEF Ended, vars, schedulerVars, blockVars, clientVars
<1>. QED BY <1>1, <1>2, <1>3, <1>4, <1>5, <1>6, <1>7, <1>8 DEF Next, SchedulerStep

\* The scheduler never loses its clock: outside schedule() the one-shot timer is
\* running, unless the current thread has exited and is the last.
THEOREM TimerArmedHolds == Spec => []TimerArmed
<1>1. Init => TimerInv
  BY DEF Init, TimerInv, TimerArmed
<1>2. TypeInv /\ TimerInv /\ [Next]_vars => TimerInv'
  <2>1. ASSUME TimerInv, UNCHANGED vars PROVE TimerInv'
    BY <2>1 DEF TimerInv, TimerArmed, vars, schedulerVars, blockVars, clientVars
  <2>. QED BY <2>1, TimerStep
<1>3. TimerInv => TimerArmed
  BY DEF TimerInv
<1>. QED BY <1>1, <1>2, <1>3, TypeInvariance, PTL DEF Spec
====

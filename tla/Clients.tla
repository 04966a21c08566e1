------------------------------- MODULE Clients -------------------------------
(***************************************************************************)
(* The benchmark programs of scheduler+virtualMemoryManager on top of what *)
(* the thread library promises (ThreadContract): mtsort sorts a list with  *)
(* a thread and two mutexes for each pair of neighbours and a checker that *)
(* takes them all, mcounter counts under one mutex, and mmatrix shares the *)
(* rows of a product out.  main creates the threads and joins them.        *)
(*                                                                         *)
(* A step of a client is a statement on shared data or a call; where it is *)
(* a call the step is the library's, and between any two steps the library *)
(* may switch.                                                             *)
(***************************************************************************)
EXTENDS ThreadContract, Integers, FiniteSets

CONSTANTS
  Programs,     \* which of the programs are run
  LISTSIZE,     \* numbers in the list of mtsort
  NTHREADS,     \* threads of mcounter and mmatrix
  ITER,         \* increments of a thread of mcounter
  NDIM          \* rows of the matrices

ASSUME ProgramsAssumption == Programs \subseteq {"mtsort", "mcounter", "mmatrix"}
ASSUME NumbersAssumption ==
  /\ LISTSIZE \in Nat \ {0, 1} /\ NTHREADS \in Nat \ {0} /\ ITER \in Nat /\ NDIM \in Nat
  /\ Threads = 0 .. (IF LISTSIZE > NTHREADS THEN LISTSIZE ELSE NTHREADS) /\ Main = 0
  /\ Mutexes = 0 .. (LISTSIZE - 1)

ASSUME NullAssumption == NULL \notin Threads

VARIABLES
  program,
  pc,          \* what each thread does next
  i,           \* its loop counter: iterations, rows, or threads for main
  k,           \* the mutex it is at, of those it takes together
  temp,        \* its local copy of shared data: swap, check or temp
  num,         \* the list of mtsort
  quitting,
  c            \* the counter of mcounter, c[0], and the rows of mmatrix

local  == <<i, k, temp>>
shared == <<program, num, quitting, c>>
allVars == <<vars, pc, local, shared>>

\* Threads 1 .. Created are created; the last one of mtsort is the checker.
Created == IF program = "mtsort" THEN LISTSIZE ELSE NTHREADS
IsChecker(t) == program = "mtsort" /\ t = LISTSIZE

FirstStatement(p) == CASE p = "mtsort" -> "while" [] p = "mcounter" -> "for" [] p = "mmatrix" -> "mm"

\* The list is decreasing.  Worker t of mmatrix starts at row t - 1.
ClientInit ==
  /\ Init
  /\ program \in Programs
  /\ pc = [t \in Threads |-> IF t = Main THEN "create" ELSE FirstStatement(program)]
  /\ i = [t \in Threads |-> IF program = "mmatrix" /\ t # Main THEN t - 1 ELSE 0]
  /\ k = [t \in Threads |-> 0]
  /\ temp = [t \in Threads |-> 0]
  /\ num = [j \in 0 .. (LISTSIZE - 1) |-> LISTSIZE - j]
  /\ quitting = 0
  /\ c = [j \in 0 .. NDIM |-> 0]

-----------------------------------------------------------------------------
At(t, place) == status[t] = "running" /\ pc[t] = place
Goto(t, place) == pc' = [pc EXCEPT ![t] = place]

\* Thread t makes a step of its own, between calls.
Internal(t, place, next) == At(t, place) /\ Goto(t, next) /\ UNCHANGED vars

\* my_pthread_yield, called by thread t or by the timer for it.
Switched == \E t, u \in Threads : Switch(t, u)
Alone == \A u \in Threads : status[u] # "ready"

Preempt == Switched /\ UNCHANGED <<pc, local, shared>>

\* The library goes on with another thread after one has exited.
Continue == (\E u \in Threads : Pick(u)) /\ UNCHANGED <<pc, local, shared>>

\* Mutant: a sorting thread takes its mutexes from the right to the left.
Mutex_fromRight(t, n) == IF program = "mcounter" \/ IsChecker(t) THEN n ELSE t - n

\* A thread of mtsort takes the mutexes of its two numbers, thread t those of
\* numbers t - 1 and t, and the checker all of them; one of mcounter the only one.
Mutex(t, n) == IF program = "mcounter" \/ IsChecker(t) THEN n ELSE t - 1 + n

Last(t) == IF program = "mcounter" THEN 0 ELSE IF IsChecker(t) THEN LISTSIZE - 1 ELSE 1

Locked(t) == IF program = "mcounter" THEN "load" ELSE IF IsChecker(t) THEN "check" ELSE "compare"

\* my_pthread_mutex_lock, in the order of the mutexes: it returns with the mutex,
\* or waits to be woken and tries again.
Lock(t) ==
  /\ At(t, "lock")
  /\ \/ /\ Acquire(t, Mutex(t, k[t]))
        /\ Goto(t, IF k[t] = Last(t) THEN Locked(t) ELSE "lock")
        /\ k' = [k EXCEPT ![t] = IF @ = Last(t) THEN 0 ELSE @ + 1]
     \/ /\ \E u \in Threads : Park(t, u, Mutex(t, k[t]))
        /\ UNCHANGED <<pc, k>>
  /\ UNCHANGED <<i, temp, shared>>

\* my_pthread_mutex_unlock, in the same order.
Unlock(t) ==
  /\ At(t, "unlock")
  /\ Release(t, Mutex(t, k[t]))
  /\ Goto(t, IF k[t] # Last(t) THEN "unlock" ELSE IF program = "mcounter" THEN "for" ELSE "yield")
  /\ k' = [k EXCEPT ![t] = IF @ = Last(t) THEN 0 ELSE @ + 1]
  /\ i' = [i EXCEPT ![t] = IF program = "mcounter" THEN @ + 1 ELSE @]
  /\ UNCHANGED <<temp, shared>>

Leave(t) ==
  /\ Exit(t)
  /\ Goto(t, "exited")
  /\ UNCHANGED <<local, shared>>

-----------------------------------------------------------------------------
(***************************************************************************)
(* main                                                                    *)
(***************************************************************************)
Create ==
  /\ pc[Main] = "create"
  /\ Start(i[Main] + 1) \/ Spawn(Main, i[Main] + 1)
  /\ Goto(Main, IF i[Main] + 1 = Created THEN "join" ELSE "create")
  /\ i' = [i EXCEPT ![Main] = (@ + 1) % Created]
  /\ UNCHANGED <<k, temp, shared>>

\* A join returns when the thread is done and yields until then.
Join ==
  LET t == i[Main] + 1
  IN  \/ /\ Internal(Main, "join", IF t = Created THEN "report" ELSE "join")
         /\ status[t] = "done"
         /\ i' = [i EXCEPT ![Main] = t]
         /\ UNCHANGED <<k, temp, shared>>
      \/ /\ At(Main, "join")
         /\ status[t] # "done"
         /\ Switched
         /\ UNCHANGED <<pc, local, shared>>

-----------------------------------------------------------------------------
(***************************************************************************)
(* mtsort                                                                  *)
(***************************************************************************)
While(t) ==
  IF quitting = 1
  THEN At(t, "while") /\ Leave(t)
  ELSE Internal(t, "while", "lock") /\ UNCHANGED <<local, shared>>

\* fnsort with num[0] the number t - 1 of the list and num[1] the number t.
Compare(t) ==
  /\ Internal(t, "compare", IF num[t] < num[t - 1] THEN "save" ELSE "unlock")
  /\ UNCHANGED <<local, shared>>

Save(t) ==
  /\ Internal(t, "save", "move")
  /\ temp' = [temp EXCEPT ![t] = num[t - 1]]
  /\ UNCHANGED <<i, k, shared>>

Move(t) ==
  /\ Internal(t, "move", "restore")
  /\ num' = [num EXCEPT ![t - 1] = num[t]]
  /\ UNCHANGED <<local, program, quitting, c>>

Restore(t) ==
  /\ Internal(t, "restore", "unlock")
  /\ num' = [num EXCEPT ![t] = temp[t]]
  /\ UNCHANGED <<local, program, quitting, c>>

Sorted == \A j \in 1 .. (LISTSIZE - 1) : num[j - 1] <= num[j]

\* Mutant: the loop of fncheck ends one pair early.
Check_butLast(t) ==
  /\ Internal(t, "check", "quit")
  /\ temp' = [temp EXCEPT ![t] = IF \A j \in 1 .. (LISTSIZE - 2) : num[j - 1] <= num[j] THEN 1 ELSE 0]
  /\ UNCHANGED <<i, k, shared>>

\* fncheck
Check(t) ==
  /\ Internal(t, "check", "quit")
  /\ temp' = [temp EXCEPT ![t] = IF Sorted THEN 1 ELSE 0]
  /\ UNCHANGED <<i, k, shared>>

Quit(t) ==
  /\ Internal(t, "quit", "unlock")
  /\ quitting' = temp[t]
  /\ UNCHANGED <<local, program, num, c>>

Yield(t) ==
  /\ At(t, "yield")
  /\ Goto(t, "while")
  /\ Switched \/ (Alone /\ UNCHANGED vars)
  /\ UNCHANGED <<local, shared>>

-----------------------------------------------------------------------------
(***************************************************************************)
(* mcounter                                                                *)
(***************************************************************************)

\* Mutant: the loop runs once too often.
For_oneMore(t) ==
  IF i[t] > ITER
  THEN At(t, "for") /\ Leave(t)
  ELSE Internal(t, "for", "lock") /\ UNCHANGED <<local, shared>>

For(t) ==
  IF i[t] = ITER
  THEN At(t, "for") /\ Leave(t)
  ELSE Internal(t, "for", "lock") /\ UNCHANGED <<local, shared>>

Load(t) ==
  /\ Internal(t, "load", "store")
  /\ temp' = [temp EXCEPT ![t] = c[0] + 1]
  /\ UNCHANGED <<i, k, shared>>

\* Mutant: a thread of mcounter counts on without giving the mutex back.
Store_locked(t) ==
  /\ Internal(t, "store", "for")
  /\ c' = [c EXCEPT ![0] = temp[t]]
  /\ i' = [i EXCEPT ![t] = @ + 1]
  /\ UNCHANGED <<k, temp, program, num, quitting>>

Store(t) ==
  /\ Internal(t, "store", "unlock")
  /\ c' = [c EXCEPT ![0] = temp[t]]
  /\ UNCHANGED <<local, program, num, quitting>>

-----------------------------------------------------------------------------
(***************************************************************************)
(* mmatrix: c[r] counts how often row r of the product has been computed.  *)
(***************************************************************************)

\* Mutant: the next row is that of one thread further.
Rows_oneMore(t) ==
  IF i[t] >= NDIM
  THEN At(t, "mm") /\ Leave(t)
  ELSE /\ Internal(t, "mm", "mm")
       /\ c' = [c EXCEPT ![i[t]] = @ + 1]
       /\ i' = [i EXCEPT ![t] = @ + NTHREADS + 1]
       /\ UNCHANGED <<k, temp, program, num, quitting>>

Rows(t) ==
  IF i[t] >= NDIM
  THEN At(t, "mm") /\ Leave(t)
  ELSE /\ Internal(t, "mm", "mm")
       /\ c' = [c EXCEPT ![i[t]] = @ + 1]
       /\ i' = [i EXCEPT ![t] = @ + NTHREADS]
       /\ UNCHANGED <<k, temp, program, num, quitting>>

\* check_matrix() computes every row again and finds it in c.
CheckMatrix == \A r \in 0 .. (NDIM - 1) : c[r] = 1

-----------------------------------------------------------------------------
ClientStep(t) ==
  \/ While(t) \/ Compare(t) \/ Save(t) \/ Move(t) \/ Restore(t)
  \/ Check(t) \/ Quit(t) \/ Yield(t)
  \/ For(t) \/ Load(t) \/ Store(t)
  \/ Rows(t)
  \/ Lock(t) \/ Unlock(t)

ClientNext == Preempt \/ Continue \/ Create \/ Join \/ \E t \in Threads \ {Main} : ClientStep(t)

\* A ready thread gets the processor, which is what QueuedRuns of the module
\* Scheduler shows, and a time slice is long enough for a statement or a call.
Fairness ==
  \A t \in Threads :
    /\ SF_allVars((\E u \in Threads : Switch(u, t) \/ Pick(t)) /\ ClientNext)
    /\ SF_allVars(IF t = Main THEN Create \/ Join ELSE ClientStep(t))

ClientSpec == ClientInit /\ [][ClientNext]_allVars /\ Fairness

-----------------------------------------------------------------------------
\* Every thread is somewhere in its program, every loop within its bounds.
TypeOK ==
  /\ status \in [Threads -> {"new", "ready", "running", "waiting", "done"}]
  /\ owner \in [Mutexes -> Threads \cup {NULL}]
  /\ program \in Programs
  /\ i[Main] \in 0 .. Created
  /\ \A t \in 1 .. Created :
       i[t] \in 0 .. CASE program = "mtsort" -> 0
                      [] program = "mcounter" -> ITER
                      [] program = "mmatrix" -> NDIM + NTHREADS
  /\ \A t \in 1 .. Created : k[t] \in 0 .. (LISTSIZE - 1)
  /\ num \in [0 .. (LISTSIZE - 1) -> 1 .. LISTSIZE]
  /\ quitting \in {0, 1}
  /\ c \in [0 .. NDIM -> Nat]

\* quitting is set only with all mutexes held and cleared never: once a thread
\* can read it, the list is sorted and stays so, though sorting goes on.
QuitsSorted == quitting = 1 => Sorted

\* Threads wait for one another only along the list: there is always a thread
\* that is created and not done and waits for no mutex, as long as one waits.
NoDeadlock ==
  (\E t \in Threads : status[t] = "waiting") =>
    \E t \in Threads \ {Main} : status[t] \in {"ready", "running"}

\* What main finds when it has joined the threads: the numbers of the list in
\* their order, no increment lost, every row of the product computed, once.
ResultRight ==
  pc[Main] = "report" =>
    CASE program = "mtsort" -> num = [j \in 0 .. (LISTSIZE - 1) |-> j + 1]
      [] program = "mcounter" -> c[0] = ITER * NTHREADS
      [] program = "mmatrix" -> CheckMatrix

\* mcounter and mmatrix come to their end, however often the timer strikes.  The
\* checker of mtsort may find a mutex taken again each time it is woken.
Finishes == program # "mtsort" => <>(pc[Main] = "report")
=============================================================================

---------------------------- MODULE ClientsProofs ----------------------------
(***************************************************************************)
(* mtsort stops with a sorted list, for a list of any length and any way   *)
(* the library switches: quitting is only ever set to 1 over a list that   *)
(* is sorted, and that stays sorted although the other threads go on.      *)
(*                                                                         *)
(* Where a thread is in its loop says which mutexes it has (Owning), so    *)
(* the checker and a sorting thread are never both between their last lock *)
(* and their first unlock; and over a sorted list no comparison starts an  *)
(* exchange (SortedForGood).  Nothing is assumed of the order in which     *)
(* threads are woken, or of who runs.                                      *)
(*                                                                         *)
(* Then that no client waits for ever in a circle, and what main finds     *)
(* when the threads have exited (ResultRight).                             *)
(***************************************************************************)
EXTENDS Clients, FiniteSetTheorems, SequenceTheorems, WellFoundedInduction, TLAPS

Exchanging == {"save", "move", "restore"}
Sorting    == Exchanging \cup {"compare"}
Checking   == {"check", "quit"}
Elsewhere  == {"while", "lock", "unlock", "yield", "exited"}
Counting   == {"for", "lock", "load", "store", "unlock", "exited"}

Checker == LISTSIZE
Workers == 1 .. LISTSIZE

\* Of the numbers only the sorting threads' copies are typed.
TypeInv ==
  /\ program \in {"mtsort", "mcounter", "mmatrix"}
  /\ DOMAIN pc = Threads /\ DOMAIN temp = Threads
  /\ k \in [Threads -> Nat]
  /\ num \in [0 .. (LISTSIZE - 1) -> Int]
  /\ program = "mtsort" => \A t \in Workers : temp[t] \in Int
  /\ DOMAIN owner = Mutexes

\* Where a thread may be in its program: in mtsort only the checker checks, and
\* only the others sort.
PlacesOf(t) ==
  IF program = "mcounter" THEN Counting
  ELSE IF program = "mmatrix" THEN {"mm", "exited"}
  ELSE IF t = Checker THEN Checking \cup Elsewhere
  ELSE Sorting \cup Elsewhere

Place(t) == pc[t] \in PlacesOf(t)

Places == \A t \in Threads \ {Main} : Place(t)

\* Whether thread t has its nth mutex: the ones it has locked in its loop, or not
\* yet unlocked.
Has(t, n) ==
  \/ pc[t] = "lock" /\ n < k[t]
  \/ pc[t] = "unlock" /\ n >= k[t]
  \/ pc[t] \in Sorting \cup Checking

\* In mtsort where a thread is tells which mutexes are its own.
Owns(t) ==
  /\ pc[t] \notin {"lock", "unlock"} => k[t] = 0
  /\ k[t] <= Last(t)
  /\ \A n \in 0 .. Last(t) : Has(t, n) => owner[Mutex(t, n)] = t

Owning == program = "mtsort" => \A t \in Workers : Owns(t)

\* The list is sorted and no exchange is under way.
SortedForGood == Sorted /\ \A t \in Workers : pc[t] \notin Exchanging

\* What the checker has found, and what it has told the others, is for good.
Verdict ==
  /\ quitting = 1 => program = "mtsort" /\ SortedForGood
  /\ program = "mtsort" /\ pc[Checker] = "quit" /\ temp[Checker] = 1 => SortedForGood

Inv == TypeInv /\ Places /\ Owning /\ Verdict

-----------------------------------------------------------------------------
\* The threads that sort and check are threads, and not main.
LEMMA WorkersAreThreads == Workers \subseteq Threads \ {Main} /\ Checker \in Workers
BY NumbersAssumption DEF Workers, Checker

\* A sorting or checking thread's mutexes are mutexes, and different ones.
LEMMA MutexesOfWorker ==
  ASSUME NEW t \in Workers, program = "mtsort"
  PROVE  /\ Last(t) \in Nat
         /\ \A n \in 0 .. Last(t) : Mutex(t, n) \in Mutexes
         /\ \A n, m \in 0 .. Last(t) : Mutex(t, n) = Mutex(t, m) => n = m
BY NumbersAssumption DEF Workers, Last, Mutex, IsChecker

\* A thread that exchanges two numbers has the left one's mutex, which the checker
\* has while it checks: never both at once.
LEMMA CheckerAlone ==
  ASSUME Inv, program = "mtsort", pc[Checker] \in Checking
  PROVE  \A t \in Workers : pc[t] \notin Exchanging
<1>. SUFFICES ASSUME NEW t \in Workers, pc[t] \in Exchanging PROVE FALSE
  OBVIOUS
<1>1. t # Checker
  BY WorkersAreThreads DEF Inv, Places, Place, PlacesOf, Checking, Elsewhere, Exchanging
<1>2. Last(t) = 1 /\ Mutex(t, 0) = t - 1
  BY <1>1, NumbersAssumption DEF Last, Mutex, IsChecker, Checker, Workers
<1>3. owner[t - 1] = t
  <2>1. Has(t, 0)
    BY DEF Has, Exchanging, Sorting
  <2>. QED BY <2>1, <1>2 DEF Inv, Owning, Owns
<1>4. Last(Checker) = LISTSIZE - 1 /\ Mutex(Checker, t - 1) = t - 1
  BY NumbersAssumption DEF Last, Mutex, IsChecker, Checker, Workers
<1>5. owner[t - 1] = Checker
  <2>1. Has(Checker, t - 1)
    BY DEF Has, Checking
  <2>2. t - 1 \in 0 .. Last(Checker)
    BY <1>4, NumbersAssumption DEF Workers
  <2>. QED BY <2>1, <2>2, <1>4, WorkersAreThreads DEF Inv, Owning, Owns
<1>. QED BY <1>1, <1>3, <1>5

-----------------------------------------------------------------------------
\* Only a client's own step changes more than where main is and who runs.
LEMMA OnlySteps ==
  ASSUME [ClientNext]_allVars
  PROVE  \/ \E t \in Threads \ {Main} : ClientStep(t)
         \/ /\ UNCHANGED <<owner, k, temp, shared>>
            /\ DOMAIN pc' = DOMAIN pc
            /\ \A t \in Threads \ {Main} : pc'[t] = pc[t]
<1>. USE DEF shared, local, Goto
<1>1. CASE Preempt
  BY <1>1 DEF Preempt, Switched, Switch
<1>2. CASE Continue
  BY <1>2 DEF Continue, Pick
<1>3. CASE Create
  BY <1>3 DEF Create, Start, Spawn
<1>4. CASE Join
  <2>1. CASE \E next : Internal(Main, "join", next) /\ UNCHANGED <<k, temp, shared>>
    BY <2>1 DEF Internal, vars
  <2>2. CASE Switched /\ UNCHANGED <<pc, local, shared>>
    BY <2>2 DEF Switched, Switch
  <2>. QED BY <1>4, <2>1, <2>2 DEF Join
<1>5. CASE UNCHANGED allVars
  BY <1>5 DEF allVars, vars
<1>. QED BY <1>1, <1>2, <1>3, <1>4, <1>5 DEF ClientNext

\* A step of a thread leaves where the others are and what they have copied, and
\* the program; and it takes no mutex that another has.
LEMMA OthersKeep ==
  ASSUME NEW t \in Threads \ {Main}, ClientStep(t), TypeInv
  PROVE  /\ program' = program
         /\ DOMAIN pc' = Threads /\ DOMAIN temp' = Threads /\ DOMAIN owner' = Mutexes
         /\ k' \in [Threads -> Nat]
         /\ \A u \in Threads \ {t} : pc'[u] = pc[u] /\ k'[u] = k[u] /\ temp'[u] = temp[u]
         /\ \A m \in Mutexes : owner[m] \notin {NULL, t} => owner'[m] = owner[m]
<1>. USE DEF TypeInv, shared, local, vars, Goto, Internal
<1>1. CASE While(t)
  BY <1>1 DEF While, Leave, Exit
<1>2. CASE Compare(t) \/ Save(t) \/ Move(t) \/ Restore(t) \/ Check(t) \/ Quit(t)
  BY <1>2 DEF Compare, Save, Move, Restore, Check, Quit
<1>3. CASE Yield(t)
  BY <1>3 DEF Yield, Switched, Switch
<1>4. CASE For(t) \/ Load(t) \/ Store(t)
  BY <1>4 DEF For, Load, Store, Leave, Exit
<1>5. CASE Rows(t)
  BY <1>5 DEF Rows, Leave, Exit
<1>6. CASE Lock(t)
  BY <1>6 DEF Lock, Acquire, Park
<1>7. CASE Unlock(t)
  BY <1>7 DEF Unlock, Release
<1>. QED BY <1>1, <1>2, <1>3, <1>4, <1>5, <1>6, <1>7 DEF ClientStep

\* Every step keeps the types.
LEMMA TypeStep == ASSUME Inv, [ClientNext]_allVars PROVE TypeInv'
<1>. USE DEF Inv, TypeInv
<1>1. CASE \E t \in Threads \ {Main} : ClientStep(t)
  <2>. PICK t \in Threads \ {Main} : ClientStep(t)
    BY <1>1
  <2>1. /\ program' = program
        /\ DOMAIN pc' = Threads /\ DOMAIN temp' = Threads /\ DOMAIN owner' = Mutexes
        /\ k' \in [Threads -> Nat]
        /\ \A u \in Threads \ {t} : temp'[u] = temp[u]
    BY OthersKeep
  <2>2. ASSUME program = "mtsort", NEW u \in Workers PROVE temp'[u] \in Int
    <3>1. u \in Threads \ {Main}
      BY WorkersAreThreads
    <3>2. temp[u] \in Int /\ num[u - 1] \in Int
      BY <2>2, NumbersAssumption DEF Workers
    <3>3. CASE t # u
      BY <2>1, <3>1, <3>2, <3>3
    <3>4. CASE t = u
      <4>1. pc[u] \notin {"load", "store", "for", "mm"}
        BY <2>2, <3>1 DEF Places, Place, PlacesOf, Checking, Elsewhere, Sorting, Exchanging
      <4>2. CASE UNCHANGED temp
        BY <3>2, <4>2
      <4>3. CASE Save(t) \/ Check(t)
        BY <3>1, <3>2, <3>4, <4>3 DEF Save, Check
      <4>. QED
        BY <3>4, <4>1, <4>2, <4>3 DEF ClientStep, While, Compare, Move, Restore, Quit, Yield,
             For, Load, Store, Rows, Lock, Unlock, Leave, Internal, At, local, shared
    <3>. QED BY <3>3, <3>4
  <2>3. num' \in [0 .. (LISTSIZE - 1) -> Int]
    <3>1. CASE UNCHANGED num
      BY <3>1
    <3>2. ASSUME Move(t) \/ Restore(t)
          PROVE  program = "mtsort" /\ t # Checker
      BY <3>2 DEF Move, Restore, Internal, At, Places, Place, PlacesOf, Counting, Checking, Elsewhere
    <3>3. ASSUME NEW j \in Int, NEW e, j \in 0 .. (LISTSIZE - 1) => e \in Int
          PROVE  [num EXCEPT ![j] = e] \in [0 .. (LISTSIZE - 1) -> Int]
      BY <3>3
    <3>4. t \in Nat \ {0} /\ (t < LISTSIZE => num[t] \in Int /\ t \in Workers)
      BY NumbersAssumption DEF Workers
    <3>5. ASSUME Move(t) PROVE num' \in [0 .. (LISTSIZE - 1) -> Int]
      <4>. DEFINE e == num[t]
      <4>1. t - 1 \in 0 .. (LISTSIZE - 1) => e \in Int
        BY <3>2, <3>4, <3>5, NumbersAssumption DEF Checker
      <4>2. num' = [num EXCEPT ![t - 1] = e]
        BY <3>5 DEF Move
      <4>. QED BY <3>3, <3>4, <4>1, <4>2
    <3>6. ASSUME Restore(t) PROVE num' \in [0 .. (LISTSIZE - 1) -> Int]
      <4>. DEFINE e == temp[t]
      <4>0. \A u \in Workers : temp[u] \in Int
        BY <3>2, <3>6
      <4>1. t \in 0 .. (LISTSIZE - 1) => e \in Int
        <5>. HAVE t \in 0 .. (LISTSIZE - 1)
        <5>1. t \in Workers
          BY <3>4, NumbersAssumption
        <5>. QED BY <5>1, <4>0
      <4>2. num' = [num EXCEPT ![t] = e]
        BY <3>6 DEF Restore
      <4>. QED BY <3>3, <3>4, <4>1, <4>2
    <3>. QED
      BY <3>1, <3>5, <3>6 DEF ClientStep, While, Compare, Save, Check, Quit, Yield,
           For, Load, Store, Rows, Lock, Unlock, Leave, shared
  <2>. QED BY <2>1, <2>2, <2>3
<1>2. CASE UNCHANGED <<owner, k, temp, shared>> /\ DOMAIN pc' = DOMAIN pc
  BY <1>2 DEF shared
<1>. QED BY <1>1, <1>2, OnlySteps

\* The program texts: a step leads to the next statement of its thread's own.
LEMMA PlacesStep == ASSUME Inv, [ClientNext]_allVars PROVE Places'
<1>. USE DEF Inv, TypeInv, Places
<1>1. CASE \E t \in Threads \ {Main} : ClientStep(t)
  <2>. PICK t \in Threads \ {Main} : ClientStep(t)
    BY <1>1
  <2>1. program' = program /\ \A u \in Threads \ {t} : pc'[u] = pc[u]
    BY OthersKeep
  <2>2. pc'[t] \in PlacesOf(t)
    <3>. USE DEF Place, PlacesOf, Counting, Checking, Elsewhere, Sorting, Exchanging, Internal, At, Goto
    <3>0. CASE While(t)
      BY <3>0 DEF While, Leave
    <3>1. CASE Yield(t)
      BY <3>1 DEF Yield
    <3>2. CASE Compare(t) \/ Save(t) \/ Move(t) \/ Restore(t) \/ Check(t) \/ Quit(t)
      BY <3>2 DEF Compare, Save, Move, Restore, Check, Quit
    <3>3. CASE For(t) \/ Load(t) \/ Store(t) \/ Rows(t)
      BY <3>3 DEF For, Load, Store, Rows, Leave
    <3>4. CASE Lock(t)
      BY <3>4 DEF Lock, Locked, IsChecker, Checker
    <3>5. CASE Unlock(t)
      BY <3>5 DEF Unlock
    <3>. QED BY <3>0, <3>1, <3>2, <3>3, <3>4, <3>5 DEF ClientStep
  <2>3. Place(t)'
    BY <2>1, <2>2 DEF Place, PlacesOf
  <2>4. ASSUME NEW u \in Threads \ {Main}, u # t PROVE Place(u)'
    BY <2>1, <2>4 DEF Place, PlacesOf
  <2>. QED BY <2>3, <2>4
<1>2. CASE UNCHANGED program /\ \A t \in Threads \ {Main} : pc'[t] = pc[t]
  BY <1>2 DEF Place, PlacesOf
<1>. QED BY <1>1, <1>2, OnlySteps DEF shared

\* Outside Lock and Unlock a sorting or checking thread takes and gives nothing, and
\* comes to its locks with none of its mutexes and to its unlocks with all.
LEMMA OwnsBetween ==
  ASSUME Inv, program = "mtsort", NEW t \in Workers, ClientStep(t), ~Lock(t), ~Unlock(t)
  PROVE  Owns(t)'
<1>. USE DEF Inv, TypeInv, Internal, At, Goto, vars, local, shared,
             Exchanging, Sorting, Checking, Elsewhere
<1>1. t \in Threads \ {Main} /\ Owns(t) /\ pc[t] \in Sorting \cup Checking \cup Elsewhere
  BY WorkersAreThreads DEF Owning, Places, Place, PlacesOf
<1>2. UNCHANGED <<owner, k, program>>
  BY <1>1 DEF ClientStep, While, Compare, Save, Move, Restore, Check, Quit, Yield,
       For, Load, Store, Rows, Leave, Exit, Switched, Switch
<1>3. /\ pc[t] \notin {"lock", "unlock"}
      /\ pc'[t] \in {"unlock"} \cup Sorting \cup Checking => pc[t] \in Sorting \cup Checking
  <2>1. CASE While(t)
    BY <1>1, <2>1 DEF While, Leave
  <2>2. CASE Compare(t) \/ Save(t) \/ Move(t) \/ Restore(t) \/ Check(t) \/ Quit(t)
    BY <1>1, <2>2 DEF Compare, Save, Move, Restore, Check, Quit
  <2>3. CASE Yield(t)
    BY <1>1, <2>3 DEF Yield
  <2>4. CASE For(t) \/ Load(t) \/ Store(t) \/ Rows(t)
    BY <1>1, <2>4 DEF For, Load, Store, Rows, Leave
  <2>. QED BY <2>1, <2>2, <2>3, <2>4 DEF ClientStep
<1>4. k[t] = 0 /\ Last(t)' = Last(t)
  BY <1>1, <1>2, <1>3 DEF Owns, Last, IsChecker
<1>5. ASSUME NEW n \in 0 .. Last(t), Has(t, n)' PROVE owner[Mutex(t, n)] = t
  <2>1. n \in Nat
    BY MutexesOfWorker
  <2>2. Has(t, n)
    BY <1>2, <1>3, <1>4, <1>5, <2>1 DEF Has
  <2>. QED BY <1>1, <2>2 DEF Owns
<1>6. \A n : Mutex(t, n)' = Mutex(t, n)
  BY <1>2 DEF Mutex, IsChecker
<1>. QED BY <1>1, <1>2, <1>4, <1>5, <1>6 DEF Owns

\* A thread that gets its next mutex has it besides those it has had; one that
\* waits keeps those.
LEMMA OwnsLock ==
  ASSUME Inv, program = "mtsort", NEW t \in Workers, Lock(t)
  PROVE  Owns(t)'
<1>. USE DEF Inv, TypeInv, At, Goto, shared
<1>1. t \in Threads \ {Main} /\ Owns(t) /\ pc[t] = "lock" /\ k[t] \in 0 .. Last(t)
  BY WorkersAreThreads, MutexesOfWorker DEF Owning, Lock, Owns
<1>2. /\ program' = program /\ Last(t)' = Last(t) /\ \A n : Mutex(t, n)' = Mutex(t, n)
  BY DEF Lock, Last, Mutex, IsChecker
<1>3. CASE UNCHANGED <<pc, k, owner>>
  BY <1>1, <1>2, <1>3 DEF Owns, Has
<1>4. CASE /\ Acquire(t, Mutex(t, k[t]))
           /\ Goto(t, IF k[t] = Last(t) THEN Locked(t) ELSE "lock")
           /\ k' = [k EXCEPT ![t] = IF @ = Last(t) THEN 0 ELSE @ + 1]
  <2>1. owner' = [owner EXCEPT ![Mutex(t, k[t])] = t]
    BY <1>4 DEF Acquire
  <2>2. \A n \in 0 .. k[t] : owner'[Mutex(t, n)] = t
    <3>. TAKE n \in 0 .. k[t]
    <3>1. Mutex(t, n) \in Mutexes
      BY <1>1, MutexesOfWorker
    <3>2. n = k[t] \/ owner[Mutex(t, n)] = t
      BY <1>1, MutexesOfWorker DEF Owns, Has
    <3>. QED BY <2>1, <3>1, <3>2
  <2>3. CASE k[t] = Last(t)
    <3>1. k'[t] = 0 /\ pc'[t] \in {"check", "compare"}
      BY <1>1, <1>4, <2>3 DEF Locked
    <3>. QED BY <1>2, <2>2, <2>3, <3>1, MutexesOfWorker DEF Owns
  <2>4. CASE k[t] # Last(t)
    <3>1. k'[t] = k[t] + 1 /\ pc'[t] = "lock"
      BY <1>1, <1>4, <2>4
    <3>2. \A n \in 0 .. Last(t) : Has(t, n)' => n \in 0 .. k[t]
      BY <1>1, <3>1, MutexesOfWorker DEF Has, Sorting, Checking, Exchanging
    <3>. QED BY <1>1, <1>2, <2>2, <2>4, <3>1, <3>2, MutexesOfWorker DEF Owns
  <2>. QED BY <2>3, <2>4
<1>. QED BY <1>3, <1>4 DEF Lock, Park

\* A thread that gives a mutex back has those of its mutexes that are still to come.
LEMMA OwnsUnlock ==
  ASSUME Inv, program = "mtsort", NEW t \in Workers, Unlock(t)
  PROVE  Owns(t)'
<1>. USE DEF Inv, TypeInv, At, Goto, shared
<1>1. t \in Threads \ {Main} /\ Owns(t) /\ pc[t] = "unlock" /\ k[t] \in 0 .. Last(t)
  BY WorkersAreThreads, MutexesOfWorker DEF Owning, Unlock, Owns
<1>2. /\ program' = program /\ Last(t)' = Last(t) /\ \A n : Mutex(t, n)' = Mutex(t, n)
  BY DEF Unlock, Last, Mutex, IsChecker
<1>3. owner' = [owner EXCEPT ![Mutex(t, k[t])] = NULL]
  BY DEF Unlock, Release
<1>4. ASSUME NEW n \in 0 .. Last(t), n > k[t] PROVE owner'[Mutex(t, n)] = t
  <2>1. Mutex(t, n) \in Mutexes /\ Mutex(t, n) # Mutex(t, k[t])
    BY <1>1, <1>4, MutexesOfWorker
  <2>2. owner[Mutex(t, n)] = t
    BY <1>1, <1>4, MutexesOfWorker DEF Owns, Has
  <2>. QED BY <1>3, <2>1, <2>2
<1>5. CASE k[t] = Last(t)
  <2>1. k'[t] = 0 /\ pc'[t] \in {"for", "yield"}
    BY <1>1, <1>5 DEF Unlock
  <2>. QED BY <1>2, <2>1, MutexesOfWorker DEF Owns, Has, Sorting, Checking, Exchanging
<1>6. CASE k[t] # Last(t)
  <2>1. k'[t] = k[t] + 1 /\ pc'[t] = "unlock"
    BY <1>1, <1>6 DEF Unlock
  <2>2. \A n \in 0 .. Last(t) : Has(t, n)' => n > k[t]
    BY <1>1, <2>1, MutexesOfWorker DEF Has, Sorting, Checking, Exchanging
  <2>. QED BY <1>1, <1>2, <1>4, <1>6, <2>1, <2>2, MutexesOfWorker DEF Owns
<1>. QED BY <1>5, <1>6

\* Every step keeps the mutexes with the threads whose places tell they have them.
LEMMA OwningStep == ASSUME Inv, [ClientNext]_allVars PROVE Owning'
<1>1. CASE \E t \in Threads \ {Main} : ClientStep(t)
  <2>. PICK t \in Threads \ {Main} : ClientStep(t)
    BY <1>1
  <2>1. /\ program' = program
        /\ \A u \in Threads \ {t} : pc'[u] = pc[u] /\ k'[u] = k[u]
        /\ \A m \in Mutexes : owner[m] \notin {NULL, t} => owner'[m] = owner[m]
    BY OthersKeep DEF Inv
  <2>. SUFFICES ASSUME program = "mtsort", NEW u \in Workers PROVE Owns(u)'
    BY <2>1 DEF Owning
  <2>2. CASE u = t
    BY <2>2, OwnsBetween, OwnsLock, OwnsUnlock
  <2>3. CASE u # t
    <3>1. Owns(u) /\ pc'[u] = pc[u] /\ k'[u] = k[u] /\ u \in Threads
      BY <2>1, <2>3, WorkersAreThreads DEF Inv, Owning
    <3>2. Last(u)' = Last(u) /\ \A n : Mutex(u, n)' = Mutex(u, n) /\ Has(u, n)' = Has(u, n)
      BY <2>1, <3>1 DEF Last, Mutex, IsChecker, Has
    <3>3. ASSUME NEW n \in 0 .. Last(u), Has(u, n) PROVE owner'[Mutex(u, n)] = u
      <4>1. owner[Mutex(u, n)] = u /\ Mutex(u, n) \in Mutexes
        BY <3>1, <3>3, MutexesOfWorker DEF Owns
      <4>. QED BY <2>1, <2>3, <3>1, <4>1, NullAssumption
    <3>. QED BY <3>1, <3>2, <3>3 DEF Owns
  <2>. QED BY <2>2, <2>3
<1>2. CASE /\ UNCHANGED <<owner, k, program>>
           /\ \A t \in Threads \ {Main} : pc'[t] = pc[t]
  BY <1>2, WorkersAreThreads DEF Inv, Owning, Owns, Has, Last, Mutex, IsChecker
<1>. QED BY <1>1, <1>2, OnlySteps DEF shared

-----------------------------------------------------------------------------
\* A sorted list with no exchange under way stays so: no comparison starts one.
LEMMA StaysSorted ==
  ASSUME Inv, [ClientNext]_allVars, program = "mtsort", SortedForGood
  PROVE  SortedForGood'
<1>. USE DEF Inv, TypeInv
<1>1. CASE \E t \in Threads \ {Main} : ClientStep(t)
  <2>. PICK t \in Threads \ {Main} : ClientStep(t)
    BY <1>1
  <2>0. pc[t] \in PlacesOf(t) /\ t \in Nat \ {0}
    BY NumbersAssumption DEF Places, Place
  <2>1. \A u \in Threads \ {t} : pc'[u] = pc[u]
    BY OthersKeep
  <2>2. CASE t \notin Workers
    <3>1. \A j \in 0 .. (LISTSIZE - 1) : num'[j] = num[j]
      <4>1. t > LISTSIZE
        BY <2>0, <2>2, NumbersAssumption DEF Workers
      <4>2. CASE Move(t) \/ Restore(t)
        BY <4>1, <4>2, NumbersAssumption DEF Move, Restore
      <4>. QED
        BY <4>2 DEF ClientStep, While, Compare, Save, Check, Quit, Yield,
             For, Load, Store, Rows, Lock, Unlock, Leave, shared
    <3>2. Sorted'
      BY <3>1, NumbersAssumption, SMTT(30) DEF SortedForGood, Sorted
    <3>. QED BY <2>1, <2>2, <3>2, WorkersAreThreads DEF SortedForGood
  <2>3. CASE t \in Workers
    <3>1. pc[t] \notin Exchanging
      BY <2>3 DEF SortedForGood
    <3>2. num' = num
      BY <3>1 DEF ClientStep, While, Compare, Save, Move, Restore, Check, Quit, Yield,
           For, Load, Store, Rows, Lock, Unlock, Leave, shared, Internal, At, Exchanging
    <3>3. pc'[t] \notin Exchanging
      <4>. USE DEF Internal, At, Goto, Exchanging
      <4>1. CASE Compare(t)
        <5>1. t \in 1 .. (LISTSIZE - 1)
          BY <2>0, <2>3, <4>1, NumbersAssumption
             DEF Compare, PlacesOf, Checker, Checking, Elsewhere, Workers
        <5>2. num[t - 1] \in Int /\ num[t] \in Int /\ num[t - 1] <= num[t]
          BY <5>1, NumbersAssumption DEF SortedForGood, Sorted
        <5>. QED BY <4>1, <5>2 DEF Compare
      <4>2. CASE Check(t) \/ Quit(t) \/ Yield(t)
        BY <4>2 DEF Check, Quit, Yield
      <4>3. CASE While(t) \/ For(t) \/ Rows(t)
        BY <4>3 DEF While, For, Rows, Leave
      <4>4. CASE Load(t) \/ Store(t) \/ Save(t) \/ Move(t) \/ Restore(t)
        BY <3>1, <4>4 DEF Load, Store, Save, Move, Restore
      <4>5. CASE Lock(t)
        BY <3>1, <4>5 DEF Lock, Locked
      <4>6. CASE Unlock(t)
        BY <4>6 DEF Unlock
      <4>. QED BY <4>1, <4>2, <4>3, <4>4, <4>5, <4>6 DEF ClientStep
    <3>4. Sorted'
      BY <3>2 DEF SortedForGood, Sorted
    <3>. QED BY <2>1, <3>3, <3>4, WorkersAreThreads DEF SortedForGood
  <2>. QED BY <2>2, <2>3
<1>2. CASE UNCHANGED num /\ \A t \in Threads \ {Main} : pc'[t] = pc[t]
  BY <1>2, WorkersAreThreads DEF SortedForGood, Sorted
<1>. QED BY <1>1, <1>2, OnlySteps DEF shared

\* Every step keeps the verdict true.
LEMMA VerdictStep == ASSUME Inv, [ClientNext]_allVars PROVE Verdict'
<1>. USE DEF Inv, Verdict
<1>1. CASE \E t \in Threads \ {Main} : ClientStep(t)
  <2>. PICK t \in Threads \ {Main} : ClientStep(t)
    BY <1>1
  <2>0. pc[t] \in PlacesOf(t)
    BY DEF Places, Place
  <2>1. program' = program
    BY OthersKeep
  <2>2. quitting' # quitting => Quit(t)
    BY DEF ClientStep, While, Compare, Save, Move, Restore, Check, Yield,
         For, Load, Store, Rows, Lock, Unlock, Leave, shared
  <2>3. Quit(t) => program = "mtsort" /\ t = Checker /\ pc[t] = "quit" /\ quitting' = temp[t]
    BY <2>0 DEF Quit, Internal, At, PlacesOf, Counting, Sorting, Exchanging, Elsewhere, TypeInv
  <2>4. quitting' = 1 => program = "mtsort" /\ SortedForGood'
    BY <2>2, <2>3, StaysSorted
  <2>5. ASSUME program = "mtsort", pc'[Checker] = "quit", temp'[Checker] = 1
        PROVE  SortedForGood'
    <3>1. CASE t # Checker
      <4>1. pc'[Checker] = pc[Checker] /\ temp'[Checker] = temp[Checker]
        BY <3>1, OthersKeep, WorkersAreThreads
      <4>. QED BY <2>5, <4>1, StaysSorted
    <3>2. CASE t = Checker
      <4>1. Check(t)
        BY <2>0, <2>5, <3>2 DEF ClientStep, While, Compare, Save, Move, Restore, Quit, Yield,
             For, Load, Store, Rows, Lock, Locked, Unlock, Leave, Internal, At, Goto, TypeInv
      <4>2. Sorted /\ pc[Checker] = "check"
        BY <2>5, <3>2, <4>1 DEF Check, Internal, At, TypeInv
      <4>3. \A u \in Workers : pc[u] \notin Exchanging
        BY <2>5, <4>2, CheckerAlone DEF Checking
      <4>. QED BY <2>5, <4>2, <4>3, StaysSorted DEF SortedForGood
    <3>. QED BY <3>1, <3>2
  <2>. QED BY <2>1, <2>4, <2>5
<1>2. CASE UNCHANGED <<program, quitting, temp>> /\ \A t \in Threads \ {Main} : pc'[t] = pc[t]
  BY <1>2, StaysSorted, WorkersAreThreads
<1>. QED BY <1>1, <1>2, OnlySteps DEF shared

\* The list, the threads and the mutexes as main sets them up.
LEMMA InvInit == ClientInit => Inv
<1>. SUFFICES ASSUME ClientInit PROVE Inv
  OBVIOUS
<1>. USE DEF ClientInit, Init
<1>0. program \in {"mtsort", "mcounter", "mmatrix"} /\ Main \notin Workers /\ Main # Checker
  BY ProgramsAssumption, WorkersAreThreads
<1>1. TypeInv
  BY <1>0, NumbersAssumption, WorkersAreThreads DEF TypeInv
<1>2. Places
  BY <1>0 DEF Places, Place, PlacesOf, FirstStatement, Counting, Elsewhere
<1>3. Owning
  <2>. SUFFICES ASSUME program = "mtsort", NEW t \in Workers PROVE Owns(t)
    BY DEF Owning
  <2>1. k[t] = 0 /\ pc[t] = "while"
    BY <1>0, WorkersAreThreads DEF FirstStatement
  <2>2. k[t] <= Last(t)
    BY <2>1, MutexesOfWorker
  <2>. QED BY <2>1, <2>2 DEF Owns, Has, Sorting, Checking, Exchanging
<1>4. Verdict
  BY <1>0, WorkersAreThreads DEF Verdict, FirstStatement
<1>. QED BY <1>1, <1>2, <1>3, <1>4 DEF Inv

\* The strengthened invariant is inductive.
THEOREM ClientsInv == ClientSpec => []Inv
<1>1. Inv /\ [ClientNext]_allVars => Inv'
  BY TypeStep, PlacesStep, OwningStep, VerdictStep DEF Inv
<1>. QED BY InvInit, <1>1, PTL DEF ClientSpec

\* When mtsort's threads are told to quit, the list is sorted: however long it is,
\* whichever way the library switches between the threads and wakes them.
THEOREM SortedWhenQuitting == ClientSpec => []QuitsSorted
<1>1. Inv => QuitsSorted
  BY DEF Inv, Verdict, SortedForGood, QuitsSorted
<1>. QED BY ClientsInv, <1>1, PTL

-----------------------------------------------------------------------------
(***************************************************************************)
(* The benchmark programs never wait in a circle, for any number of        *)
(* threads, of numbers and of turns: while a thread waits for a mutex, one *)
(* that main has created can go on.                                        *)
(*                                                                         *)
(* A mutex that somebody waits for has an owner, or a thread that has been *)
(* woken is about to try it (Woken).  The owner is where its program says  *)
(* it has that mutex (Holders); if it waits itself, it waits for a mutex   *)
(* further on in the list, and there is a last one that somebody waits for *)
(* (HasLast, which the steps keep: the provers have no induction over the  *)
(* length of the list, but they need none).                                *)
(***************************************************************************)

Clients == 1 .. Created

Having == Sorting \cup Checking \cup {"load", "store"}

\* Whether thread t of any program has its nth mutex.
HasNth(t, n) ==
  \/ pc[t] = "lock" /\ n < k[t]
  \/ pc[t] = "unlock" /\ n >= k[t]
  \/ pc[t] \in Having

Able(t) == status[t] \in {"ready", "running"}

\* Thread t is about to lock mutex m, or waits in that call.
Wants(t, m) == pc[t] = "lock" /\ Mutex(t, k[t]) = m

\* Only the threads that main has created have begun, and only those wait.
Begun ==
  /\ DOMAIN status = Threads /\ DOMAIN waiters = Mutexes /\ DOMAIN i = Threads
  /\ \A t \in Threads \ {Main} : t \notin Clients => status[t] = "new"
  /\ status[Main] # "waiting"
  /\ pc[Main] = "create" => i[Main] \in 0 .. (Created - 1)

\* A thread of mcounter takes one mutex.
OneMutex == program = "mcounter" => \A t \in Clients : k[t] = 0

\* The waiters of a mutex are clients that wait for it, each once.
Queued(m) ==
  /\ waiters[m] \in Seq(Clients)
  /\ \A j \in 1 .. Len(waiters[m]) :
       status[waiters[m][j]] = "waiting" /\ Wants(waiters[m][j], m)
  /\ \A j, l \in 1 .. Len(waiters[m]) : waiters[m][j] = waiters[m][l] => j = l

\* A client that waits is among the waiters of a mutex.
Waits(t) == status[t] = "waiting" => \E m \in Mutexes : \E j \in 1 .. Len(waiters[m]) : waiters[m][j] = t

\* While a mutex has waiters it has an owner, or an able thread is about to try it.
Woken(m) == waiters[m] # <<>> => owner[m] # NULL \/ \E u \in Clients : Able(u) /\ Wants(u, m)

\* The owner of a mutex is a client whose place tells that it has it.
Holders(m) ==
  owner[m] # NULL =>
    /\ owner[m] \in Clients
    /\ Able(owner[m]) \/ status[owner[m]] = "waiting"
    /\ \E n \in 0 .. Last(owner[m]) : m = Mutex(owner[m], n) /\ HasNth(owner[m], n)

\* Of the mutexes before b there is a last one that has waiters, or none has.
HasLast(b) ==
  \/ \A m \in Mutexes : m < b => waiters[m] = <<>>
  \/ \E h \in Mutexes : /\ h < b /\ waiters[h] # <<>>
                       /\ \A m \in Mutexes : h < m /\ m < b => waiters[m] = <<>>

WaitInv ==
  /\ Begun
  /\ OneMutex
  /\ \A m \in Mutexes : Queued(m) /\ Woken(m) /\ Holders(m)
  /\ \A t \in Clients : Waits(t)
  /\ \A b \in 0 .. LISTSIZE : HasLast(b)

-----------------------------------------------------------------------------
\* The clients are threads, and in mtsort those that sort and check.
LEMMA ClientsAreThreads ==
  /\ Created \in Nat \ {0}
  /\ Clients \subseteq Threads \ {Main}
  /\ program = "mtsort" => Clients = Workers
BY NumbersAssumption DEF Clients, Created, Workers

\* The mutexes of a client, in the order in which it takes them.
LEMMA MutexesInOrder ==
  ASSUME Inv, OneMutex, program # "mmatrix", NEW t \in Clients
  PROVE  /\ Last(t) \in Nat
         /\ k[t] \in 0 .. Last(t)
         /\ pc[t] \notin {"lock", "unlock"} => k[t] = 0
         /\ \A n \in 0 .. Last(t) : Mutex(t, n) \in Mutexes
         /\ \A n, m \in 0 .. Last(t) : n < m => Mutex(t, n) < Mutex(t, m)
<1>0. t \in Threads \ {Main} /\ k[t] \in Nat
  BY ClientsAreThreads DEF Inv, TypeInv
<1>1. CASE program = "mtsort"
  <2>1. t \in Workers /\ Owns(t)
    BY <1>1, ClientsAreThreads DEF Inv, Owning
  <2>2. \A n, m \in 0 .. Last(t) : n < m => Mutex(t, n) < Mutex(t, m)
    BY <1>1, <2>1, NumbersAssumption DEF Mutex, Last, IsChecker, Workers
  <2>. QED BY <1>0, <1>1, <2>1, <2>2, MutexesOfWorker DEF Owns
<1>2. CASE program = "mcounter"
  BY <1>0, <1>2, NumbersAssumption DEF OneMutex, Last, Mutex
<1>. QED BY <1>1, <1>2 DEF Inv, TypeInv

\* What a step that locks and unlocks nothing may do to a client: let it run or
\* not, take it on between its calls, or end it.
Quiet(t) ==
  /\ k'[t] = k[t]
  /\ \/ /\ pc'[t] = pc[t]
        /\ \/ status'[t] = status[t]
           \/ Able(t) /\ Able(t)'
           \/ status[t] = "new" /\ status'[t] = "ready"
     \/ /\ pc[t] \notin {"lock", "unlock"}
        /\ Able(t) /\ Able(t)'
        /\ pc[t] \in Having => pc'[t] \in Having \cup {"unlock"}
     \/ /\ pc[t] \notin {"lock", "unlock"}
        /\ Able(t) /\ status'[t] = "done"
        /\ \A m \in Mutexes : owner[m] # t

\* A thread that runs is a client or main.
LEMMA RunnersAreClients ==
  ASSUME Begun, NEW t \in Threads \ {Main}, NEW place, At(t, place)
  PROVE  t \in Clients
BY DEF Begun, At

\* A switch changes who runs.
LEMMA SwitchQuiet ==
  ASSUME Begun, Switched
  PROVE  /\ UNCHANGED <<owner, waiters>>
         /\ DOMAIN status' = Threads
         /\ \A t \in Threads : status'[t] = status[t] \/ (Able(t) /\ Able(t)')
BY DEF Begun, Switched, Switch, Able

\* A thread ends with no mutex.
LEMMA LeaveQuiet ==
  ASSUME Begun, NEW t \in Threads \ {Main}, Leave(t)
  PROVE  /\ UNCHANGED <<owner, waiters>>
         /\ DOMAIN status' = Threads
         /\ Able(t) /\ status'[t] = "done"
         /\ \A u \in Threads \ {t} : status'[u] = status[u]
         /\ \A m \in Mutexes : owner[m] # t
BY DEF Begun, Leave, Exit, Able

\* A step of a client that is no call of lock or unlock.
LEMMA StepQuiet ==
  ASSUME Inv, Begun, NEW t \in Threads \ {Main}, ClientStep(t), ~Lock(t), ~Unlock(t)
  PROVE  /\ UNCHANGED <<owner, waiters, program>>
         /\ DOMAIN i' = Threads /\ i'[Main] = i[Main]
         /\ DOMAIN status' = Threads
         /\ \A u \in Threads \ {Main} : Quiet(u)
         /\ status'[Main] = status[Main] \/ (Able(Main) /\ Able(Main)')
<1>. USE DEF Internal, At, Goto, local, shared
<1>0. /\ \A u \in Threads \ {t} : pc'[u] = pc[u]
      /\ program' = program
      /\ t # Main /\ t \in DOMAIN status
  BY OthersKeep DEF Inv, Begun
<1>1. k' = k /\ DOMAIN i' = Threads /\ i'[Main] = i[Main]
  <2>. USE DEF Begun
  <2>1. CASE While(t)
    BY <2>1 DEF While, Leave
  <2>2. CASE Compare(t) \/ Save(t) \/ Move(t) \/ Restore(t) \/ Check(t) \/ Quit(t) \/ Yield(t)
    BY <2>2 DEF Compare, Save, Move, Restore, Check, Quit, Yield
  <2>3. CASE For(t) \/ Load(t) \/ Store(t)
    BY <2>3 DEF For, Load, Store, Leave
  <2>4. CASE Rows(t)
    <3>1. k' = k /\ (i' = i \/ i' = [i EXCEPT ![t] = i[t] + NTHREADS])
      BY <2>4 DEF Rows, Leave
    <3>. QED BY <1>0, <3>1, NumbersAssumption
  <2>. QED BY <2>1, <2>2, <2>3, <2>4 DEF ClientStep
<1>3. CASE Leave(t) /\ pc[t] \notin {"lock", "unlock"}
  <2>1. Quiet(t)
    BY <1>1, <1>3, LeaveQuiet DEF Quiet
  <2>2. \A u \in Threads \ {t} : Quiet(u)
    BY <1>0, <1>1, <1>3, LeaveQuiet DEF Quiet
  <2>. QED BY <1>0, <1>1, <1>3, <2>1, <2>2, LeaveQuiet, NumbersAssumption
<1>4. CASE /\ UNCHANGED vars
           /\ status[t] = "running" /\ pc[t] \notin {"lock", "unlock"}
           /\ pc[t] \in Having => pc'[t] \in Having \cup {"unlock"}
  <2>1. Quiet(t)
    BY <1>1, <1>4 DEF Quiet, Able, vars
  <2>2. \A u \in Threads \ {t} : Quiet(u)
    BY <1>0, <1>1, <1>4 DEF Quiet, vars
  <2>. QED BY <1>0, <1>1, <1>4, <2>1, <2>2 DEF vars, Begun
<1>5. CASE Yield(t)
  <2>1. CASE UNCHANGED vars
    BY <1>4, <1>5, <2>1 DEF Yield, Having, Sorting, Checking, Exchanging
  <2>2. CASE Switched
    <3>1. Able(t) /\ pc[t] = "yield"
      BY <1>5 DEF Yield, Able
    <3>2. Able(t)'
      BY <2>2, <3>1, SwitchQuiet DEF Able
    <3>3. Quiet(t)
      BY <1>1, <3>1, <3>2 DEF Quiet, Having, Sorting, Checking, Exchanging
    <3>4. \A u \in Threads \ {t} : Quiet(u)
      BY <1>0, <1>1, <2>2, SwitchQuiet DEF Quiet
    <3>. QED BY <1>0, <1>1, <2>2, <3>3, <3>4, SwitchQuiet, NumbersAssumption
  <2>. QED BY <1>5, <2>1, <2>2 DEF Yield
<1>6. CASE While(t)
  BY <1>3, <1>4, <1>6 DEF While, Having, Sorting, Checking, Exchanging
<1>7. CASE Compare(t) \/ Save(t) \/ Move(t) \/ Restore(t) \/ Check(t) \/ Quit(t)
  BY <1>4, <1>7 DEF Compare, Save, Move, Restore, Check, Quit, Having, Sorting, Checking, Exchanging,
       Inv, TypeInv
<1>8. CASE For(t) \/ Load(t) \/ Store(t) \/ Rows(t)
  BY <1>3, <1>4, <1>8 DEF For, Load, Store, Rows, Having, Sorting, Checking, Exchanging, Inv, TypeInv
<1>. QED BY <1>5, <1>6, <1>7, <1>8 DEF ClientStep

\* A step of a client that is no call of lock or unlock starts no thread.
LEMMA StepStarts ==
  ASSUME Inv, Begun, NEW t \in Threads \ {Main}, ClientStep(t), ~Lock(t), ~Unlock(t)
  PROVE  /\ status[t] = "running"
         /\ \A u \in Threads \ {t} : status'[u] = status[u] \/ (Able(u) /\ Able(u)')
<1>1. status[t] = "running"
  BY DEF ClientStep, While, Compare, Save, Move, Restore, Check, Quit, Yield, For, Load, Store, Rows,
         Internal, At
<1>2. UNCHANGED vars \/ Leave(t) \/ Switched
  BY DEF ClientStep, While, Compare, Save, Move, Restore, Check, Quit, Yield, For, Load, Store, Rows,
         Internal
<1>. QED BY <1>1, <1>2, LeaveQuiet, SwitchQuiet DEF vars

\* Main's steps, and the library's between those of the clients.
LEMMA RestQuiet ==
  ASSUME Inv, Begun, [ClientNext]_allVars, ~ \E t \in Threads \ {Main} : ClientStep(t)
  PROVE  /\ UNCHANGED <<owner, waiters, program>>
         /\ Begun'
         /\ \A t \in Threads \ {Main} : Quiet(t)
<1>. USE DEF Inv, TypeInv, Goto, local, shared
<1>1. CASE /\ UNCHANGED <<pc, local, shared>>
           /\ Switched \/ Continue \/ UNCHANGED vars
  <2>1. UNCHANGED <<owner, waiters>> /\ DOMAIN status' = Threads
    BY <1>1, SwitchQuiet DEF Continue, Pick, vars, Begun
  <2>2. \A t \in Threads : status'[t] = status[t] \/ (Able(t) /\ Able(t)')
    <3>1. CASE Continue
      BY <3>1 DEF Continue, Pick, Begun, Able
    <3>. QED BY <1>1, <3>1, SwitchQuiet DEF vars
  <2>3. Begun'
    BY <1>1, <2>1, <2>2, NumbersAssumption, SMTT(30) DEF Begun, Able, Clients, Created
  <2>. QED BY <1>1, <2>1, <2>2, <2>3 DEF Quiet
<1>2. CASE Create
  <2>. DEFINE u == i[Main] + 1
  <2>1. u \in Clients /\ i[Main] \in 0 .. (Created - 1)
    BY <1>2, ClientsAreThreads DEF Create, Begun, Clients
  <2>2. u \in Threads \ {Main}
    BY <2>1, ClientsAreThreads
  <2>3. /\ UNCHANGED <<owner, waiters, k, program>> /\ DOMAIN status' = Threads
        /\ status[u] = "new" /\ status'[u] = "ready" /\ status'[Main] # "waiting"
        /\ \A t \in Threads \ {Main, u} : status'[t] = status[t]
    <3>1. UNCHANGED <<k, program>> /\ (Start(u) \/ Spawn(Main, u))
      BY <1>2 DEF Create
    <3>2. Main \in Threads /\ DOMAIN status = Threads /\ status[Main] # "waiting"
      BY NumbersAssumption DEF Begun
    <3>. HIDE DEF u
    <3>3. CASE Start(u)
      BY <2>2, <3>1, <3>2, <3>3 DEF Start
    <3>4. CASE Spawn(Main, u)
      BY <2>2, <3>1, <3>2, <3>4 DEF Spawn
    <3>. QED BY <3>1, <3>3, <3>4
  <2>4. \A t \in Threads \ {Main} : pc'[t] = pc[t] /\ Quiet(t)
    BY <1>2, <2>2, <2>3 DEF Create, Quiet
  <2>5. DOMAIN i' = Threads /\ (pc'[Main] = "create" => i'[Main] \in 0 .. (Created - 1))
    <3>1. DOMAIN i' = Threads /\ i'[Main] = u % Created
      BY <1>2, NumbersAssumption DEF Create, Begun
    <3>2. pc'[Main] = "create" => u # Created
      BY <1>2, NumbersAssumption DEF Create
    <3>3. u # Created => u \in 0 .. (Created - 1)
      BY <2>1, ClientsAreThreads DEF Clients
    <3>4. u \in 0 .. (Created - 1) => u % Created = u
      BY ClientsAreThreads, SMTT(30)
    <3>. QED BY <3>1, <3>2, <3>3, <3>4
  <2>6. Begun'
    BY <2>1, <2>3, <2>5 DEF Begun, Clients, Created
  <2>. QED BY <2>3, <2>4, <2>6
<1>3. CASE Join
  <2>1. CASE Switched /\ UNCHANGED <<pc, local, shared>>
    BY <1>1, <2>1
  <2>2. CASE \E next \in {"join", "report"} : \E e :
               /\ Internal(Main, "join", next)
               /\ i' = [i EXCEPT ![Main] = e]
               /\ UNCHANGED <<k, temp, shared>>
    <3>1. UNCHANGED <<status, owner, waiters, k, program>> /\ pc'[Main] # "create" /\ DOMAIN i' = Threads
      BY <2>2, NumbersAssumption DEF Internal, vars, Begun
    <3>2. \A t \in Threads \ {Main} : pc'[t] = pc[t]
      BY <2>2 DEF Internal
    <3>. QED BY <3>1, <3>2 DEF Begun, Quiet, Clients, Created
  <2>. QED BY <1>3, <2>1, <2>2 DEF Join
<1>. QED BY <1>1, <1>2, <1>3 DEF ClientNext, Preempt, Continue, allVars

\* The mutexes of a thread are those of its program.
LEMMA SameMutexes ==
  ASSUME UNCHANGED program
  PROVE  /\ Clients' = Clients
         /\ \A t, n : Mutex(t, n)' = Mutex(t, n)
         /\ \A t : Last(t)' = Last(t)
BY DEF Clients, Created, Mutex, Last, IsChecker

\* The threads of mmatrix neither lock nor have anything.
LEMMA NoMutexes ==
  ASSUME Inv, NEW t \in Clients, pc[t] \in {"lock", "unlock"} \cup Having
  PROVE  program # "mmatrix"
BY ClientsAreThreads DEF Inv, Places, Place, PlacesOf, Having, Sorting, Checking, Exchanging

\* The waiting is kept by steps that lock and unlock nothing.
LEMMA QuietKeeps ==
  ASSUME Inv, WaitInv, UNCHANGED <<owner, waiters, program>>, Begun',
         \A t \in Threads \ {Main} : Quiet(t)
  PROVE  WaitInv'
<1>0. \A t \in Clients : Quiet(t)
  BY ClientsAreThreads
<1>1. OneMutex'
  BY <1>0, SameMutexes DEF WaitInv, OneMutex, Quiet
<1>2. ASSUME NEW t \in Clients, NEW m, Wants(t, m) PROVE Wants(t, m)'
  BY <1>0, <1>2, SameMutexes DEF Wants, Quiet
<1>3. ASSUME NEW t \in Clients PROVE (status[t] = "waiting") = (status'[t] = "waiting")
  BY <1>0 DEF Quiet, Able
<1>4. ASSUME NEW m \in Mutexes PROVE Queued(m)'
  <2>1. Queued(m) /\ waiters' = waiters
    BY DEF WaitInv
  <2>2. ASSUME NEW j \in 1 .. Len(waiters[m])
        PROVE  status'[waiters[m][j]] = "waiting" /\ Wants(waiters[m][j], m)'
    <3>1. waiters[m][j] \in Clients
      BY <2>1, ElementOfSeq DEF Queued
    <3>. QED BY <2>1, <3>1, <1>2, <1>3 DEF Queued
  <2>. QED BY <2>1, <2>2, SameMutexes DEF Queued
<1>5. ASSUME NEW t \in Clients PROVE Waits(t)'
  BY <1>3 DEF WaitInv, Waits
<1>6. ASSUME NEW m \in Mutexes PROVE Woken(m)'
  <2>1. ASSUME NEW u \in Clients, Able(u), Wants(u, m) PROVE Able(u)' /\ Wants(u, m)'
    BY <1>0, <1>2, <2>1 DEF Quiet, Able, Wants
  <2>. QED BY <2>1, SameMutexes DEF WaitInv, Woken
<1>7. ASSUME NEW m \in Mutexes PROVE Holders(m)'
  <2>. SUFFICES ASSUME owner[m] # NULL PROVE Holders(m)'
    BY DEF Holders
  <2>. DEFINE u == owner[m]
  <2>1. /\ u \in Clients /\ Quiet(u)
        /\ Able(u) \/ status[u] = "waiting"
    BY <1>0 DEF WaitInv, Holders
  <2>2. PICK n \in 0 .. Last(u) : m = Mutex(u, n) /\ HasNth(u, n)
    BY DEF WaitInv, Holders
  <2>3. Able(u)' \/ status'[u] = "waiting"
    BY <2>1 DEF Quiet, Able
  <2>4. HasNth(u, n)'
    <3>1. CASE pc'[u] = pc[u]
      BY <2>1, <2>2, <3>1 DEF Quiet, HasNth
    <3>2. CASE pc'[u] # pc[u]
      <4>1. pc[u] \in Having /\ pc'[u] \in Having \cup {"unlock"} /\ k'[u] = k[u] /\ pc[u] \notin {"lock", "unlock"}
        BY <2>1, <2>2, <3>2 DEF Quiet, HasNth
      <4>2. k[u] = 0 /\ Last(u) \in Nat
        BY <2>1, <4>1, NoMutexes, MutexesInOrder DEF WaitInv
      <4>. QED BY <2>2, <4>1, <4>2 DEF HasNth
    <3>. QED BY <3>1, <3>2
  <2>. QED BY <2>1, <2>2, <2>3, <2>4, SameMutexes DEF Holders
<1>8. ASSUME NEW b \in 0 .. LISTSIZE PROVE HasLast(b)'
  BY DEF WaitInv, HasLast
<1>. QED BY <1>1, <1>4, <1>5, <1>6, <1>7, <1>8, SameMutexes DEF WaitInv

-----------------------------------------------------------------------------
\* A thread that locks or unlocks is a client at one of its mutexes; it leaves
\* where the others are.
LEMMA Call ==
  ASSUME Inv, WaitInv, NEW t \in Threads \ {Main}, Lock(t) \/ Unlock(t)
  PROVE  /\ t \in Clients /\ status[t] = "running" /\ pc[t] \in {"lock", "unlock"}
         /\ Last(t) \in Nat /\ k[t] \in 0 .. Last(t) /\ Mutex(t, k[t]) \in Mutexes
         /\ \A n \in 0 .. Last(t) : Mutex(t, n) \in Mutexes
         /\ \A n, m \in 0 .. Last(t) : n < m => Mutex(t, n) < Mutex(t, m)
         /\ program' = program
         /\ \A u \in Threads \ {t} : pc'[u] = pc[u] /\ k'[u] = k[u]
         /\ DOMAIN i' = Threads /\ i'[Main] = i[Main]
         /\ OneMutex'
<1>1. t \in Clients /\ status[t] = "running" /\ pc[t] \in {"lock", "unlock"}
  BY RunnersAreClients DEF WaitInv, Lock, Unlock, At
<1>2. program # "mmatrix"
  BY <1>1, NoMutexes
<1>3. /\ Last(t) \in Nat /\ k[t] \in 0 .. Last(t)
      /\ \A n \in 0 .. Last(t) : Mutex(t, n) \in Mutexes
      /\ \A n, m \in 0 .. Last(t) : n < m => Mutex(t, n) < Mutex(t, m)
  BY <1>1, <1>2, MutexesInOrder DEF WaitInv
<1>4. /\ program' = program
      /\ \A u \in Threads \ {t} : pc'[u] = pc[u] /\ k'[u] = k[u]
  BY OthersKeep DEF ClientStep, Inv
<1>5. DOMAIN i' = Threads /\ i'[Main] = i[Main]
  <2>1. i' = i \/ \E e : i' = [i EXCEPT ![t] = e]
    BY DEF Lock, Unlock
  <2>. QED BY <2>1, NumbersAssumption DEF WaitInv, Begun
<1>6. OneMutex'
  <2>. SUFFICES ASSUME program = "mcounter", NEW u \in Clients PROVE k'[u] = 0
    BY <1>4, SameMutexes DEF OneMutex
  <2>1. Last(t) = 0 /\ k[t] = 0 /\ k[u] = 0
    BY <1>1 DEF WaitInv, OneMutex, Last
  <2>2. k' = k \/ k' = [k EXCEPT ![t] = IF k[t] = Last(t) THEN 0 ELSE k[t] + 1]
    BY DEF Lock, Unlock
  <2>. QED BY <1>1, <2>1, <2>2, ClientsAreThreads DEF Inv, TypeInv
<1>. QED BY <1>1, <1>3, <1>4, <1>5, <1>6

\* The clients are begun as before by a call that starts none.
LEMMA CallBegun ==
  ASSUME Inv, WaitInv, NEW t \in Threads \ {Main}, Lock(t) \/ Unlock(t),
         DOMAIN status' = Threads, DOMAIN waiters' = Mutexes, status'[Main] # "waiting",
         \A u \in Threads \ {Main} : u \notin Clients => status'[u] = status[u]
  PROVE  Begun'
<1>1. Clients' = Clients /\ Created' = Created /\ pc'[Main] = pc[Main]
  BY Call, SameMutexes, NumbersAssumption DEF Created
<1>. QED BY <1>1, Call DEF WaitInv, Begun

\* Who has a mutex that the call of another leaves alone.
LEMMA OthersHold ==
  ASSUME Inv, WaitInv, NEW t \in Threads \ {Main}, Lock(t) \/ Unlock(t),
         NEW m \in Mutexes, owner[m] \notin {NULL, t}, owner'[m] = owner[m],
         Able(owner[m])' \/ status'[owner[m]] = "waiting"
  PROVE  Holders(m)'
<1>. DEFINE u == owner[m]
<1>1. u \in Clients /\ u \in Threads \ {t}
  BY ClientsAreThreads DEF WaitInv, Holders
<1>2. PICK n \in 0 .. Last(u) : m = Mutex(u, n) /\ HasNth(u, n)
  BY DEF WaitInv, Holders
<1>3. HasNth(u, n)'
  BY <1>1, <1>2, Call DEF HasNth
<1>. QED BY <1>1, <1>2, <1>3, Call, SameMutexes DEF Holders

\* A client that does not call wants the mutex it has wanted.
LEMMA OthersWant ==
  ASSUME Inv, WaitInv, NEW t \in Threads \ {Main}, Lock(t) \/ Unlock(t),
         NEW u \in Clients \ {t}, NEW m
  PROVE  Wants(u, m)' = Wants(u, m)
BY Call, SameMutexes, ClientsAreThreads DEF Wants

\* A client that runs or is ready is among no mutex's waiters.
LEMMA AbleNotQueued ==
  ASSUME WaitInv, NEW m \in Mutexes, NEW j \in 1 .. Len(waiters[m])
  PROVE  /\ waiters[m][j] \in Clients
         /\ status[waiters[m][j]] = "waiting"
         /\ Wants(waiters[m][j], m)
<1>1. Queued(m)
  BY DEF WaitInv
<1>. QED BY <1>1, ElementOfSeq DEF Queued

\* The waiting is kept by a thread that gets its mutex.
LEMMA AcquireKeeps ==
  ASSUME Inv, WaitInv, NEW t \in Threads \ {Main}, Lock(t), Acquire(t, Mutex(t, k[t])),
         Goto(t, IF k[t] = Last(t) THEN Locked(t) ELSE "lock"),
         k' = [k EXCEPT ![t] = IF @ = Last(t) THEN 0 ELSE @ + 1]
  PROVE  WaitInv'
<1>. DEFINE x == Mutex(t, k[t])
<1>1. /\ UNCHANGED <<status, waiters>>
      /\ owner' = [owner EXCEPT ![x] = t] /\ owner'[x] = t
      /\ x \in Mutexes /\ t # NULL /\ pc[t] = "lock"
  BY Call, NullAssumption DEF Acquire, Lock, At, Inv, TypeInv
<1>. HIDE DEF x
<1>2. Begun'
  BY <1>1, CallBegun DEF WaitInv, Begun
<1>3. ASSUME NEW m \in Mutexes PROVE Queued(m)'
  <2>1. ASSUME NEW j \in 1 .. Len(waiters[m])
        PROVE  status'[waiters[m][j]] = "waiting" /\ Wants(waiters[m][j], m)'
    <3>1. waiters[m][j] \in Clients \ {t} /\ status[waiters[m][j]] = "waiting" /\ Wants(waiters[m][j], m)
      BY AbleNotQueued, Call
    <3>. QED BY <1>1, <3>1, OthersWant
  <2>2. Queued(m)
    BY DEF WaitInv
  <2>. QED BY <1>1, <2>1, <2>2, Call, SameMutexes DEF Queued
<1>4. ASSUME NEW m \in Mutexes PROVE Woken(m)'
  <2>1. CASE m = x
    BY <1>1, <2>1 DEF Woken
  <2>2. ASSUME m # x, NEW u \in Clients, Able(u), Wants(u, m) PROVE Able(u)' /\ Wants(u, m)'
    <3>1. u # t
      BY <2>2 DEF Wants, x
    <3>. QED BY <1>1, <2>2, <3>1, OthersWant DEF Able
  <2>3. CASE m # x
    BY <1>1, <2>2, <2>3, Call, SameMutexes DEF WaitInv, Woken
  <2>. QED BY <2>1, <2>3
<1>5. ASSUME NEW n \in 0 .. Last(t), n = k[t] \/ HasNth(t, n) PROVE HasNth(t, n)'
  <2>1. n <= k[t] /\ n \in Nat /\ k[t] \in Nat /\ t \in Threads
    BY <1>1, <1>5, Call DEF HasNth, Having, Sorting, Checking, Exchanging
  <2>2. CASE k[t] = Last(t)
    BY <2>2, <2>1 DEF Goto, Locked, HasNth, Having, Sorting, Checking, Inv, TypeInv
  <2>3. CASE k[t] # Last(t)
    BY <2>3, <2>1 DEF Goto, HasNth, Inv, TypeInv
  <2>. QED BY <2>2, <2>3
<1>6. ASSUME NEW m \in Mutexes PROVE Holders(m)'
  <2>1. CASE m = x
    <3>1. Able(t)' /\ t \in Clients /\ k[t] \in 0 .. Last(t)
      BY <1>1, Call DEF Able
    <3>. QED BY <1>1, <1>5, <2>1, <3>1, Call, SameMutexes DEF Holders, x
  <2>2. CASE m # x /\ owner[m] = t
    <3>1. Able(t)' /\ t \in Clients
      BY <1>1, Call DEF Able
    <3>2. PICK n \in 0 .. Last(t) : m = Mutex(t, n) /\ HasNth(t, n)
      BY <1>1, <2>2 DEF WaitInv, Holders
    <3>3. HasNth(t, n)'
      BY <1>5, <3>2
    <3>. QED BY <1>1, <2>2, <3>1, <3>2, <3>3, Call, SameMutexes DEF Holders
  <2>3. CASE m # x /\ owner[m] \notin {t, NULL}
    <3>1. Able(owner[m])' \/ status'[owner[m]] = "waiting"
      BY <1>1, <2>3 DEF WaitInv, Holders, Able
    <3>. QED BY <1>1, <2>3, <3>1, OthersHold
  <2>4. CASE m # x /\ owner[m] = NULL
    BY <1>1, <2>4 DEF Holders
  <2>. QED BY <2>1, <2>2, <2>3, <2>4
<1>7. ASSUME NEW u \in Clients PROVE Waits(u)'
  BY <1>1 DEF WaitInv, Waits
<1>8. ASSUME NEW b \in 0 .. LISTSIZE PROVE HasLast(b)'
  BY <1>1 DEF WaitInv, HasLast
<1>. QED BY <1>2, <1>3, <1>4, <1>6, <1>7, <1>8, Call, SameMutexes DEF WaitInv

\* The waiting is kept by a thread that has to wait: another has the mutex.
LEMMA ParkKeeps ==
  ASSUME Inv, WaitInv, NEW t \in Threads \ {Main}, Lock(t), UNCHANGED <<pc, k>>,
         NEW v \in Threads, Park(t, v, Mutex(t, k[t]))
  PROVE  WaitInv'
<1>. DEFINE x == Mutex(t, k[t])
<1>1. /\ t \in Clients /\ x \in Mutexes /\ Wants(t, x) /\ UNCHANGED owner
      /\ owner[x] \notin {NULL, t}
      /\ status[t] = "running" /\ status[v] = "ready"
      /\ status' = [status EXCEPT ![t] = "waiting", ![v] = "running"]
      /\ waiters' = [waiters EXCEPT ![x] = Append(@, t)]
  BY Call DEF Park, Lock, At, Wants
<1>. HIDE DEF x
<1>2. /\ DOMAIN status' = Threads /\ DOMAIN waiters' = Mutexes
      /\ status'[t] = "waiting" /\ status'[v] = "running"
      /\ \A u \in Threads \ {t, v} : status'[u] = status[u]
      /\ waiters'[x] = Append(waiters[x], t)
      /\ \A m \in Mutexes \ {x} : waiters'[m] = waiters[m]
  BY <1>1, ClientsAreThreads DEF WaitInv, Begun
<1>3. v \in Clients \cup {Main}
  BY <1>1 DEF WaitInv, Begun
<1>4. Begun'
  <2>1. status'[Main] # "waiting"
    BY <1>1, <1>2, NumbersAssumption DEF WaitInv, Begun
  <2>2. \A u \in Threads \ {Main} : u \notin Clients => status'[u] = status[u]
    BY <1>1, <1>2, <1>3
  <2>. QED BY <1>2, <2>1, <2>2, CallBegun
<1>5. ASSUME NEW u, NEW m PROVE Wants(u, m)' = Wants(u, m)
  BY Call, SameMutexes DEF Wants
<1>6. ASSUME NEW m \in Mutexes, NEW j \in 1 .. Len(waiters[m])
      PROVE  /\ waiters[m][j] \in Clients \ {t, v}
             /\ status'[waiters[m][j]] = "waiting" /\ Wants(waiters[m][j], m)
  <2>1. /\ waiters[m][j] \in Clients /\ status[waiters[m][j]] = "waiting"
        /\ Wants(waiters[m][j], m)
    BY AbleNotQueued
  <2>. QED BY <1>1, <1>2, <2>1, ClientsAreThreads
<1>7. /\ waiters'[x] \in Seq(Clients) /\ Len(waiters'[x]) = Len(waiters[x]) + 1 /\ Len(waiters[x]) \in Nat
      /\ \A j \in 1 .. Len(waiters[x]) : waiters'[x][j] = waiters[x][j]
      /\ waiters'[x][Len(waiters[x]) + 1] = t
      /\ waiters'[x] # <<>>
  <2>1. waiters[x] \in Seq(Clients) /\ t \in Clients
    BY <1>1 DEF WaitInv, Queued
  <2>2. /\ Append(waiters[x], t) \in Seq(Clients) /\ Append(waiters[x], t) # <<>>
        /\ Len(Append(waiters[x], t)) = Len(waiters[x]) + 1
        /\ \A j \in 1 .. Len(waiters[x]) : Append(waiters[x], t)[j] = waiters[x][j]
        /\ Append(waiters[x], t)[Len(waiters[x]) + 1] = t
    BY <2>1, AppendProperties
  <2>3. Len(waiters[x]) \in Nat
    BY <2>1, LenProperties
  <2>. QED BY <1>2, <2>1, <2>2, <2>3
<1>8. ASSUME NEW m \in Mutexes PROVE Queued(m)'
  <2>0. Queued(m)
    BY DEF WaitInv
  <2>1. CASE m # x
    <3>1. \A j \in 1 .. Len(waiters'[m]) :
            status'[waiters'[m][j]] = "waiting" /\ Wants(waiters'[m][j], m)
      BY <1>2, <1>6, <2>1
    <3>. QED BY <1>2, <1>5, <2>0, <2>1, <3>1, Call, SameMutexes DEF Queued
  <2>2. CASE m = x
    <3>1. ASSUME NEW j \in 1 .. Len(waiters'[x])
          PROVE  status'[waiters'[x][j]] = "waiting" /\ Wants(waiters'[x][j], x)
      <4>1. CASE j \in 1 .. Len(waiters[x])
        <5>1. status'[waiters[x][j]] = "waiting" /\ Wants(waiters[x][j], x)
          BY <1>1, <1>6, <4>1
        <5>. QED BY <1>7, <4>1, <5>1
      <4>2. CASE j = Len(waiters[x]) + 1
        BY <1>1, <1>2, <1>7, <4>2
      <4>. QED BY <1>7, <4>1, <4>2
    <3>2. ASSUME NEW j \in 1 .. Len(waiters'[x]), NEW l \in 1 .. Len(waiters'[x]),
                 waiters'[x][j] = waiters'[x][l]
          PROVE  j = l
      <4>1. CASE j \in 1 .. Len(waiters[x]) /\ l \in 1 .. Len(waiters[x])
        BY <1>7, <2>0, <2>2, <3>2, <4>1 DEF Queued
      <4>2. CASE j \in 1 .. Len(waiters[x]) /\ l = Len(waiters[x]) + 1
        BY <1>1, <1>6, <1>7, <3>2, <4>2
      <4>3. CASE l \in 1 .. Len(waiters[x]) /\ j = Len(waiters[x]) + 1
        BY <1>1, <1>6, <1>7, <3>2, <4>3
      <4>. QED BY <1>7, <4>1, <4>2, <4>3
    <3>. QED BY <1>5, <1>7, <2>2, <3>1, <3>2, Call, SameMutexes DEF Queued
  <2>. QED BY <2>1, <2>2
<1>9. ASSUME NEW u \in Clients PROVE Waits(u)'
  <2>1. CASE u = t
    <3>1. Len(waiters[x]) + 1 \in 1 .. Len(waiters'[x])
      BY <1>7
    <3>. QED BY <1>1, <1>7, <2>1, <3>1 DEF Waits
  <2>2. CASE u # t /\ status'[u] = "waiting"
    <3>1. status[u] = "waiting"
      BY <1>2, <2>2, ClientsAreThreads
    <3>2. PICK m \in Mutexes : \E j \in 1 .. Len(waiters[m]) : waiters[m][j] = u
      BY <3>1 DEF WaitInv, Waits
    <3>3. PICK j \in 1 .. Len(waiters[m]) : waiters[m][j] = u
      BY <3>2
    <3>4. j \in 1 .. Len(waiters'[m]) /\ waiters'[m][j] = u
      BY <1>2, <1>7, <3>3
    <3>. QED BY <3>4 DEF Waits
  <2>. QED BY <2>1, <2>2 DEF Waits
<1>10. ASSUME NEW m \in Mutexes PROVE Woken(m)'
  <2>1. CASE m = x
    BY <1>1, <2>1 DEF Woken
  <2>2. ASSUME m # x, NEW u \in Clients, Able(u), Wants(u, m) PROVE Able(u)' /\ Wants(u, m)'
    <3>1. u # t
      BY <1>1, <2>2 DEF Wants, x
    <3>. QED BY <1>2, <1>5, <2>2, <3>1, ClientsAreThreads DEF Able
  <2>3. CASE m # x
    BY <1>1, <1>2, <2>2, <2>3, Call, SameMutexes DEF WaitInv, Woken
  <2>. QED BY <2>1, <2>3
<1>11. ASSUME NEW m \in Mutexes PROVE Holders(m)'
  <2>. SUFFICES ASSUME owner[m] # NULL PROVE Holders(m)'
    BY <1>1 DEF Holders
  <2>1. /\ owner[m] \in Clients
        /\ Able(owner[m]) \/ status[owner[m]] = "waiting"
    BY DEF WaitInv, Holders
  <2>2. Able(owner[m])' \/ status'[owner[m]] = "waiting"
    BY <1>1, <1>2, <2>1, ClientsAreThreads DEF Able
  <2>3. PICK n \in 0 .. Last(owner[m]) : m = Mutex(owner[m], n) /\ HasNth(owner[m], n)
    BY DEF WaitInv, Holders
  <2>4. HasNth(owner[m], n)' /\ owner'[m] = owner[m]
    BY <1>1, <2>3 DEF HasNth
  <2>. QED BY <2>1, <2>2, <2>3, <2>4, Call, SameMutexes DEF Holders
<1>12. ASSUME NEW b \in 0 .. LISTSIZE PROVE HasLast(b)'
  <2>0. x \in Int /\ b \in Int /\ \A m \in Mutexes : m \in Int
    BY <1>1, NumbersAssumption
  <2>1. CASE \A m \in Mutexes : m < b => waiters[m] = <<>>
    BY <1>1, <1>2, <1>7, <2>0, <2>1 DEF HasLast
  <2>2. ASSUME NEW h \in Mutexes, h < b, waiters[h] # <<>>,
               \A m \in Mutexes : h < m /\ m < b => waiters[m] = <<>>
        PROVE  HasLast(b)'
    <3>0. waiters'[h] # <<>>
      BY <1>2, <1>7, <2>2
    <3>1. CASE h < x /\ x < b
      <4>1. \A m \in Mutexes : x < m /\ m < b => waiters'[m] = <<>>
        BY <1>2, <2>0, <2>2, <3>1
      <4>. QED BY <1>1, <1>7, <3>1, <4>1 DEF HasLast
    <3>2. CASE ~(h < x /\ x < b)
      <4>1. \A m \in Mutexes : h < m /\ m < b => waiters'[m] = <<>>
        BY <1>2, <2>2, <3>2
      <4>. QED BY <2>2, <3>0, <4>1 DEF HasLast
    <3>. QED BY <3>1, <3>2
  <2>. QED BY <2>1, <2>2 DEF WaitInv, HasLast
<1>. QED BY <1>4, <1>8, <1>9, <1>10, <1>11, <1>12, Call, SameMutexes DEF WaitInv

\* A thread that gives a mutex back still has those that are to come.
LEMMA StillHas ==
  ASSUME Inv, WaitInv, NEW t \in Threads \ {Main}, Unlock(t),
         NEW n \in 0 .. Last(t), HasNth(t, n), Mutex(t, n) # Mutex(t, k[t])
  PROVE  HasNth(t, n)'
<1>1. pc[t] = "unlock" /\ k[t] \in 0 .. Last(t) /\ Last(t) \in Nat /\ t \in Threads
  BY Call DEF Unlock, At
<1>2. n \in Nat /\ n >= k[t] /\ n # k[t]
  BY <1>1 DEF HasNth, Having, Sorting, Checking, Exchanging
<1>3. pc'[t] = "unlock" /\ k'[t] = k[t] + 1
  BY <1>1, <1>2 DEF Unlock, Goto, Inv, TypeInv
<1>. QED BY <1>1, <1>2, <1>3 DEF HasNth

\* The owners of the mutexes after one has been given back.
LEMMA ReleaseHolders ==
  ASSUME Inv, WaitInv, NEW t \in Threads \ {Main}, Unlock(t), NEW m \in Mutexes,
         \A u \in Clients : Able(u) \/ status[u] = "waiting" => Able(u)' \/ status'[u] = "waiting"
  PROVE  Holders(m)'
<1>. DEFINE x == Mutex(t, k[t])
<1>1. owner' = [owner EXCEPT ![x] = NULL] /\ x \in Mutexes
  BY Call DEF Unlock, Release
<1>. HIDE DEF x
<1>2. CASE m = x
  BY <1>1, <1>2 DEF Holders, Inv, TypeInv
<1>3. CASE m # x /\ owner[m] = t
  <2>1. PICK n \in 0 .. Last(t) : m = Mutex(t, n) /\ HasNth(t, n)
    BY <1>3, NullAssumption DEF WaitInv, Holders
  <2>2. HasNth(t, n)'
    BY <1>3, <2>1, StillHas DEF x
  <2>3. t \in Clients /\ (Able(t)' \/ status'[t] = "waiting") /\ owner'[m] = t
    BY <1>1, <1>3, Call DEF Able
  <2>. QED BY <2>1, <2>2, <2>3, Call, SameMutexes DEF Holders
<1>4. CASE m # x /\ owner[m] \notin {t, NULL}
  <2>1. owner'[m] = owner[m] /\ (Able(owner[m])' \/ status'[owner[m]] = "waiting")
    <3>1. owner[m] \in Clients /\ (Able(owner[m]) \/ status[owner[m]] = "waiting")
      BY <1>4 DEF WaitInv, Holders
    <3>2. owner'[m] = owner[m]
      BY <1>1, <1>4
    <3>. QED BY <3>1, <3>2
  <2>. QED BY <1>4, <2>1, OthersHold
<1>5. CASE m # x /\ owner[m] = NULL
  BY <1>1, <1>5 DEF Holders
<1>. QED BY <1>2, <1>3, <1>4, <1>5

\* The waiting is kept by a thread that gives a mutex back that nobody waits for.
LEMMA ReleaseQuiet ==
  ASSUME Inv, WaitInv, NEW t \in Threads \ {Main}, Unlock(t), waiters[Mutex(t, k[t])] = <<>>
  PROVE  WaitInv'
<1>. DEFINE x == Mutex(t, k[t])
<1>1. /\ UNCHANGED <<status, waiters>> /\ pc[t] = "unlock" /\ x \in Mutexes
      /\ owner' = [owner EXCEPT ![x] = NULL] /\ waiters[x] = <<>>
  BY Call DEF Unlock, At, Release
<1>. HIDE DEF x
<1>2. Begun'
  BY <1>1, CallBegun DEF WaitInv, Begun
<1>3. ASSUME NEW u \in Clients, NEW m, Wants(u, m) PROVE u # t /\ Wants(u, m)'
  <2>1. u # t
    BY <1>1, <1>3 DEF Wants
  <2>. QED BY <1>3, <2>1, OthersWant
<1>4. ASSUME NEW m \in Mutexes PROVE Queued(m)'
  <2>1. ASSUME NEW j \in 1 .. Len(waiters[m])
        PROVE  status'[waiters[m][j]] = "waiting" /\ Wants(waiters[m][j], m)'
    BY <1>1, <1>3, AbleNotQueued
  <2>2. Queued(m)
    BY DEF WaitInv
  <2>. QED BY <1>1, <2>1, <2>2, Call, SameMutexes DEF Queued
<1>5. ASSUME NEW m \in Mutexes PROVE Woken(m)'
  <2>1. CASE m = x
    BY <1>1, <2>1 DEF Woken
  <2>2. ASSUME NEW u \in Clients, Able(u), Wants(u, m) PROVE Able(u)' /\ Wants(u, m)'
    BY <1>1, <1>3, <2>2 DEF Able
  <2>3. CASE m # x
    BY <1>1, <2>2, <2>3, Call, SameMutexes DEF WaitInv, Woken
  <2>. QED BY <2>1, <2>3
<1>6. ASSUME NEW m \in Mutexes PROVE Holders(m)'
  BY <1>1, ReleaseHolders DEF Able
<1>7. ASSUME NEW u \in Clients PROVE Waits(u)'
  BY <1>1 DEF WaitInv, Waits
<1>8. ASSUME NEW b \in 0 .. LISTSIZE PROVE HasLast(b)'
  BY <1>1 DEF WaitInv, HasLast
<1>. QED BY <1>2, <1>4, <1>5, <1>6, <1>7, <1>8, Call, SameMutexes DEF WaitInv

\* The waiting is kept by a thread that gives a mutex back and wakes the first of
\* its waiters, which is then the able thread that is about to try it.
LEMMA ReleaseWakes ==
  ASSUME Inv, WaitInv, NEW t \in Threads \ {Main}, Unlock(t), waiters[Mutex(t, k[t])] # <<>>
  PROVE  WaitInv'
<1>. DEFINE x == Mutex(t, k[t])
<1>1. /\ pc[t] = "unlock" /\ x \in Mutexes /\ waiters[x] # <<>>
      /\ owner' = [owner EXCEPT ![x] = NULL]
      /\ status' = [status EXCEPT ![Head(waiters[x])] = "ready"]
      /\ waiters' = [waiters EXCEPT ![x] = Tail(@)]
  BY Call DEF Unlock, At, Release
<1>. HIDE DEF x
<1>2. /\ Head(waiters[x]) \in Clients /\ Head(waiters[x]) = waiters[x][1] /\ 1 \in 1 .. Len(waiters[x])
      /\ Tail(waiters[x]) \in Seq(Clients)
      /\ Len(waiters[x]) \in Nat /\ Len(Tail(waiters[x])) = Len(waiters[x]) - 1
      /\ \A j \in 1 .. Len(Tail(waiters[x])) : Tail(waiters[x])[j] = waiters[x][j + 1]
  <2>1. waiters[x] \in Seq(Clients)
    BY <1>1 DEF WaitInv, Queued
  <2>2. Len(waiters[x]) \in Nat \ {0}
    BY <1>1, <2>1, EmptySeq
  <2>. QED BY <1>1, <2>1, <2>2, HeadTailProperties
<1>. PICK v \in Clients : v = Head(waiters[x])
  BY <1>2
<1>3. status[v] = "waiting" /\ Wants(v, x) /\ v # t
  <2>1. status[v] = "waiting" /\ Wants(v, x)
    BY <1>1, <1>2, AbleNotQueued
  <2>. QED BY <1>1, <2>1 DEF Wants
<1>4. /\ DOMAIN status' = Threads /\ DOMAIN waiters' = Mutexes
      /\ status'[v] = "ready"
      /\ \A u \in Threads \ {v} : status'[u] = status[u]
      /\ waiters'[x] = Tail(waiters[x])
      /\ \A m \in Mutexes \ {x} : waiters'[m] = waiters[m]
  BY <1>1, ClientsAreThreads DEF WaitInv, Begun
<1>5. Begun'
  <2>1. status'[Main] # "waiting"
    BY <1>2, <1>4, ClientsAreThreads, NumbersAssumption DEF WaitInv, Begun
  <2>. QED BY <1>2, <1>4, <2>1, CallBegun
<1>6. ASSUME NEW u \in Clients, NEW m, Wants(u, m) PROVE u # t /\ Wants(u, m)'
  <2>1. u # t
    BY <1>1, <1>6 DEF Wants
  <2>. QED BY <1>6, <2>1, OthersWant
<1>7. ASSUME NEW m \in Mutexes, NEW j \in 1 .. Len(waiters'[m])
      PROVE  /\ waiters'[m][j] \in Clients /\ status'[waiters'[m][j]] = "waiting"
             /\ Wants(waiters'[m][j], m)
             /\ m = x => j + 1 \in 1 .. Len(waiters[x]) /\ waiters'[x][j] = waiters[x][j + 1]
  <2>1. CASE m = x
    <3>1. j + 1 \in 1 .. Len(waiters[x]) /\ waiters'[x][j] = waiters[x][j + 1]
      BY <1>2, <1>4, <2>1
    <3>2. /\ waiters[x][j + 1] \in Clients /\ status[waiters[x][j + 1]] = "waiting"
          /\ Wants(waiters[x][j + 1], x)
      BY <1>1, <3>1, AbleNotQueued
    <3>3. waiters[x][j + 1] # v
      <4>1. Queued(x)
        BY <1>1 DEF WaitInv
      <4>2. j + 1 # 1
        BY <1>2, <1>4, <2>1
      <4>. QED BY <1>2, <3>1, <4>1, <4>2 DEF Queued
    <3>4. status'[waiters[x][j + 1]] = "waiting"
      BY <1>4, <3>2, <3>3, ClientsAreThreads
    <3>. QED BY <2>1, <3>1, <3>2, <3>4
  <2>2. CASE m # x
    <3>1. waiters'[m] = waiters[m]
      BY <1>4, <2>2
    <3>2. /\ waiters[m][j] \in Clients /\ status[waiters[m][j]] = "waiting"
          /\ Wants(waiters[m][j], m)
      BY <3>1, AbleNotQueued
    <3>3. waiters[m][j] # v
      BY <1>3, <2>2, <3>2 DEF Wants
    <3>4. status'[waiters[m][j]] = "waiting"
      BY <1>4, <3>2, <3>3, ClientsAreThreads
    <3>. QED BY <2>2, <3>1, <3>2, <3>4
  <2>. QED BY <2>1, <2>2
<1>8. ASSUME NEW m \in Mutexes PROVE Queued(m)'
  <2>0. Queued(m)
    BY DEF WaitInv
  <2>1. waiters'[m] \in Seq(Clients)
    BY <1>2, <1>4, <2>0 DEF Queued
  <2>2. ASSUME NEW j \in 1 .. Len(waiters'[m]), NEW l \in 1 .. Len(waiters'[m]),
               waiters'[m][j] = waiters'[m][l]
        PROVE  j = l
    <3>1. CASE m = x
      <4>1. /\ j + 1 \in 1 .. Len(waiters[m]) /\ l + 1 \in 1 .. Len(waiters[m])
            /\ waiters[m][j + 1] = waiters[m][l + 1]
        BY <1>7, <2>2, <3>1
      <4>. QED BY <2>0, <4>1 DEF Queued
    <3>2. CASE m # x
      BY <1>4, <2>0, <2>2, <3>2 DEF Queued
    <3>. QED BY <3>1, <3>2
  <2>3. ASSUME NEW j \in 1 .. Len(waiters'[m])
        PROVE  status'[waiters'[m][j]] = "waiting" /\ Wants(waiters[m][j], m)'
    BY <1>6, <1>7
  <2>. QED BY <2>1, <2>2, <2>3, Call, SameMutexes DEF Queued
<1>9. ASSUME NEW u \in Clients, status'[u] = "waiting"
      PROVE  \E m \in Mutexes : \E j \in 1 .. Len(waiters'[m]) : waiters'[m][j] = u
  <2>1. status[u] = "waiting" /\ u # v
    BY <1>4, <1>9, ClientsAreThreads
  <2>2. PICK m \in Mutexes : \E j \in 1 .. Len(waiters[m]) : waiters[m][j] = u
    BY <2>1 DEF WaitInv, Waits
  <2>3. PICK j \in 1 .. Len(waiters[m]) : waiters[m][j] = u
    BY <2>2
  <2>4. CASE m # x
    BY <1>4, <2>3, <2>4
  <2>5. CASE m = x
    <3>1. j # 1
      BY <1>2, <2>1, <2>3, <2>5
    <3>2. j - 1 \in 1 .. Len(waiters'[x])
      BY <1>2, <1>4, <2>3, <2>5, <3>1
    <3>3. waiters'[x][j - 1] = waiters[x][(j - 1) + 1] /\ (j - 1) + 1 = j
      BY <1>2, <1>4, <3>2
    <3>. QED BY <1>1, <2>3, <2>5, <3>2, <3>3
  <2>. QED BY <2>4, <2>5
<1>10. ASSUME NEW m \in Mutexes PROVE Woken(m)'
  <2>1. ASSUME NEW u \in Clients, Able(u), Wants(u, m) PROVE Able(u)' /\ Wants(u, m)'
    BY <1>4, <1>6, <2>1, ClientsAreThreads DEF Able
  <2>2. CASE m = x
    <3>1. Able(v)' /\ Wants(v, m)'
      BY <1>2, <1>3, <1>4, <1>6, <2>2 DEF Able
    <3>. QED BY <1>2, <3>1, Call, SameMutexes DEF Woken
  <2>3. CASE m # x
    BY <1>1, <1>4, <2>1, <2>3, Call, SameMutexes DEF WaitInv, Woken
  <2>. QED BY <2>2, <2>3
<1>11. ASSUME NEW m \in Mutexes PROVE Holders(m)'
  <2>1. ASSUME NEW u \in Clients, Able(u) \/ status[u] = "waiting"
        PROVE  Able(u)' \/ status'[u] = "waiting"
    BY <1>4, <2>1, ClientsAreThreads DEF Able
  <2>. QED BY <2>1, ReleaseHolders
<1>12. ASSUME NEW b \in 0 .. LISTSIZE PROVE HasLast(b)'
  <2>0. /\ \A m \in Mutexes : m \in Int
        /\ \A m \in Mutexes \ {x} : waiters'[m] = waiters[m]
    BY <1>4, NumbersAssumption
  <2>1. waiters'[x] = <<>> \/ waiters'[x] # <<>>
    OBVIOUS
  <2>2. CASE \A m \in Mutexes : m < b => waiters[m] = <<>>
    BY <1>1, <2>0, <2>2 DEF HasLast
  <2>3. ASSUME NEW h \in Mutexes, h < b, waiters[h] # <<>>,
               \A m \in Mutexes : h < m /\ m < b => waiters[m] = <<>>
        PROVE  HasLast(b)'
    <3>1. \A m \in Mutexes : h < m /\ m < b => waiters'[m] = <<>>
      BY <1>1, <2>0, <2>3
    <3>2. CASE waiters'[h] # <<>>
      BY <2>3, <3>1, <3>2 DEF HasLast
    <3>3. CASE waiters'[h] = <<>>
      <4>1. h = x /\ h \in 0 .. LISTSIZE
        BY <2>0, <2>3, <3>3, NumbersAssumption
      <4>2. HasLast(h)
        BY <4>1 DEF WaitInv
      <4>3. CASE \A m \in Mutexes : m < h => waiters[m] = <<>>
        <5>1. \A m \in Mutexes : m < b => waiters'[m] = <<>>
          <6>. TAKE m \in Mutexes
          <6>1. m < h \/ m = h \/ h < m
            BY <2>0
          <6>. QED BY <2>0, <3>1, <3>3, <4>1, <4>3, <6>1
        <5>. QED BY <5>1 DEF HasLast
      <4>4. ASSUME NEW g \in Mutexes, g < h, waiters[g] # <<>>,
                   \A m \in Mutexes : g < m /\ m < h => waiters[m] = <<>>
            PROVE  HasLast(b)'
        <5>1. g < b /\ waiters'[g] # <<>>
          BY <2>0, <2>3, <4>1, <4>4
        <5>2. \A m \in Mutexes : g < m /\ m < b => waiters'[m] = <<>>
          BY <2>0, <3>1, <3>3, <4>1, <4>4
        <5>. QED BY <5>1, <5>2 DEF HasLast
      <4>. QED BY <4>2, <4>3, <4>4 DEF HasLast
    <3>. QED BY <3>2, <3>3
  <2>. QED BY <2>2, <2>3 DEF WaitInv, HasLast
<1>. QED BY <1>5, <1>8, <1>9, <1>10, <1>11, <1>12, Call, SameMutexes DEF WaitInv, Waits

-----------------------------------------------------------------------------
\* Every step keeps the waiting as it is to be.
LEMMA WaitStep == ASSUME Inv, WaitInv, [ClientNext]_allVars PROVE WaitInv'
<1>1. CASE ~ \E t \in Threads \ {Main} : ClientStep(t)
  BY <1>1, RestQuiet, QuietKeeps DEF WaitInv
<1>2. ASSUME NEW t \in Threads \ {Main}, ClientStep(t) PROVE WaitInv'
  <2>1. CASE Lock(t)
    BY <2>1, AcquireKeeps, ParkKeeps DEF Lock
  <2>2. CASE Unlock(t)
    BY <2>2, ReleaseQuiet, ReleaseWakes
  <2>3. CASE ~Lock(t) /\ ~Unlock(t)
    <3>1. /\ UNCHANGED <<owner, waiters, program>>
          /\ DOMAIN i' = Threads /\ i'[Main] = i[Main]
          /\ DOMAIN status' = Threads
          /\ \A u \in Threads \ {Main} : Quiet(u)
          /\ status'[Main] = status[Main] \/ (Able(Main) /\ Able(Main)')
      BY <1>2, <2>3, StepQuiet DEF WaitInv
    <3>2. pc'[Main] = pc[Main]
      BY <1>2, OthersKeep, NumbersAssumption DEF Inv
    <3>3. ASSUME NEW u \in Threads \ {Main}, u \notin Clients PROVE status'[u] = "new"
      <4>1. u # t /\ status[u] = "new"
        BY <1>2, <2>3, <3>3, StepStarts DEF WaitInv, Begun
      <4>. QED BY <1>2, <2>3, <4>1, StepStarts DEF WaitInv, Able
    <3>4. Begun'
      BY <3>1, <3>2, <3>3, SameMutexes DEF WaitInv, Begun, Created, Able
    <3>. QED BY <3>1, <3>4, QuietKeeps
  <2>. QED BY <2>1, <2>2, <2>3
<1>. QED BY <1>1, <1>2

\* Nobody waits before main has begun.
LEMMA WaitInit == ClientInit => WaitInv
<1>. SUFFICES ASSUME ClientInit PROVE WaitInv
  OBVIOUS
<1>. USE DEF ClientInit, Init
<1>1. Begun
  BY NumbersAssumption, ClientsAreThreads DEF Begun
<1>2. OneMutex /\ \A t \in Clients : Waits(t)
  BY ClientsAreThreads DEF OneMutex, Waits
<1>3. ASSUME NEW m \in Mutexes PROVE Queued(m) /\ Woken(m) /\ Holders(m)
  <2>1. waiters[m] = <<>> /\ owner[m] = NULL /\ <<>> \in Seq(Clients) /\ 1 .. Len(<<>>) = {}
    BY EmptySeq
  <2>. QED BY <2>1 DEF Queued, Woken, Holders
<1>4. \A b \in 0 .. LISTSIZE : HasLast(b)
  BY DEF HasLast
<1>. QED BY <1>1, <1>2, <1>3, <1>4 DEF WaitInv

\* The strengthened invariant of the waiting is inductive beside that of the clients.
THEOREM WaitInvHolds == ClientSpec => []WaitInv
<1>1. Inv /\ WaitInv /\ [ClientNext]_allVars => WaitInv'
  BY WaitStep
<1>. QED BY WaitInit, <1>1, ClientsInv, PTL DEF ClientSpec

\* Of the threads that have to do with the last mutex that somebody waits for, one
\* is able to go on.
LEMMA SomebodyAble == Inv /\ WaitInv => NoDeadlock
<1>. SUFFICES ASSUME Inv, WaitInv, NEW t \in Threads, status[t] = "waiting"
              PROVE  \E u \in Clients : Able(u)
  BY ClientsAreThreads DEF NoDeadlock, Able
<1>1. t \in Clients
  BY DEF WaitInv, Begun
<1>2. PICK m \in Mutexes : \E j \in 1 .. Len(waiters[m]) : waiters[m][j] = t
  BY <1>1 DEF WaitInv, Waits
<1>3. ASSUME NEW x \in Mutexes, NEW j \in 1 .. Len(waiters[x]) PROVE waiters[x] # <<>>
  BY EmptySeq
<1>4. PICK h \in Mutexes : /\ waiters[h] # <<>>
                           /\ \A x \in Mutexes : h < x => waiters[x] = <<>>
  <2>1. HasLast(LISTSIZE) /\ \A x \in Mutexes : x < LISTSIZE
    BY NumbersAssumption DEF WaitInv
  <2>. QED BY <1>2, <1>3, <2>1 DEF HasLast
<1>5. CASE owner[h] = NULL
  BY <1>4, <1>5 DEF WaitInv, Woken
<1>6. CASE owner[h] # NULL
  <2>. PICK u \in Clients : u = owner[h]
    BY <1>6 DEF WaitInv, Holders
  <2>1. PICK n \in 0 .. Last(u) : h = Mutex(u, n) /\ HasNth(u, n)
    BY <1>6 DEF WaitInv, Holders
  <2>2. CASE status[u] = "waiting"
    <3>1. PICK x \in Mutexes : \E j \in 1 .. Len(waiters[x]) : waiters[x][j] = u
      BY <2>2 DEF WaitInv, Waits
    <3>2. Wants(u, x) /\ waiters[x] # <<>>
      BY <3>1, <1>3, AbleNotQueued
    <3>3. pc[u] = "lock" /\ n < k[u] /\ x = Mutex(u, k[u])
      BY <2>1, <3>2 DEF Wants, HasNth, Having, Sorting, Checking, Exchanging
    <3>4. h < x
      <4>1. program # "mmatrix"
        BY <3>3, NoMutexes
      <4>2. k[u] \in 0 .. Last(u) /\ \A a, b \in 0 .. Last(u) : a < b => Mutex(u, a) < Mutex(u, b)
        BY <4>1, MutexesInOrder DEF WaitInv
      <4>. QED BY <2>1, <3>3, <4>2
    <3>. QED BY <1>4, <3>2, <3>4
  <2>3. CASE Able(u)
    BY <2>3
  <2>. QED BY <1>6, <2>2, <2>3 DEF WaitInv, Holders
<1>. QED BY <1>5, <1>6

\* There is always a thread that can go on while one waits: mtsort and mcounter do
\* not deadlock, for a list of any length and any number of threads.
THEOREM NeverDeadlocked == ClientSpec => []NoDeadlock
BY SomebodyAble, ClientsInv, WaitInvHolds, PTL

-----------------------------------------------------------------------------
(***************************************************************************)
(* The results.  An exchange of mtsort's, finished or not, leaves every    *)
(* number in the list or in the hands of one thread; the counter of        *)
(* mcounter is what its threads have counted together, kept as the last of *)
(* the partial sums; a row of mmatrix is computed once its thread is past  *)
(* it.  With main past its joins this is the result.                       *)
(***************************************************************************)
\* Where main is, and how far it has got: the threads it has joined have exited.
MainInv ==
  /\ DOMAIN i = Threads
  /\ pc[Main] \in {"create", "join", "report"}
  /\ i[Main] \in 0 .. Created
  /\ pc[Main] # "report" => i[Main] # Created
  /\ pc[Main] = "report" => i[Main] = Created
  /\ pc[Main] # "create" => \A t \in 1 .. i[Main] : pc[t] = "exited"
  /\ \A t \in Clients : status[t] = "done" => pc[t] = "exited"

\* What position j of the list holds, or is to get back from the thread that has
\* saved it.
Entry(j) == IF j # 0 /\ pc[j] = "restore" THEN temp[j] ELSE num[j]

Positions == 0 .. (LISTSIZE - 1)

\* No number is lost or doubled by an exchange, finished or not, and a thread of
\* mtsort ends only when the list is sorted for good.
ListInv ==
  program = "mtsort" =>
    /\ num \in [Positions -> 1 .. LISTSIZE]
    /\ \A j \in Positions : Entry(j) \in 1 .. LISTSIZE
    /\ \A j, l \in Positions : Entry(j) = Entry(l) => j = l
    /\ \A t \in 1 .. (LISTSIZE - 1) : pc[t] = "move" => temp[t] = num[t - 1]
    /\ pc[Checker] = "quit" => temp[Checker] \in {0, 1}
    /\ \A t \in Workers : pc[t] = "exited" => SortedForGood
    /\ \A t \in Workers : i[t] = 0

\* How often thread t of mcounter has counted.
Counted(t) == IF pc[t] = "unlock" THEN i[t] + 1 ELSE i[t]

\* s[t] is the number of times threads 1 .. t have counted.
Totals(s) == s[0] = 0 /\ \A t \in 1 .. NTHREADS : s[t] = s[t - 1] + Counted(t)

\* The counter is what the threads have counted together; a thread that is about
\* to store has the mutex and the next number.
CountInv ==
  program = "mcounter" =>
    /\ \A t \in Clients :
         /\ i[t] \in 0 .. ITER
         /\ pc[t] \in {"lock", "load", "store", "unlock"} => i[t] # ITER
         /\ pc[t] = "exited" => i[t] = ITER
         /\ pc[t] \in {"load", "store", "unlock"} => owner[0] = t
         /\ pc[t] = "store" => temp[t] = c[0] + 1
    /\ \E s \in [0 .. NTHREADS -> Nat] : Totals(s) /\ c[0] = s[NTHREADS]

\* The thread of mmatrix that computes row r.
Computes(r) == (r % NTHREADS) + 1

\* A row has been computed once if its thread is past it, and not at all if not.
RowsInv ==
  program = "mmatrix" =>
    /\ \A t \in Clients :
         /\ i[t] \in 0 .. (NDIM + NTHREADS) /\ i[t] % NTHREADS = t - 1
         /\ pc[t] = "exited" => i[t] >= NDIM
    /\ \A r \in 0 .. (NDIM - 1) : c[r] = IF r < i[Computes(r)] THEN 1 ELSE 0

-----------------------------------------------------------------------------
\* A client's step is one of a thread that main has created and that has not
\* exited, and leaves the counters of the others.
LEMMA OwnStep ==
  ASSUME Inv, WaitInv, NEW t \in Threads \ {Main}, ClientStep(t)
  PROVE  /\ t \in Clients /\ t # Main /\ pc[t] # "exited" /\ status[t] = "running"
         /\ program' = program /\ Clients' = Clients /\ Created' = Created
         /\ DOMAIN pc' = Threads /\ DOMAIN i' = Threads /\ i'[Main] = i[Main]
         /\ \A u \in Threads \ {t} : /\ pc'[u] = pc[u] /\ k'[u] = k[u]
                                     /\ temp'[u] = temp[u] /\ i'[u] = i[u]
<1>1. /\ program' = program /\ DOMAIN pc' = Threads
      /\ \A u \in Threads \ {t} : pc'[u] = pc[u] /\ k'[u] = k[u] /\ temp'[u] = temp[u]
  BY OthersKeep DEF Inv
<1>2. \E place : At(t, place) /\ place # "exited"
  BY DEF ClientStep, While, Compare, Save, Move, Restore, Check, Quit, Yield, For, Load, Store, Rows,
         Lock, Unlock, Internal
<1>3. t \in Clients /\ t # Main
  BY <1>2, RunnersAreClients DEF WaitInv
<1>4. i' = i \/ \E e : i' = [i EXCEPT ![t] = e]
  <2>1. CASE While(t) \/ Compare(t) \/ Save(t) \/ Move(t) \/ Restore(t) \/ Check(t) \/ Quit(t)
    BY <2>1 DEF While, Compare, Save, Move, Restore, Check, Quit, Leave, local
  <2>2. CASE Yield(t) \/ For(t) \/ Load(t) \/ Store(t) \/ Lock(t)
    BY <2>2 DEF Yield, For, Load, Store, Lock, Leave, local
  <2>3. CASE Rows(t)
    BY <2>3 DEF Rows, Leave, local
  <2>4. CASE Unlock(t)
    BY <2>4 DEF Unlock
  <2>. QED BY <2>1, <2>2, <2>3, <2>4 DEF ClientStep
<1>5. DOMAIN i = Threads
  BY DEF WaitInv, Begun
<1>6. DOMAIN i' = Threads /\ \A u \in Threads \ {t} : i'[u] = i[u]
  BY <1>4, <1>5
<1>7. Clients' = Clients /\ Created' = Created
  BY <1>1 DEF Clients, Created
<1>8. Main \in Threads \ {t}
  BY NumbersAssumption
<1>. QED BY <1>1, <1>2, <1>3, <1>6, <1>7, <1>8 DEF At

\* Only Leave ends a thread.
LEMMA OnlyLeaveEnds ==
  ASSUME Inv, WaitInv, NEW t \in Threads \ {Main}, ClientStep(t), NEW u \in Threads \ {Main},
         status'[u] = "done", status[u] # "done"
  PROVE  u = t /\ pc'[t] = "exited"
<1>. USE DEF Inv, WaitInv
<1>1. CASE Lock(t)
  BY <1>1 DEF Lock, Acquire, Park, Begun
<1>2. CASE Unlock(t)
  BY <1>2 DEF Unlock, Release, Begun
<1>3. CASE ~Lock(t) /\ ~Unlock(t)
  <2>1. UNCHANGED vars \/ Leave(t) \/ Switched
    BY <1>3 DEF ClientStep, While, Compare, Save, Move, Restore, Check, Quit, Yield, For, Load, Store, Rows,
           Internal
  <2>2. CASE Leave(t)
    BY <2>2, LeaveQuiet DEF Leave, Goto, TypeInv
  <2>3. CASE Switched
    BY <2>3, SwitchQuiet DEF Able
  <2>. QED BY <2>1, <2>2, <2>3 DEF vars
<1>. QED BY <1>1, <1>2, <1>3

\* The steps of main and of the library leave the clients where they are.
LEMMA RestStep ==
  ASSUME Inv, WaitInv, [ClientNext]_allVars, ~ \E t \in Threads \ {Main} : ClientStep(t)
  PROVE  /\ UNCHANGED <<owner, k, temp, shared>>
         /\ Clients' = Clients /\ Created' = Created
         /\ DOMAIN i' = Threads
         /\ \A t \in Threads \ {Main} : pc'[t] = pc[t] /\ i'[t] = i[t]
<1>1. /\ UNCHANGED <<owner, k, temp, shared>>
      /\ \A t \in Threads \ {Main} : pc'[t] = pc[t]
  BY OnlySteps
<1>2. i' = i \/ \E e : i' = [i EXCEPT ![Main] = e]
  BY DEF ClientNext, Preempt, Continue, Create, Join, allVars, local
<1>3. DOMAIN i = Threads
  BY DEF WaitInv, Begun
<1>4. DOMAIN i' = Threads /\ \A t \in Threads \ {Main} : i'[t] = i[t]
  BY <1>2, <1>3
<1>. QED BY <1>1, <1>4 DEF shared, Clients, Created

\* Neither main nor the library ends a thread.
LEMMA RestEnds ==
  ASSUME Inv, WaitInv, [ClientNext]_allVars, ~ \E t \in Threads \ {Main} : ClientStep(t),
         NEW u \in Threads \ {Main}, status'[u] = "done"
  PROVE  status[u] = "done"
<1>. USE DEF WaitInv, Begun
<1>1. CASE Preempt \/ (Join /\ Switched)
  BY <1>1, SwitchQuiet DEF Preempt, Able
<1>2. CASE Continue
  BY <1>2 DEF Continue, Pick
<1>3. CASE Create
  BY <1>3 DEF Create, Start, Spawn
<1>4. CASE UNCHANGED vars
  BY <1>4 DEF vars
<1>. QED BY <1>1, <1>2, <1>3, <1>4 DEF ClientNext, Join, Internal, allVars, vars

\* Where main is, with j threads created or joined.
MainAt(place, j) ==
  /\ place \in {"create", "join", "report"}
  /\ j \in 0 .. Created
  /\ place # "report" => j # Created
  /\ place = "report" => j = Created
  /\ place # "create" => \A t \in 1 .. j : t \in Clients /\ pc[t] = "exited"

\* Main joins the threads one after the other, each when it has exited.
LEMMA MainStep == ASSUME Inv, WaitInv, MainInv, [ClientNext]_allVars PROVE MainInv'
<1>0. DOMAIN pc = Threads /\ Main \in Threads /\ Created \in Nat \ {0}
  BY NumbersAssumption, ClientsAreThreads DEF Inv, TypeInv
<1>1. ASSUME NEW t \in Threads \ {Main}, ClientStep(t) PROVE MainInv'
  <2>1. \A u \in Threads : pc[u] = "exited" => pc'[u] = "exited"
    BY <1>1, OwnStep
  <2>2. pc'[Main] = pc[Main] /\ i'[Main] = i[Main] /\ DOMAIN i' = Threads
    BY <1>0, <1>1, OwnStep
  <2>3. Clients' = Clients /\ Created' = Created
    BY <1>1, OwnStep
  <2>4. ASSUME NEW u \in Clients, status'[u] = "done" PROVE pc'[u] = "exited"
    BY <1>1, <2>1, <2>4, OnlyLeaveEnds, ClientsAreThreads DEF MainInv
  <2>5. ASSUME NEW u \in 1 .. i[Main], pc[Main] # "create" PROVE pc'[u] = "exited"
    <3>1. u \in Threads
      BY ClientsAreThreads DEF MainInv, Clients
    <3>. QED BY <2>1, <2>5, <3>1 DEF MainInv
  <2>. QED BY <2>2, <2>3, <2>4, <2>5 DEF MainInv
<1>2. ASSUME ~ \E t \in Threads \ {Main} : ClientStep(t) PROVE MainInv'
  <2>1. /\ Clients' = Clients /\ Created' = Created /\ DOMAIN i' = Threads
        /\ \A t \in Clients : pc'[t] = pc[t]
    BY <1>2, RestStep, ClientsAreThreads
  <2>2. ASSUME NEW u \in Clients, status'[u] = "done" PROVE pc[u] = "exited"
    <3>1. u \in Threads \ {Main}
      BY ClientsAreThreads
    <3>2. status[u] = "done"
      BY <1>2, <2>2, <3>1, RestEnds
    <3>. QED BY <3>2 DEF MainInv
  <2>3. MainAt(pc'[Main], i'[Main])
    <3>0. MainAt(pc[Main], i[Main])
      <4>1. \A t \in 1 .. i[Main] : t \in Clients
        BY <1>0 DEF Clients, MainInv
      <4>. QED BY <4>1 DEF MainAt, MainInv
    <3>1. CASE Preempt \/ Continue \/ UNCHANGED allVars
      <4>1. pc' = pc /\ i' = i
        BY <3>1 DEF Preempt, Continue, allVars, local
      <4>. QED BY <3>0, <4>1
    <3>2. CASE Create
      <4>1. /\ pc[Main] = "create"
            /\ pc'[Main] = IF i[Main] + 1 = Created THEN "join" ELSE "create"
            /\ i'[Main] = (i[Main] + 1) % Created
        BY <1>0, <3>2 DEF Create, Goto, MainInv
      <4>2. i[Main] \in 0 .. (Created - 1)
        BY <1>0, <4>1 DEF MainInv
      <4>3. \A a, n \in Nat : a < n => (a + 1 = n => (a + 1) % n = 0) /\ (a + 1 # n => (a + 1) % n = a + 1)
        <5>. TAKE a, n \in Nat
        <5>. HAVE a < n
        <5>1. a + 1 = n => (a + 1) % n = 0
          BY SMTT(30)
        <5>2. a + 1 # n => (a + 1) % n = a + 1
          BY SMTT(30)
        <5>. QED BY <5>1, <5>2
      <4>4. CASE i[Main] + 1 = Created
        <5>1. i'[Main] = 0 /\ pc'[Main] = "join"
          BY <1>0, <4>1, <4>2, <4>3, <4>4
        <5>. QED BY <1>0, <5>1 DEF MainAt
      <4>5. CASE i[Main] + 1 # Created
        <5>1. i'[Main] = i[Main] + 1 /\ pc'[Main] = "create"
          BY <1>0, <4>1, <4>2, <4>3, <4>5
        <5>. QED BY <1>0, <4>2, <4>5, <5>1 DEF MainAt
      <4>. QED BY <4>4, <4>5
    <3>3. CASE Join
      <4>. DEFINE t == i[Main] + 1
      <4>1. CASE Switched /\ UNCHANGED <<pc, local, shared>>
        <5>1. pc' = pc /\ i' = i
          BY <4>1 DEF local
        <5>. QED BY <3>0, <5>1
      <4>2. CASE /\ Internal(Main, "join", IF t = Created THEN "report" ELSE "join")
                 /\ status[t] = "done"
                 /\ i' = [i EXCEPT ![Main] = t]
        <5>1. /\ pc[Main] = "join" /\ i'[Main] = t
              /\ pc'[Main] = IF t = Created THEN "report" ELSE "join"
          BY <1>0, <4>2 DEF Internal, At, Goto, MainInv
        <5>2. i[Main] \in 0 .. (Created - 1)
          BY <1>0, <5>1 DEF MainInv
        <5>3. t \in Clients /\ t \in 1 .. Created
          BY <1>0, <5>2 DEF Clients
        <5>4. pc[t] = "exited"
          BY <4>2, <5>3 DEF MainInv
        <5>5. \A u \in 1 .. t : u \in Clients /\ (u = t \/ u \in 1 .. i[Main])
          BY <1>0, <5>2 DEF Clients
        <5>. HIDE DEF t
        <5>6. \A u \in 1 .. t : u \in Clients /\ pc[u] = "exited"
          BY <5>1, <5>4, <5>5 DEF MainInv
        <5>. QED BY <1>0, <5>1, <5>3, <5>6 DEF MainAt
      <4>. QED BY <3>3, <4>1, <4>2 DEF Join
    <3>. QED BY <1>2, <3>1, <3>2, <3>3 DEF ClientNext
  <2>4. pc'[Main] # "create" => \A t \in 1 .. i'[Main] : pc'[t] = "exited"
    BY <2>1, <2>3 DEF MainAt
  <2>. QED BY <2>1, <2>2, <2>3, <2>4 DEF MainInv, MainAt
<1>. QED BY <1>1, <1>2

-----------------------------------------------------------------------------
\* Two neighbours never exchange at once: they share a mutex.
LEMMA NeighboursApart ==
  ASSUME Inv, program = "mtsort", NEW t \in 1 .. (LISTSIZE - 2), pc[t] \in Exchanging
  PROVE  pc[t + 1] \notin Exchanging
<1>. SUFFICES ASSUME pc[t + 1] \in Exchanging PROVE FALSE
  OBVIOUS
<1>1. t \in Workers /\ t + 1 \in Workers /\ LISTSIZE \in Nat
  BY NumbersAssumption DEF Workers
<1>2. /\ Last(t) = 1 /\ Mutex(t, 1) = t
      /\ Last(t + 1) = 1 /\ Mutex(t + 1, 0) = t
  BY <1>1, NumbersAssumption DEF Last, Mutex, IsChecker
<1>3. Has(t, 1) /\ Has(t + 1, 0)
  BY DEF Has, Sorting
<1>4. owner[t] = t
  BY <1>1, <1>2, <1>3 DEF Inv, Owning, Owns
<1>5. owner[t] = t + 1
  BY <1>1, <1>2, <1>3 DEF Inv, Owning, Owns
<1>. QED BY <1>1, <1>4, <1>5

\* Who exchanges two numbers is one of the sorting threads.
LEMMA Exchangers ==
  ASSUME Inv, NEW t \in Threads \ {Main}, pc[t] \in Exchanging
  PROVE  program = "mtsort" /\ (t \in Workers => t \in 1 .. (LISTSIZE - 1))
<1>1. pc[t] \in PlacesOf(t)
  BY DEF Inv, Places, Place
<1>2. program = "mtsort" /\ t # Checker
  BY <1>1 DEF Inv, TypeInv, PlacesOf, Counting, Checking, Elsewhere, Exchanging
<1>. QED BY <1>2, NumbersAssumption DEF Workers, Checker

\* The parts of ListInv that are about the numbers.
ListNumbers ==
  /\ num \in [Positions -> 1 .. LISTSIZE]
  /\ \A j \in Positions : Entry(j) \in 1 .. LISTSIZE
  /\ \A j, l \in Positions : Entry(j) = Entry(l) => j = l
  /\ \A t \in 1 .. (LISTSIZE - 1) : pc[t] = "move" => temp[t] = num[t - 1]

\* A thread saves the left number of its two.
LEMMA SaveKeeps ==
  ASSUME Inv, WaitInv, ListInv, NEW t \in Threads \ {Main}, Save(t)
  PROVE  ListNumbers'
<1>0. ClientStep(t) /\ pc[t] = "save"
  BY DEF ClientStep, Save, Internal, At
<1>1. program = "mtsort" /\ t \in 1 .. (LISTSIZE - 1)
  BY <1>0, Exchangers, OwnStep, ClientsAreThreads DEF Exchanging
<1>2. /\ num' = num /\ pc'[t] = "move" /\ temp'[t] = num[t - 1]
      /\ \A u \in Threads \ {t} : pc'[u] = pc[u] /\ temp'[u] = temp[u]
  <2>1. pc'[t] = "move" /\ temp'[t] = num[t - 1]
    BY DEF Save, Internal, Goto, Inv, TypeInv
  <2>. QED BY <1>0, <2>1, OwnStep DEF Save, shared
<1>3. Positions \subseteq Threads /\ 1 .. (LISTSIZE - 1) \subseteq Threads
  BY NumbersAssumption DEF Positions
<1>4. \A j \in Positions : Entry(j)' = Entry(j)
  BY <1>0, <1>2, <1>3 DEF Entry
<1>. QED BY <1>1, <1>2, <1>3, <1>4 DEF ListInv, ListNumbers

\* The left number is overwritten with the right one: from here on the right
\* position is to get the saved one.
LEMMA MoveKeeps ==
  ASSUME Inv, WaitInv, ListInv, NEW t \in Threads \ {Main}, Move(t)
  PROVE  ListNumbers'
<1>0. ClientStep(t) /\ pc[t] = "move"
  BY DEF ClientStep, Move, Internal, At
<1>1. program = "mtsort" /\ t \in 1 .. (LISTSIZE - 1) /\ t - 1 \in Positions /\ t \in Positions
  BY <1>0, Exchangers, OwnStep, ClientsAreThreads, NumbersAssumption DEF Exchanging, Positions
<1>2. /\ num' = [num EXCEPT ![t - 1] = num[t]] /\ pc'[t] = "restore" /\ temp' = temp
      /\ \A u \in Threads \ {t} : pc'[u] = pc[u]
  <2>1. num' = [num EXCEPT ![t - 1] = num[t]] /\ pc'[t] = "restore" /\ temp' = temp
    BY DEF Move, Internal, Goto, Inv, TypeInv, local
  <2>. QED BY <1>0, <2>1, OwnStep
<1>3. Positions \subseteq Threads /\ 1 .. (LISTSIZE - 1) \subseteq Threads
  BY NumbersAssumption DEF Positions
<1>4. /\ num \in [Positions -> 1 .. LISTSIZE]
      /\ \A j \in Positions : Entry(j) \in 1 .. LISTSIZE
      /\ \A j, l \in Positions : Entry(j) = Entry(l) => j = l
      /\ \A u \in 1 .. (LISTSIZE - 1) : pc[u] = "move" => temp[u] = num[u - 1]
  BY <1>1 DEF ListInv
<1>5. t - 1 # 0 => pc[t - 1] # "restore"
  <2>. SUFFICES ASSUME t - 1 # 0, pc[t - 1] = "restore" PROVE FALSE
    OBVIOUS
  <2>1. t - 1 \in 1 .. (LISTSIZE - 2) /\ (t - 1) + 1 = t
    BY <1>1, NumbersAssumption
  <2>. QED BY <1>0, <1>1, <2>1, NeighboursApart DEF Exchanging
<1>6. Entry(t - 1) = num[t - 1] /\ Entry(t) = num[t] /\ temp[t] = num[t - 1]
  BY <1>0, <1>1, <1>4, <1>5 DEF Entry
<1>7. num' \in [Positions -> 1 .. LISTSIZE] /\ num'[t - 1] = num[t]
      /\ \A j \in Positions : j # t - 1 => num'[j] = num[j]
  BY <1>1, <1>2, <1>4
<1>8. t - 1 # t /\ t # 0 /\ t - 1 \in Threads \ {t}
  BY <1>1, <1>3
<1>9. Entry(t - 1)' = Entry(t) /\ Entry(t)' = Entry(t - 1)
  BY <1>1, <1>2, <1>5, <1>6, <1>7, <1>8 DEF Entry
<1>10. \A j \in Positions : j # t - 1 /\ j # t => Entry(j)' = Entry(j)
  BY <1>2, <1>3, <1>7 DEF Entry
<1>11. ASSUME NEW u \in 1 .. (LISTSIZE - 1), pc'[u] = "move" PROVE temp'[u] = num'[u - 1]
  <2>1. u # t /\ pc[u] = "move" /\ u - 1 # t - 1 /\ u - 1 \in Positions
    BY <1>1, <1>2, <1>3, <1>11, NumbersAssumption DEF Positions
  <2>. QED BY <1>2, <1>4, <1>7, <2>1
<1>. QED
  <2>1. \A j \in Positions : Entry(j)' \in 1 .. LISTSIZE
    BY <1>1, <1>4, <1>9, <1>10
  <2>2. \A j, l \in Positions : Entry(j)' = Entry(l)' => j = l
    BY <1>1, <1>4, <1>9, <1>10, <1>8
  <2>. QED BY <1>7, <1>11, <2>1, <2>2 DEF ListNumbers, Positions

\* The right position gets the number that was saved.
LEMMA RestoreKeeps ==
  ASSUME Inv, WaitInv, ListInv, NEW t \in Threads \ {Main}, Restore(t)
  PROVE  ListNumbers'
<1>0. ClientStep(t) /\ pc[t] = "restore"
  BY DEF ClientStep, Restore, Internal, At
<1>1. program = "mtsort" /\ t \in 1 .. (LISTSIZE - 1) /\ t \in Positions
  BY <1>0, Exchangers, OwnStep, ClientsAreThreads, NumbersAssumption DEF Exchanging, Positions
<1>2. /\ num' = [num EXCEPT ![t] = temp[t]] /\ pc'[t] = "unlock" /\ temp' = temp
      /\ \A u \in Threads \ {t} : pc'[u] = pc[u]
  <2>1. num' = [num EXCEPT ![t] = temp[t]] /\ pc'[t] = "unlock" /\ temp' = temp
    BY DEF Restore, Internal, Goto, Inv, TypeInv, local
  <2>. QED BY <1>0, <2>1, OwnStep
<1>3. Positions \subseteq Threads /\ 1 .. (LISTSIZE - 1) \subseteq Threads
  BY NumbersAssumption DEF Positions
<1>4. /\ num \in [Positions -> 1 .. LISTSIZE]
      /\ \A j \in Positions : Entry(j) \in 1 .. LISTSIZE
      /\ \A j, l \in Positions : Entry(j) = Entry(l) => j = l
      /\ \A u \in 1 .. (LISTSIZE - 1) : pc[u] = "move" => temp[u] = num[u - 1]
  BY <1>1 DEF ListInv
<1>5. t # 0 /\ Entry(t) = temp[t] /\ temp[t] \in 1 .. LISTSIZE
  BY <1>0, <1>1, <1>4 DEF Entry
<1>6. /\ num' \in [Positions -> 1 .. LISTSIZE] /\ num'[t] = temp[t]
      /\ \A j \in Positions : j # t => num'[j] = num[j]
  BY <1>1, <1>2, <1>4, <1>5
<1>7. \A j \in Positions : Entry(j)' = Entry(j)
  BY <1>2, <1>3, <1>5, <1>6 DEF Entry
<1>8. ASSUME NEW u \in 1 .. (LISTSIZE - 1), pc'[u] = "move" PROVE temp'[u] = num'[u - 1]
  <2>1. u # t /\ pc[u] = "move" /\ u - 1 \in Positions
    BY <1>2, <1>3, <1>8, NumbersAssumption DEF Positions
  <2>2. u - 1 # t
    <3>. SUFFICES ASSUME u = t + 1 PROVE FALSE
      BY <1>1
    <3>1. t \in 1 .. (LISTSIZE - 2)
      BY <1>1, NumbersAssumption
    <3>. QED BY <1>0, <1>1, <2>1, <3>1, NeighboursApart DEF Exchanging
  <2>. QED BY <1>2, <1>4, <1>6, <2>1, <2>2
<1>. QED BY <1>4, <1>6, <1>7, <1>8 DEF ListNumbers, Positions

\* A step that neither saves, moves nor restores leaves the list alone, and who
\* exchanges.
LEMMA OthersList ==
  ASSUME Inv, WaitInv, program = "mtsort", NEW t \in Threads \ {Main}, ClientStep(t),
         ~Save(t), ~Move(t), ~Restore(t)
  PROVE  /\ num' = num /\ pc[t] \notin {"move", "restore"} /\ pc'[t] \notin {"move", "restore"}
         /\ pc'[t] = "exited" => quitting = 1
         /\ pc'[t] = "quit" => temp'[t] \in {0, 1} /\ t = Checker
<1>0. DOMAIN pc = Threads /\ DOMAIN temp = Threads /\ pc[t] \in PlacesOf(t)
  BY DEF Inv, TypeInv, Places, Place
<1>. USE <1>0 DEF Internal, At, Goto, shared
<1>1. CASE While(t)
  BY <1>1 DEF While, Leave
<1>2. CASE Compare(t)
  BY <1>2 DEF Compare
<1>3. CASE Check(t)
  BY <1>3 DEF Check, PlacesOf, Sorting, Exchanging, Elsewhere
<1>4. CASE Quit(t) \/ Yield(t) \/ Load(t) \/ Store(t)
  BY <1>4 DEF Quit, Yield, Load, Store
<1>5. CASE For(t) \/ Rows(t)
  BY <1>5 DEF For, Rows, PlacesOf, Sorting, Exchanging, Elsewhere, Checking
<1>6. CASE Lock(t)
  BY <1>6 DEF Lock, Locked
<1>7. CASE Unlock(t)
  BY <1>7 DEF Unlock
<1>. QED BY <1>1, <1>2, <1>3, <1>4, <1>5, <1>6, <1>7 DEF ClientStep

\* No exchange loses or doubles a number, and nobody ends before the list is sorted.
LEMMA ListStep == ASSUME Inv, WaitInv, ListInv, [ClientNext]_allVars PROVE ListInv'
<1>0. Workers \subseteq Threads \ {Main} /\ Checker \in Workers /\ Positions \subseteq Threads
      /\ 1 .. (LISTSIZE - 1) \subseteq Workers /\ (program = "mtsort" => Clients = Workers)
      /\ Positions \ {0} \subseteq Workers
  BY WorkersAreThreads, ClientsAreThreads, NumbersAssumption DEF Positions, Workers
<1>1. ASSUME NEW t \in Threads \ {Main}, ClientStep(t), program = "mtsort" PROVE ListInv'
  <2>0. /\ t \in Workers /\ program' = program /\ pc[t] # "exited" /\ DOMAIN i' = Threads
        /\ \A u \in Threads \ {t} : /\ pc'[u] = pc[u] /\ temp'[u] = temp[u] /\ i'[u] = i[u]
    BY <1>0, <1>1, OwnStep
  <2>1. i'[t] = 0
    <3>1. i[t] = 0 /\ DOMAIN i = Threads
      BY <1>1, <2>0 DEF ListInv, WaitInv, Begun
    <3>2. ~Rows(t) /\ ~For(t)
      BY <1>1 DEF Inv, Places, Place, PlacesOf, Sorting, Exchanging, Elsewhere, Checking, Rows, For,
           Internal, At
    <3>. QED BY <1>1, <2>0, <3>1, <3>2
         DEF ClientStep, While, Compare, Save, Move, Restore, Check, Quit, Yield, Load, Store,
             Lock, Unlock, Leave, local
  <2>2. CASE Save(t) \/ Move(t) \/ Restore(t)
    <3>1. pc'[t] \notin {"quit", "exited"}
      BY <2>2 DEF Save, Move, Restore, Internal, Goto, Inv, TypeInv
    <3>2. ListNumbers'
      BY <2>2, SaveKeeps, MoveKeeps, RestoreKeeps
    <3>3. \A u \in Workers : pc'[u] = "exited" => SortedForGood
      BY <1>0, <1>1, <2>0, <3>1 DEF ListInv
    <3>4. pc'[Checker] = "quit" => temp'[Checker] \in {0, 1}
      BY <1>0, <1>1, <2>0, <3>1 DEF ListInv
    <3>5. \A u \in Workers : i'[u] = 0
      BY <1>0, <1>1, <2>0, <2>1 DEF ListInv
    <3>6. SortedForGood => SortedForGood'
      BY <1>1, StaysSorted
    <3>. QED BY <3>2, <3>3, <3>4, <3>5, <3>6 DEF ListInv, ListNumbers
  <2>3. CASE ~Save(t) /\ ~Move(t) /\ ~Restore(t)
    <3>1. /\ num' = num /\ pc[t] \notin {"move", "restore"} /\ pc'[t] \notin {"move", "restore"}
          /\ pc'[t] = "exited" => quitting = 1
          /\ pc'[t] = "quit" => temp'[t] \in {0, 1} /\ t = Checker
      BY <1>1, <2>3, OthersList
    <3>2. \A j \in Positions : Entry(j)' = Entry(j)
      BY <1>0, <2>0, <3>1 DEF Entry
    <3>3. \A u \in Workers : pc'[u] = "exited" => SortedForGood
      BY <1>0, <1>1, <2>0, <3>1 DEF ListInv, Inv, Verdict
    <3>4. pc'[Checker] = "quit" => temp'[Checker] \in {0, 1}
      BY <1>0, <1>1, <2>0, <3>1 DEF ListInv
    <3>5. \A u \in Workers : i'[u] = 0
      BY <1>0, <1>1, <2>0, <2>1 DEF ListInv
    <3>6. SortedForGood => SortedForGood'
      BY <1>1, StaysSorted
    <3>7. \A u \in 1 .. (LISTSIZE - 1) : pc'[u] = "move" => temp'[u] = num'[u - 1]
      BY <1>0, <1>1, <2>0, <3>1 DEF ListInv
    <3>8. /\ num' \in [Positions -> 1 .. LISTSIZE]
          /\ \A j \in Positions : Entry(j)' \in 1 .. LISTSIZE
          /\ \A j, l \in Positions : Entry(j)' = Entry(l)' => j = l
      BY <1>1, <3>1, <3>2 DEF ListInv
    <3>. QED BY <3>3, <3>4, <3>5, <3>6, <3>7, <3>8 DEF ListInv
  <2>. QED BY <2>2, <2>3
<1>2. ASSUME ~ \E t \in Threads \ {Main} : ClientStep(t), program = "mtsort" PROVE ListInv'
  <2>1. /\ UNCHANGED <<temp, num, program>>
        /\ \A t \in Threads \ {Main} : pc'[t] = pc[t] /\ i'[t] = i[t]
    BY <1>2, RestStep DEF shared
  <2>2. \A t \in Workers : pc'[t] = pc[t] /\ i'[t] = i[t]
    BY <1>0, <2>1
  <2>3. \A j \in Positions : Entry(j)' = Entry(j)
    BY <1>0, <2>1, <2>2 DEF Entry
  <2>4. SortedForGood => SortedForGood'
    BY <1>2, StaysSorted
  <2>. QED BY <1>0, <1>2, <2>1, <2>2, <2>3, <2>4 DEF ListInv
<1>3. program' = program
  <2>1. CASE \E t \in Threads \ {Main} : ClientStep(t)
    BY <2>1, OwnStep
  <2>. QED BY <2>1, RestStep DEF shared
<1>. QED BY <1>1, <1>2, <1>3 DEF ListInv
-----------------------------------------------------------------------------
\* Totals that none has counted more for are the same, and one more for a thread
\* makes the last one more.
LEMMA SameTotals ==
  ASSUME NEW s, \A t \in 1 .. NTHREADS : Counted(t)' = Counted(t), Totals(s)
  PROVE  Totals(s)'
BY DEF Totals

LEMMA OneMore ==
  ASSUME NEW s \in [0 .. NTHREADS -> Nat], Totals(s), NEW t \in 1 .. NTHREADS,
         \A u \in 1 .. NTHREADS : Counted(u) \in Nat,
         \A u \in 1 .. NTHREADS : Counted(u)' = IF u = t THEN Counted(u) + 1 ELSE Counted(u)
  PROVE  \E r \in [0 .. NTHREADS -> Nat] : Totals(r)' /\ r[NTHREADS] = s[NTHREADS] + 1
<1>. DEFINE r == [j \in 0 .. NTHREADS |-> IF j >= t THEN s[j] + 1 ELSE s[j]]
<1>0. NTHREADS \in Nat \ {0}
  BY NumbersAssumption
<1>1. r \in [0 .. NTHREADS -> Nat] /\ r[NTHREADS] = s[NTHREADS] + 1 /\ r[0] = 0
  BY <1>0 DEF Totals
<1>2. ASSUME NEW u \in 1 .. NTHREADS PROVE r[u] = r[u - 1] + Counted(u)'
  <2>1. s[u] = s[u - 1] + Counted(u) /\ s[u] \in Nat /\ s[u - 1] \in Nat /\ u - 1 \in 0 .. NTHREADS
    BY <1>0 DEF Totals
  <2>2. Counted(u) \in Nat /\ Counted(u)' = IF u = t THEN Counted(u) + 1 ELSE Counted(u)
    OBVIOUS
  <2>3. r[u] = (IF u >= t THEN s[u] + 1 ELSE s[u]) /\ r[u - 1] = (IF u - 1 >= t THEN s[u - 1] + 1 ELSE s[u - 1])
    BY <1>0, <2>1
  <2>. HIDE DEF r
  <2>. QED BY <2>1, <2>2, <2>3
<1>. HIDE DEF r
<1>. QED BY <1>1, <1>2 DEF Totals

\* A thread of mcounter is in its loop, and takes the one mutex there is.
LEMMA CounterPlaces ==
  ASSUME Inv, WaitInv, program = "mcounter", NEW t \in Clients
  PROVE  /\ pc[t] \in Counting /\ t \in Threads \ {Main} /\ t # NULL
         /\ k[t] = 0 /\ Last(t) = 0 /\ Mutex(t, 0) = 0 /\ Locked(t) = "load" /\ 0 \in Mutexes
<1>1. t \in Threads \ {Main}
  BY ClientsAreThreads
<1>. QED BY <1>1, NumbersAssumption, NullAssumption
     DEF Inv, Places, Place, PlacesOf, WaitInv, OneMutex, Last, Mutex, Locked

\* Where a thread of mcounter is in its loop.
CountAt(t) ==
  /\ i[t] \in 0 .. ITER
  /\ pc[t] \in {"lock", "load", "store", "unlock"} => i[t] # ITER
  /\ pc[t] = "exited" => i[t] = ITER
  /\ pc[t] \in {"load", "store", "unlock"} => owner[0] = t
  /\ pc[t] = "store" => temp[t] = c[0] + 1

\* What a step of a thread of mcounter does to its own place and to the counter,
\* and that it takes the mutex from nobody.
LEMMA CountStepOwn ==
  ASSUME Inv, WaitInv, CountInv, program = "mcounter", NEW t \in Threads \ {Main}, ClientStep(t)
  PROVE  /\ CountAt(t)'
         /\ owner[0] \notin {NULL, t} => owner'[0] = owner[0]
         /\ \/ c' = c /\ Counted(t)' = Counted(t)
            \/ /\ pc[t] = "store" /\ c' = [c EXCEPT ![0] = c[0] + 1]
               /\ Counted(t)' = Counted(t) + 1
<1>0. /\ t \in Clients /\ pc[t] \in Counting /\ t \in Threads /\ t # NULL
      /\ k[t] = 0 /\ Last(t) = 0 /\ Mutex(t, 0) = 0 /\ Locked(t) = "load" /\ 0 \in Mutexes
      /\ DOMAIN pc = Threads /\ DOMAIN temp = Threads /\ DOMAIN i = Threads
      /\ DOMAIN owner = Mutexes /\ ITER \in Nat
  BY OwnStep, CounterPlaces, NumbersAssumption DEF Inv, TypeInv, WaitInv, Begun
<1>1. CountAt(t)
  BY <1>0 DEF CountInv, CountAt
<1>2. owner[0] \notin {NULL, t} => owner'[0] = owner[0]
  BY <1>0, OthersKeep DEF Inv
<1>. USE <1>0, <1>1, <1>2 DEF Counting, CountAt, Counted, Internal, At, Goto, shared, local, vars
<1>3. CASE While(t) \/ Compare(t) \/ Save(t) \/ Move(t) \/ Restore(t) \/ Check(t) \/ Quit(t)
  BY <1>3 DEF While, Compare, Save, Move, Restore, Check, Quit
<1>4. CASE Yield(t) \/ Rows(t)
  BY <1>4 DEF Yield, Rows
<1>5. CASE For(t)
  BY <1>5 DEF For, Leave
<1>6. CASE Load(t)
  BY <1>6 DEF Load
<1>7. CASE Store(t)
  BY <1>7 DEF Store
<1>8. CASE Lock(t)
  <2>1. CASE Acquire(t, Mutex(t, k[t])) /\ pc' = [pc EXCEPT ![t] = IF k[t] = Last(t) THEN Locked(t) ELSE "lock"]
    <3>1. pc[t] = "lock" /\ pc'[t] = "load" /\ owner'[0] = t /\ UNCHANGED <<i, temp, c>>
      BY <1>8, <2>1 DEF Lock, Acquire
    <3>. QED BY <3>1
  <2>2. CASE UNCHANGED <<pc, k>> /\ owner' = owner
    BY <1>8, <2>2 DEF Lock
  <2>. QED BY <1>8, <2>1, <2>2 DEF Lock, Park
<1>9. CASE Unlock(t)
  <2>1. pc[t] = "unlock" /\ pc'[t] = "for" /\ i'[t] = i[t] + 1 /\ UNCHANGED <<temp, c>>
    BY <1>9 DEF Unlock
  <2>. QED BY <2>1
<1>. QED BY <1>3, <1>4, <1>5, <1>6, <1>7, <1>8, <1>9 DEF ClientStep

\* No increment is lost: who is about to store has the mutex, and what it stores is
\* one more than what is there.
LEMMA CountStep ==
  ASSUME Inv, WaitInv, CountInv, 0 \in DOMAIN c, [ClientNext]_allVars
  PROVE  CountInv'
<1>1. ASSUME NEW t \in Threads \ {Main}, ClientStep(t), program = "mcounter" PROVE CountInv'
  <2>0. /\ t \in Clients /\ program' = program /\ Clients' = Clients /\ Clients = 1 .. NTHREADS
        /\ \A u \in Threads \ {t} : /\ pc'[u] = pc[u] /\ temp'[u] = temp[u] /\ i'[u] = i[u]
    BY <1>1, OwnStep DEF Clients, Created
  <2>1. /\ CountAt(t)'
        /\ owner[0] \notin {NULL, t} => owner'[0] = owner[0]
        /\ \/ c' = c /\ Counted(t)' = Counted(t)
           \/ /\ pc[t] = "store" /\ c' = [c EXCEPT ![0] = c[0] + 1]
              /\ Counted(t)' = Counted(t) + 1
    BY <1>1, CountStepOwn
  <2>2. ASSUME NEW u \in Clients, u # t
        PROVE  /\ CountAt(u)' /\ Counted(u)' = Counted(u)
    <3>1. /\ pc'[u] = pc[u] /\ temp'[u] = temp[u] /\ i'[u] = i[u] /\ u # NULL
          /\ CountAt(u)
      BY <1>1, <2>0, <2>2, CounterPlaces, ClientsAreThreads DEF CountInv, CountAt
    <3>2. pc[u] \in {"load", "store", "unlock"} => owner'[0] = u
      BY <2>1, <2>2, <3>1 DEF CountAt
    <3>3. CASE pc[u] # "store"
      BY <3>1, <3>2, <3>3 DEF CountAt, Counted
    <3>4. CASE pc[u] = "store"
      <4>1. pc[t] # "store"
        BY <1>1, <2>0, <2>2, <3>4 DEF CountInv
      <4>2. c' = c
        BY <2>1, <4>1
      <4>. QED BY <3>1, <3>2, <3>4, <4>2 DEF CountAt, Counted
    <3>. QED BY <3>3, <3>4
  <2>3. PICK s \in [0 .. NTHREADS -> Nat] : Totals(s) /\ c[0] = s[NTHREADS]
    BY <1>1 DEF CountInv
  <2>4. ASSUME NEW u \in 1 .. NTHREADS PROVE Counted(u) \in Nat
    <3>1. i[u] \in 0 .. ITER
      BY <1>1, <2>0 DEF CountInv
    <3>. QED BY <3>1, NumbersAssumption DEF Counted
  <2>5. \E r \in [0 .. NTHREADS -> Nat] : Totals(r)' /\ c'[0] = r[NTHREADS]
    <3>1. CASE c' = c /\ Counted(t)' = Counted(t)
      <4>1. Totals(s)'
        BY <2>0, <2>2, <2>3, <3>1, SameTotals
      <4>. QED BY <2>3, <3>1, <4>1
    <3>2. CASE c' = [c EXCEPT ![0] = c[0] + 1] /\ Counted(t)' = Counted(t) + 1
      <4>1. \A u \in 1 .. NTHREADS : Counted(u)' = IF u = t THEN Counted(u) + 1 ELSE Counted(u)
        BY <2>0, <2>2, <3>2
      <4>2. PICK r \in [0 .. NTHREADS -> Nat] : Totals(r)' /\ r[NTHREADS] = s[NTHREADS] + 1
        BY <2>0, <2>3, <2>4, <4>1, OneMore
      <4>. QED BY <2>3, <3>2, <4>2
    <3>. QED BY <2>1, <3>1, <3>2
  <2>6. \A u \in Clients : CountAt(u)'
    BY <2>1, <2>2
  <2>. QED BY <2>0, <2>5, <2>6 DEF CountInv, CountAt
<1>2. ASSUME ~ \E t \in Threads \ {Main} : ClientStep(t), program = "mcounter" PROVE CountInv'
  <2>1. /\ UNCHANGED <<owner, temp, c, program>> /\ Clients' = Clients
        /\ \A t \in Clients : pc'[t] = pc[t] /\ i'[t] = i[t]
    BY <1>2, RestStep, ClientsAreThreads DEF shared
  <2>2. Clients = 1 .. NTHREADS /\ \A t \in 1 .. NTHREADS : Counted(t)' = Counted(t)
    BY <1>2, <2>1 DEF Clients, Created, Counted
  <2>3. PICK s \in [0 .. NTHREADS -> Nat] : Totals(s) /\ c[0] = s[NTHREADS]
    BY <1>2 DEF CountInv
  <2>4. Totals(s)'
    BY <2>2, <2>3, SameTotals
  <2>5. \A t \in Clients : CountAt(t)'
    BY <1>2, <2>1 DEF CountInv, CountAt
  <2>. QED BY <2>1, <2>3, <2>4, <2>5 DEF CountInv, CountAt
<1>3. program' = program
  <2>1. CASE \E t \in Threads \ {Main} : ClientStep(t)
    BY <2>1, OwnStep
  <2>. QED BY <2>1, RestStep DEF shared
<1>. QED BY <1>1, <1>2, <1>3 DEF CountInv

-----------------------------------------------------------------------------
\* Multiples keep the order, and are a factor apart.
LEMMA Multiples ==
  ASSUME NEW n \in Nat \ {0}, NEW x \in Int, NEW y \in Int
  PROVE  n * x \in Int /\ (x < y => n * x + n <= n * y)
<1>1. n * x \in Int /\ n * (y - x) \in Int
  OBVIOUS
<1>2. n * y = n * x + n * (y - x)
  BY SMTT(30)
<1>3. \A z \in Int : z >= 1 => n * z >= n
  BY SMTT(30)
<1>. QED BY <1>1, <1>2, <1>3

\* A number is a multiple and a remainder in one way.
LEMMA Remainder ==
  ASSUME NEW n \in Nat \ {0}, NEW a \in Int, NEW q \in Int, NEW r \in 0 .. (n - 1), a = n * q + r
  PROVE  a % n = r
<1>. DEFINE d == a \div n
            e == a % n
<1>1. a = n * d + e /\ d \in Int /\ e \in 0 .. (n - 1)
  BY SMTT(30)
<1>. HIDE DEF d, e
<1>2. n * q \in Int /\ n * d \in Int
  BY <1>1
<1>3. (q < d => n * q + n <= n * d) /\ (d < q => n * d + n <= n * q)
  BY <1>1, Multiples
<1>4. ~(q < d) /\ ~(d < q)
  BY <1>1, <1>2, <1>3
<1>5. q = d
  BY <1>1, <1>4
<1>6. e = r
  BY <1>1, <1>2, <1>5
<1>. QED BY <1>6 DEF e

\* Two numbers of the same class are at least n apart.
LEMMA Classes ==
  ASSUME NEW n \in Nat \ {0}, NEW a \in Nat, NEW b \in Nat
  PROVE  /\ a % n \in 0 .. (n - 1)
         /\ (a + n) % n = a % n
         /\ a < n => a % n = a
         /\ a % n = b % n /\ a < b => a + n <= b
<1>. DEFINE d == a \div n
            e == a % n
            f == b \div n
            g == b % n
<1>1. a = n * d + e /\ d \in Int /\ e \in 0 .. (n - 1)
  BY SMTT(30)
<1>2. b = n * f + g /\ f \in Int /\ g \in 0 .. (n - 1)
  BY SMTT(30)
<1>. HIDE DEF d, e, f, g
<1>3. (a + n) % n = e
  <2>1. n * (d + 1) = n * d + n
    BY <1>1, SMTT(30)
  <2>2. a + n = n * (d + 1) + e /\ a + n \in Int /\ d + 1 \in Int
    BY <1>1, <2>1, n * d \in Int
  <2>. QED BY <1>1, <2>2, Remainder
<1>4. a < n => a % n = a
  BY a = n * 0 + a, Remainder
<1>5. e = g /\ a < b => a + n <= b
  <2>0. n * d \in Int /\ n * f \in Int
    BY <1>1, <1>2
  <2>1. d < f => n * d + n <= n * f
    BY <1>1, <1>2, Multiples
  <2>2. f < d => n * f + n <= n * d
    BY <1>1, <1>2, Multiples
  <2>3. f = d => n * f = n * d
    OBVIOUS
  <2>4. n * d < n * f => d < f
    BY <1>1, <1>2, <2>0, <2>2, <2>3
  <2>. HAVE e = g /\ a < b
  <2>5. n * d < n * f
    BY <1>1, <1>2, <2>0
  <2>. QED BY <1>1, <1>2, <2>0, <2>1, <2>4, <2>5
<1>. QED BY <1>1, <1>3, <1>4, <1>5 DEF e, g

-----------------------------------------------------------------------------
\* A thread of mmatrix computes its rows, or ends behind the last of them.
LEMMA RowStep ==
  ASSUME Inv, WaitInv, program = "mmatrix", NEW t \in Threads \ {Main}, ClientStep(t)
  PROVE  Rows(t) /\ pc[t] = "mm"
<1>1. pc[t] \in {"mm", "exited"}
  BY DEF Inv, Places, Place, PlacesOf
<1>. QED BY <1>1 DEF ClientStep, While, Compare, Save, Move, Restore, Check, Quit, Yield,
       For, Load, Store, Rows, Lock, Unlock, Internal, At

\* A row is some thread's, and that thread comes to it once.
LEMMA RowClasses ==
  /\ \A r \in Nat : Computes(r) \in 1 .. NTHREADS
  /\ \A a \in Nat : \A t \in 1 .. NTHREADS :
       a % NTHREADS = t - 1 =>
         /\ Computes(a) = t
         /\ a + NTHREADS \in Nat /\ (a + NTHREADS) % NTHREADS = t - 1
         /\ \A r \in Nat : Computes(r) = t => (r < a + NTHREADS <=> r < a \/ r = a)
<1>0. NTHREADS \in Nat \ {0}
  BY NumbersAssumption
<1>1. ASSUME NEW r \in Nat PROVE Computes(r) \in 1 .. NTHREADS /\ r % NTHREADS = Computes(r) - 1
  <2>. DEFINE e == r % NTHREADS
  <2>1. e \in 0 .. (NTHREADS - 1)
    BY <1>0, Classes
  <2>2. Computes(r) = e + 1
    BY DEF Computes
  <2>. HIDE DEF e
  <2>3. Computes(r) \in 1 .. NTHREADS /\ e = Computes(r) - 1
    BY <1>0, <2>1, <2>2
  <2>. QED BY <2>3 DEF e
<1>2. ASSUME NEW a \in Nat, NEW t \in 1 .. NTHREADS, a % NTHREADS = t - 1
      PROVE  /\ Computes(a) = t
             /\ a + NTHREADS \in Nat /\ (a + NTHREADS) % NTHREADS = t - 1
  <2>1. Computes(a) - 1 = t - 1 /\ Computes(a) \in 1 .. NTHREADS
    BY <1>1, <1>2
  <2>2. (a + NTHREADS) % NTHREADS = a % NTHREADS
    BY <1>0, Classes
  <2>. QED BY <1>0, <1>2, <2>1, <2>2
<1>3. ASSUME NEW a \in Nat, NEW t \in 1 .. NTHREADS, a % NTHREADS = t - 1,
             NEW r \in Nat, Computes(r) = t
      PROVE  r < a + NTHREADS <=> r < a \/ r = a
  <2>1. r % NTHREADS = a % NTHREADS
    BY <1>1, <1>3
  <2>2. a < r => a + NTHREADS <= r
    BY <1>0, <2>1, Classes
  <2>. QED BY <1>0, <2>2
<1>. QED BY <1>1, <1>2, <1>3

\* Every row is computed by the one thread that comes to it, once.
LEMMA RowsStep ==
  ASSUME Inv, WaitInv, RowsInv, DOMAIN c = 0 .. NDIM, [ClientNext]_allVars
  PROVE  RowsInv'
<1>0. NTHREADS \in Nat \ {0} /\ NDIM \in Nat
  BY NumbersAssumption
<1>1. ASSUME NEW t \in Threads \ {Main}, ClientStep(t), program = "mmatrix" PROVE RowsInv'
  <2>0. /\ t \in Clients /\ program' = program /\ Clients' = Clients /\ Clients = 1 .. NTHREADS
        /\ \A u \in Clients \ {t} : pc'[u] = pc[u] /\ i'[u] = i[u]
        /\ DOMAIN i = Threads /\ t \in Threads /\ DOMAIN pc = Threads
    BY <1>1, OwnStep, ClientsAreThreads DEF Clients, Created, WaitInv, Begun, Inv, TypeInv
  <2>1. /\ i[t] \in 0 .. (NDIM + NTHREADS) /\ i[t] \in Nat /\ i[t] % NTHREADS = t - 1
        /\ pc[t] = "mm"
    BY <1>0, <1>1, <2>0, RowStep DEF RowsInv
  <2>2. CASE i[t] >= NDIM
    <3>1. pc'[t] = "exited" /\ i' = i /\ c' = c
      BY <1>1, <2>0, <2>2, RowStep DEF Rows, Leave, Goto, local, shared
    <3>2. ASSUME NEW u \in Clients
          PROVE  /\ i'[u] \in 0 .. (NDIM + NTHREADS) /\ i'[u] % NTHREADS = u - 1
                 /\ pc'[u] = "exited" => i'[u] >= NDIM
      BY <1>1, <2>0, <2>1, <2>2, <3>1 DEF RowsInv
    <3>3. \A r \in 0 .. (NDIM - 1) : c'[r] = IF r < i'[Computes(r)] THEN 1 ELSE 0
      BY <1>1, <3>1 DEF RowsInv
    <3>. QED BY <2>0, <3>2, <3>3 DEF RowsInv, Computes
  <2>3. CASE ~(i[t] >= NDIM)
    <3>0. i[t] < NDIM /\ i[t] \in 0 .. (NDIM - 1)
      BY <1>0, <2>1, <2>3
    <3>1. /\ pc'[t] = "mm"
          /\ i' = [i EXCEPT ![t] = i[t] + NTHREADS]
          /\ c' = [c EXCEPT ![i[t]] = c[i[t]] + 1]
      BY <1>1, <2>0, <2>3, RowStep DEF Rows, Internal, Goto
    <3>2. i'[t] = i[t] + NTHREADS /\ i'[t] \in 0 .. (NDIM + NTHREADS) /\ i'[t] % NTHREADS = t - 1
      <4>1. i'[t] = i[t] + NTHREADS
        BY <2>0, <3>1
      <4>2. (i[t] + NTHREADS) % NTHREADS = t - 1
        BY <2>0, <2>1, RowClasses
      <4>3. i[t] + NTHREADS \in 0 .. (NDIM + NTHREADS)
        BY <1>0, <3>0
      <4>. QED BY <4>1, <4>2, <4>3
    <3>3. ASSUME NEW r \in 0 .. (NDIM - 1) PROVE c'[r] = IF r < i'[Computes(r)] THEN 1 ELSE 0
      <4>0. r \in Nat /\ c[r] = (IF r < i[Computes(r)] THEN 1 ELSE 0) /\ r \in DOMAIN c
        BY <1>0, <1>1 DEF RowsInv
      <4>1. Computes(r) \in Clients /\ Computes(i[t]) = t
        BY <2>0, <2>1, <4>0, RowClasses
      <4>2. CASE Computes(r) # t
        <5>1. r # i[t]
          BY <4>1, <4>2
        <5>. QED BY <2>0, <3>1, <4>0, <4>1, <4>2, <5>1
      <4>3. CASE Computes(r) = t
        <5>2. r < i[t] + NTHREADS <=> r < i[t] \/ r = i[t]
          BY <2>0, <2>1, <4>0, <4>3, RowClasses
        <5>3. CASE r = i[t]
          <6>1. c[r] = 0
            BY <2>1, <4>0, <4>3, <5>3
          <6>2. c'[r] = c[r] + 1
            BY <3>1, <4>0, <5>3
          <6>3. r < i'[t]
            BY <1>0, <3>2, <4>0, <5>3
          <6>. QED BY <4>3, <6>1, <6>2, <6>3
        <5>4. CASE r # i[t]
          <6>1. c'[r] = c[r]
            BY <3>1, <5>4
          <6>. QED BY <3>2, <4>0, <4>3, <5>2, <5>4, <6>1
        <5>. QED BY <5>3, <5>4
      <4>. QED BY <4>2, <4>3
    <3>4. ASSUME NEW u \in Clients
          PROVE  /\ i'[u] \in 0 .. (NDIM + NTHREADS) /\ i'[u] % NTHREADS = u - 1
                 /\ pc'[u] = "exited" => i'[u] >= NDIM
      BY <1>1, <2>0, <3>1, <3>2 DEF RowsInv
    <3>. QED BY <2>0, <3>3, <3>4 DEF RowsInv, Computes
  <2>. QED BY <2>2, <2>3
<1>2. ASSUME ~ \E t \in Threads \ {Main} : ClientStep(t), program = "mmatrix" PROVE RowsInv'
  <2>1. /\ UNCHANGED <<c, program>> /\ Clients' = Clients /\ Clients = 1 .. NTHREADS
        /\ \A t \in Clients : pc'[t] = pc[t] /\ i'[t] = i[t]
    BY <1>2, RestStep, ClientsAreThreads DEF shared, Clients, Created
  <2>2. \A r \in 0 .. (NDIM - 1) : Computes(r) \in Clients
    <3>1. \A r \in Nat : Computes(r) \in Clients
      BY <2>1, RowClasses
    <3>2. \A r \in 0 .. (NDIM - 1) : r \in Nat
      BY <1>0
    <3>. QED BY <3>1, <3>2
  <2>3. \A r \in 0 .. (NDIM - 1) : c'[r] = IF r < i'[Computes(r)] THEN 1 ELSE 0
    BY <1>2, <2>1, <2>2 DEF RowsInv
  <2>. QED BY <1>2, <2>1, <2>3 DEF RowsInv, Computes
<1>3. program' = program
  <2>1. CASE \E t \in Threads \ {Main} : ClientStep(t)
    BY <2>1, OwnStep
  <2>. QED BY <2>1, RestStep DEF shared
<1>. QED BY <1>1, <1>2, <1>3 DEF RowsInv

-----------------------------------------------------------------------------
\* The ranges of what the other invariants say nothing of.
Ranges ==
  /\ status \in [Threads -> {"new", "ready", "running", "waiting", "done"}]
  /\ owner \in [Mutexes -> Threads \cup {NULL}]
  /\ program \in Programs
  /\ program = "mmatrix" => \A t \in Clients : k[t] = 0
  /\ num \in [Positions -> 1 .. LISTSIZE]
  /\ quitting \in {0, 1}
  /\ c \in [0 .. NDIM -> Nat]

\* The state of the library stays of its type.
LEMMA LibraryRanges ==
  ASSUME [ClientNext]_allVars,
         status \in [Threads -> {"new", "ready", "running", "waiting", "done"}],
         owner \in [Mutexes -> Threads \cup {NULL}]
  PROVE  /\ status' \in [Threads -> {"new", "ready", "running", "waiting", "done"}]
         /\ owner' \in [Mutexes -> Threads \cup {NULL}]
<1>1. CASE Switched \/ Continue \/ UNCHANGED vars
  BY <1>1 DEF Switched, Switch, Continue, Pick, vars
<1>2. CASE Create
  BY <1>2 DEF Create, Start, Spawn
<1>3. CASE \E t \in Threads : Leave(t)
  BY <1>3 DEF Leave, Exit
<1>4. CASE \E t \in Threads : Lock(t)
  BY <1>4 DEF Lock, Acquire, Park
<1>5. CASE \E t \in Threads : Unlock(t)
  BY <1>5 DEF Unlock, Release
<1>6. ASSUME NEW t \in Threads, ClientStep(t)
      PROVE  Switched \/ UNCHANGED vars \/ Leave(t) \/ Lock(t) \/ Unlock(t)
  BY <1>6 DEF ClientStep, While, Compare, Save, Move, Restore, Check, Quit, Yield, For, Load, Store, Rows,
         Internal
<1>. QED BY <1>1, <1>2, <1>3, <1>4, <1>5, <1>6 DEF ClientNext, Preempt, Join, Internal, allVars

\* Every step keeps the ranges.
LEMMA RangesStep ==
  ASSUME Inv, WaitInv, ListInv, ListInv', CountInv, Ranges, [ClientNext]_allVars
  PROVE  Ranges'
<1>1. ASSUME NEW t \in Threads \ {Main}, ClientStep(t)
      PROVE  /\ program' = program
             /\ program = "mmatrix" => \A u \in Clients : k'[u] = 0
             /\ num' \in [Positions -> 1 .. LISTSIZE] /\ quitting' \in {0, 1}
             /\ c' \in [0 .. NDIM -> Nat]
  <2>1. program' = program /\ t \in Clients /\ \A u \in Threads \ {t} : k'[u] = k[u]
    BY <1>1, OwnStep
  <2>2. program = "mmatrix" => \A u \in Clients : k'[u] = 0
    BY <1>1, <2>1, RowStep, ClientsAreThreads DEF Ranges, Rows, Leave, local
  <2>3. num' \in [Positions -> 1 .. LISTSIZE]
    <3>1. CASE program = "mtsort"
      BY <2>1, <3>1 DEF ListInv
    <3>2. CASE program # "mtsort"
      <4>1. ~Move(t) /\ ~Restore(t)
        BY <3>2, Exchangers DEF Move, Restore, Internal, At, Exchanging
      <4>. QED BY <1>1, <4>1
           DEF Ranges, ClientStep, While, Compare, Save, Check, Quit, Yield, For, Load, Store, Rows,
               Lock, Unlock, Leave, shared
    <3>. QED BY <3>1, <3>2
  <2>4. quitting' \in {0, 1}
    <3>1. CASE Quit(t)
      <4>1. pc[t] = "quit" /\ pc[t] \in PlacesOf(t) /\ quitting' = temp[t]
        BY <3>1 DEF Quit, Internal, At, Inv, Places, Place
      <4>2. program = "mtsort" /\ t = Checker
        BY <4>1 DEF Inv, TypeInv, PlacesOf, Counting, Sorting, Exchanging, Elsewhere
      <4>. QED BY <4>1, <4>2 DEF ListInv
    <3>2. CASE ~Quit(t)
      BY <1>1, <3>2
         DEF Ranges, ClientStep, While, Compare, Save, Check, Move, Restore, Yield, For, Load, Store, Rows,
             Lock, Unlock, Leave, shared
    <3>. QED BY <3>1, <3>2
  <2>5. c' \in [0 .. NDIM -> Nat]
    <3>1. CASE Store(t)
      <4>1. pc[t] = "store" /\ pc[t] \in PlacesOf(t) /\ c' = [c EXCEPT ![0] = temp[t]]
        BY <3>1 DEF Store, Internal, At, Inv, Places, Place
      <4>2. program = "mcounter"
        BY <4>1 DEF Inv, TypeInv, PlacesOf, Sorting, Exchanging, Elsewhere, Checking
      <4>3. temp[t] = c[0] + 1 /\ c[0] \in Nat
        BY <2>1, <4>1, <4>2, NumbersAssumption DEF CountInv, Ranges
      <4>4. temp[t] \in Nat
        BY <4>3
      <4>. QED BY <4>1, <4>4 DEF Ranges
    <3>2. CASE Rows(t)
      <4>1. c' = c \/ \E r : c' = [c EXCEPT ![r] = c[r] + 1]
        BY <3>2 DEF Rows, Leave, shared
      <4>. QED BY <4>1 DEF Ranges
    <3>3. CASE ~Store(t) /\ ~Rows(t)
      BY <1>1, <3>3
         DEF Ranges, ClientStep, While, Compare, Save, Check, Quit, Move, Restore, Yield, For, Load,
             Lock, Unlock, Leave, shared
    <3>. QED BY <3>1, <3>2, <3>3
  <2>. QED BY <2>1, <2>2, <2>3, <2>4, <2>5
<1>2. CASE ~ \E t \in Threads \ {Main} : ClientStep(t)
  BY <1>2, RestStep, LibraryRanges DEF Ranges, shared
<1>3. CASE \E t \in Threads \ {Main} : ClientStep(t)
  BY <1>1, <1>3, OwnStep, LibraryRanges DEF Ranges
<1>. QED BY <1>2, <1>3
-----------------------------------------------------------------------------
Results == MainInv /\ ListInv /\ CountInv /\ RowsInv /\ Ranges

LEMMA ResultsStep == Inv /\ WaitInv /\ Results /\ [ClientNext]_allVars => Results'
<1>. SUFFICES ASSUME Inv, WaitInv, Results, [ClientNext]_allVars PROVE Results'
  OBVIOUS
<1>1. MainInv' /\ ListInv'
  BY MainStep, ListStep DEF Results
<1>2. DOMAIN c = 0 .. NDIM /\ 0 \in DOMAIN c
  BY NumbersAssumption DEF Results, Ranges
<1>3. CountInv' /\ RowsInv'
  BY <1>2, CountStep, RowsStep DEF Results
<1>4. Ranges'
  BY <1>1, RangesStep DEF Results
<1>. QED BY <1>1, <1>3, <1>4 DEF Results

\* The programs begin with a decreasing list and with nothing counted.
LEMMA ResultsInit == ClientInit => Results
<1>. SUFFICES ASSUME ClientInit PROVE Results
  OBVIOUS
<1>. USE DEF ClientInit, Init
<1>0. /\ Clients \subseteq Threads \ {Main} /\ Main \in Threads /\ Created \in Nat \ {0}
      /\ LISTSIZE \in Nat \ {0, 1} /\ NTHREADS \in Nat \ {0} /\ ITER \in Nat /\ NDIM \in Nat
      /\ Positions = 0 .. (LISTSIZE - 1) /\ Positions \subseteq Threads
      /\ Workers \subseteq Threads \ {Main} /\ Checker \in Workers
  BY NumbersAssumption, ClientsAreThreads, WorkersAreThreads DEF Positions
<1>1. MainInv
  <2>1. pc[Main] = "create" /\ i[Main] = 0 /\ DOMAIN i = Threads
    BY <1>0
  <2>2. \A t \in Clients : status[t] # "done"
    BY <1>0
  <2>3. 0 \in 0 .. Created /\ 0 # Created
    BY <1>0
  <2>. QED BY <2>1, <2>2, <2>3 DEF MainInv
<1>2. ASSUME NEW t \in Clients PROVE pc[t] \in {"while", "for", "mm"} /\ pc[t] = FirstStatement(program)
  BY <1>0, ProgramsAssumption DEF FirstStatement
<1>3. ListInv
  <2>. SUFFICES ASSUME program = "mtsort" PROVE ListInv
    BY DEF ListInv
  <2>1. \A t \in Threads \ {Main} : pc[t] = "while" /\ i[t] = 0
    BY DEF FirstStatement
  <2>2. \A j \in Positions : num[j] = LISTSIZE - j /\ num[j] \in 1 .. LISTSIZE /\ (j # 0 => j \in Workers)
    BY <1>0 DEF Workers
  <2>3. num \in [Positions -> 1 .. LISTSIZE]
    BY <1>0, <2>2
  <2>4. \A j \in Positions : Entry(j) = LISTSIZE - j
    BY <1>0, <2>1, <2>2 DEF Entry
  <2>5. \A j, l \in Positions : Entry(j) = Entry(l) => j = l
    BY <1>0, <2>4
  <2>6. \A j \in Positions : Entry(j) \in 1 .. LISTSIZE
    BY <2>2, <2>4
  <2>7. 1 .. (LISTSIZE - 1) \subseteq Workers
    BY NumbersAssumption DEF Workers
  <2>8. \A t \in Workers : pc[t] = "while" /\ i[t] = 0
    BY <1>0, <2>1
  <2>. QED BY <1>0, <2>3, <2>5, <2>6, <2>7, <2>8 DEF ListInv
<1>4. CountInv
  <2>. SUFFICES ASSUME program = "mcounter" PROVE CountInv
    BY DEF CountInv
  <2>1. \A t \in Clients : pc[t] = "for" /\ i[t] = 0
    BY <1>0 DEF FirstStatement
  <2>2. Clients = 1 .. NTHREADS /\ \A t \in 1 .. NTHREADS : Counted(t) = 0
    BY <2>1 DEF Clients, Created, Counted
  <2>. DEFINE s == [j \in 0 .. NTHREADS |-> 0]
  <2>3. s \in [0 .. NTHREADS -> Nat] /\ c[0] = s[NTHREADS] /\ s[0] = 0
    BY <1>0
  <2>4. ASSUME NEW t \in 1 .. NTHREADS PROVE s[t] = s[t - 1] + Counted(t)
    <3>1. t \in 0 .. NTHREADS /\ t - 1 \in 0 .. NTHREADS
      BY <1>0
    <3>. QED BY <2>2, <3>1
  <2>. HIDE DEF s
  <2>5. Totals(s)
    BY <2>3, <2>4 DEF Totals
  <2>0. 0 \in 0 .. ITER
    BY <1>0
  <2>6. \A t \in Clients : i[t] \in 0 .. ITER
    BY <2>0, <2>1
  <2>7. \E r \in [0 .. NTHREADS -> Nat] : Totals(r) /\ c[0] = r[NTHREADS]
    BY <2>3, <2>5
  <2>. QED BY <2>1, <2>6, <2>7 DEF CountInv
<1>5. RowsInv
  <2>. SUFFICES ASSUME program = "mmatrix" PROVE RowsInv
    BY DEF RowsInv
  <2>1. Clients = 1 .. NTHREADS
    BY DEF Clients, Created
  <2>2. ASSUME NEW t \in Clients
        PROVE  /\ pc[t] # "exited" /\ i[t] = t - 1 /\ i[t] \in 0 .. (NDIM + NTHREADS)
               /\ i[t] % NTHREADS = t - 1
    <3>1. i[t] = t - 1
      BY <1>0
    <3>2. t - 1 \in Nat /\ t - 1 < NTHREADS /\ t - 1 \in 0 .. (NDIM + NTHREADS)
      BY <1>0, <2>1
    <3>3. (t - 1) % NTHREADS = t - 1
      BY <1>0, <3>2, Classes
    <3>4. pc[t] # "exited"
      BY <1>2
    <3>. QED BY <3>1, <3>2, <3>3, <3>4
  <2>3. ASSUME NEW r \in 0 .. (NDIM - 1) PROVE c[r] = 0 /\ ~(r < i[Computes(r)])
    <3>1. r \in Nat /\ r \in 0 .. NDIM
      BY <1>0
    <3>2. Computes(r) \in Clients
      BY <2>1, <3>1, RowClasses
    <3>3. i[Computes(r)] = Computes(r) - 1
      BY <2>2, <3>2
    <3>. DEFINE e == r % NTHREADS
    <3>4. e <= r /\ e \in Int
      <4>1. e \in 0 .. (NTHREADS - 1)
        BY <1>0, <3>1, Classes
      <4>2. r < NTHREADS => e = r
        BY <1>0, <3>1, Classes
      <4>. HIDE DEF e
      <4>. QED BY <1>0, <3>1, <4>1, <4>2
    <3>5. Computes(r) = e + 1
      BY DEF Computes
    <3>. HIDE DEF e
    <3>. QED BY <3>1, <3>3, <3>4, <3>5
  <2>. QED BY <2>2, <2>3 DEF RowsInv
<1>6. Ranges
  <2>1. \A j \in Positions : LISTSIZE - j \in 1 .. LISTSIZE
    BY <1>0
  <2>2. \A t \in Clients : k[t] = 0
    BY <1>0
  <2>3. num \in [Positions -> 1 .. LISTSIZE]
    BY <1>0, <2>1
  <2>. QED BY <2>2, <2>3 DEF Ranges
<1>. QED BY <1>1, <1>3, <1>4, <1>5, <1>6 DEF Results

\* What the programs have done so far is as they are to do it, for any number of
\* threads, numbers, turns and rows.
THEOREM ResultsInv == ClientSpec => []Results
BY ResultsInit, ResultsStep, ClientsInv, WaitInvHolds, PTL DEF ClientSpec

-----------------------------------------------------------------------------
\* A set of numbers has a least one.
LEMMA LeastNumber ==
  ASSUME NEW S \in SUBSET Nat, S # {}
  PROVE  \E m \in S : \A n \in S : m <= n
<1>. DEFINE T == {0 .. n : n \in S}
<1>1. T \subseteq FiniteSubsetsOf(Nat) /\ T # {}
  <2>1. ASSUME NEW n \in S PROVE 0 .. n \in FiniteSubsetsOf(Nat)
    <3>1. n \in Int /\ 0 \in Int
      OBVIOUS
    <3>2. IsFiniteSet(0 .. n)
      BY <3>1, FS_Interval
    <3>3. 0 .. n \in SUBSET Nat
      OBVIOUS
    <3>. QED BY <3>2, <3>3 DEF FiniteSubsetsOf
  <2>. QED BY <2>1
<1>2. PICK x \in T : \A y \in T : ~ (<<y, x>> \in StrictSubsetOrdering(Nat))
  BY <1>1, FS_StrictSubsetOrderingWellFounded, WFMin
<1>3. PICK m \in S : x = 0 .. m
  OBVIOUS
<1>4. ASSUME NEW n \in S, n < m PROVE FALSE
  <2>1. <<0 .. n, 0 .. m>> \in StrictSubsetOrdering(Nat)
    BY <1>4 DEF StrictSubsetOrdering
  <2>. QED BY <1>2, <1>3, <2>1
<1>. QED BY <1>4

\* A sorted list of the numbers 1 .. LISTSIZE, each once, has each at its place.
LEMMA SortedIsInOrder ==
  ASSUME NEW l \in [Positions -> 1 .. LISTSIZE],
         \A a, b \in Positions : l[a] = l[b] => a = b,
         \A j \in 1 .. (LISTSIZE - 1) : l[j - 1] <= l[j]
  PROVE  l = [j \in Positions |-> j + 1]
<1>0. LISTSIZE \in Nat \ {0, 1} /\ Positions = 0 .. (LISTSIZE - 1)
  BY NumbersAssumption DEF Positions
<1>1. ASSUME NEW j \in 1 .. (LISTSIZE - 1) PROVE l[j - 1] < l[j] /\ j - 1 \in Positions /\ j \in Positions
  <2>1. j - 1 \in Positions /\ j \in Positions /\ j - 1 # j
    BY <1>0
  <2>. QED BY <1>0, <1>1, <2>1
<1>2. ASSUME NEW a \in Positions, l[a] < a + 1 PROVE FALSE
  <2>. DEFINE S == {j \in Positions : l[j] < j + 1}
  <2>0. a \in S
    BY <1>2
  <2>10. Positions \subseteq Nat
    BY <1>0
  <2>1. S \in SUBSET Nat /\ S # {}
    BY <2>0, <2>10
  <2>2. PICK m \in S : \A n \in S : m <= n
    BY <2>1, LeastNumber
  <2>3. m # 0
    BY <1>0, <2>2
  <2>4. m \in 1 .. (LISTSIZE - 1)
    BY <1>0, <2>2, <2>3
  <2>5. m - 1 \notin S
    BY <2>2, <2>4
  <2>6. l[m - 1] >= m /\ l[m - 1] < l[m] /\ l[m] < m + 1
    BY <1>0, <1>1, <2>2, <2>4, <2>5
  <2>. QED BY <1>0, <1>1, <2>4, <2>6
<1>3. ASSUME NEW a \in Positions, l[a] > a + 1 PROVE FALSE
  <2>. DEFINE S == {d \in Positions : l[(LISTSIZE - 1) - d] > LISTSIZE - d}
  <2>1. (LISTSIZE - 1) - a \in S /\ S \in SUBSET Nat
    BY <1>0, <1>3
  <2>2. PICK m \in S : \A n \in S : m <= n
    BY <2>1, LeastNumber
  <2>. DEFINE b == (LISTSIZE - 1) - m
  <2>3. b \in Positions /\ l[b] > b + 1 /\ m \in Positions
    BY <1>0, <2>2
  <2>4. b # LISTSIZE - 1
    BY <1>0, <2>3
  <2>5. b + 1 \in 1 .. (LISTSIZE - 1) /\ (b + 1) - 1 = b /\ m - 1 \in Positions
    BY <1>0, <2>3, <2>4
  <2>6. m - 1 \notin S
    <3>1. m - 1 < m /\ m - 1 \in Int /\ m \in Int
      BY <1>0, <2>3
    <3>. QED BY <2>2, <3>1
  <2>7. (LISTSIZE - 1) - (m - 1) = b + 1 /\ LISTSIZE - (m - 1) = b + 2
    BY <1>0, <2>3
  <2>8. ~(l[b + 1] > b + 2)
    BY <2>5, <2>6, <2>7
  <2>9. l[b] < l[b + 1] /\ l[b] \in Int /\ l[b + 1] \in Int /\ b \in Int
    BY <1>0, <1>1, <2>3, <2>5
  <2>. HIDE DEF b
  <2>. QED BY <2>3, <2>8, <2>9
<1>4. \A j \in Positions : l[j] = j + 1
  BY <1>0, <1>2, <1>3
<1>. QED BY <1>4

\* Threads that have counted ITER times each have counted ITER times their number.
LEMMA TotalsOfEqual ==
  ASSUME NEW s \in [0 .. NTHREADS -> Nat], Totals(s), \A t \in 1 .. NTHREADS : Counted(t) = ITER
  PROVE  s[NTHREADS] = ITER * NTHREADS
<1>0. NTHREADS \in Nat \ {0} /\ ITER \in Nat
  BY NumbersAssumption
<1>. DEFINE S == {t \in 0 .. NTHREADS : s[t] # ITER * t}
<1>. SUFFICES ASSUME S # {} PROVE FALSE
  BY <1>0
<1>1. S \in SUBSET Nat
  OBVIOUS
<1>2. PICK m \in S : \A n \in S : m <= n
  BY <1>1, LeastNumber
<1>3. ITER * 0 = 0
  BY <1>0
<1>4. m # 0
  BY <1>2, <1>3 DEF Totals
<1>5. m \in 1 .. NTHREADS /\ m - 1 \in 0 .. NTHREADS
  BY <1>0, <1>2, <1>4
<1>6. m - 1 \notin S
  BY <1>2, <1>5
<1>7. s[m - 1] = ITER * (m - 1) /\ s[m] = s[m - 1] + ITER
  BY <1>5, <1>6 DEF Totals
<1>8. ITER * m = ITER * (m - 1) + ITER
  BY <1>0, <1>5, SMTT(30)
<1>. QED BY <1>2, <1>7, <1>8

\* What main finds when all have exited.
LEMMA ResultsRight == Inv /\ Results => ResultRight
<1>. SUFFICES ASSUME Inv, Results, pc[Main] = "report"
              PROVE  CASE program = "mtsort" -> num = [j \in 0 .. (LISTSIZE - 1) |-> j + 1]
                       [] program = "mcounter" -> c[0] = ITER * NTHREADS
                       [] program = "mmatrix" -> CheckMatrix
  BY DEF ResultRight
<1>0. program \in {"mtsort", "mcounter", "mmatrix"} /\ \A t \in Clients : pc[t] = "exited"
  BY DEF Inv, TypeInv, Results, MainInv, Clients
<1>1. ASSUME program = "mtsort" PROVE num = [j \in 0 .. (LISTSIZE - 1) |-> j + 1]
  <2>1. Clients = Workers /\ Checker \in Workers /\ Positions \ {0} \subseteq Workers
    BY <1>1, ClientsAreThreads, WorkersAreThreads, NumbersAssumption DEF Positions, Workers
  <2>2. Sorted /\ ListInv
    BY <1>0, <1>1, <2>1 DEF Results, ListInv, SortedForGood
  <2>3. \A j \in Positions : Entry(j) = num[j]
    BY <1>0, <2>1 DEF Entry
  <2>4. \A a, b \in Positions : num[a] = num[b] => a = b
    BY <1>1, <2>2, <2>3 DEF ListInv
  <2>5. num = [j \in Positions |-> j + 1]
    BY <1>1, <2>2, <2>4, SortedIsInOrder DEF ListInv, Sorted
  <2>. QED BY <2>5 DEF Positions
<1>2. ASSUME program = "mcounter" PROVE c[0] = ITER * NTHREADS
  <2>1. Clients = 1 .. NTHREADS
    BY <1>2 DEF Clients, Created
  <2>2. \A t \in 1 .. NTHREADS : Counted(t) = ITER
    BY <1>0, <1>2, <2>1 DEF Results, CountInv, Counted
  <2>. QED BY <1>2, <2>2, TotalsOfEqual DEF Results, CountInv
<1>3. ASSUME program = "mmatrix" PROVE CheckMatrix
  <2>. SUFFICES ASSUME NEW r \in 0 .. (NDIM - 1) PROVE c[r] = 1
    BY DEF CheckMatrix
  <2>1. Clients = 1 .. NTHREADS /\ r \in Nat
    BY <1>3, NumbersAssumption DEF Clients, Created
  <2>2. Computes(r) \in Clients
    BY <2>1, RowClasses
  <2>3. i[Computes(r)] >= NDIM /\ i[Computes(r)] \in Int
    BY <1>0, <1>3, <2>2 DEF Results, RowsInv
  <2>4. r < i[Computes(r)]
    BY <2>1, <2>3, NumbersAssumption
  <2>. QED BY <1>3, <2>4 DEF Results, RowsInv
<1>. QED BY <1>0, <1>1, <1>2, <1>3

\* When main has joined the threads, mtsort's list holds the numbers in their
\* order, no increment of mcounter is lost, and every row of mmatrix's product is
\* computed once.
THEOREM ResultsAreRight == ClientSpec => []ResultRight
BY ResultsRight, ResultsInv, ClientsInv, PTL

\* Every thread is somewhere in its program, every loop within its bounds.
THEOREM ClientsTyped == ClientSpec => []TypeOK
<1>1. Inv /\ WaitInv /\ Results => TypeOK
  <2>. SUFFICES ASSUME Inv, WaitInv, Results PROVE TypeOK
    OBVIOUS
  <2>0. program \in {"mtsort", "mcounter", "mmatrix"} /\ LISTSIZE \in Nat \ {0, 1}
    BY NumbersAssumption DEF Inv, TypeInv
  <2>1. ASSUME NEW t \in Clients
        PROVE  i[t] \in 0 .. CASE program = "mtsort" -> 0
                               [] program = "mcounter" -> ITER
                               [] program = "mmatrix" -> NDIM + NTHREADS
    <3>1. program = "mtsort" => i[t] = 0
      BY ClientsAreThreads DEF Results, ListInv
    <3>2. program = "mcounter" => i[t] \in 0 .. ITER
      BY DEF Results, CountInv
    <3>3. program = "mmatrix" => i[t] \in 0 .. (NDIM + NTHREADS)
      BY DEF Results, RowsInv
    <3>. QED BY <2>0, <3>1, <3>2, <3>3
  <2>2. ASSUME NEW t \in Clients PROVE k[t] \in 0 .. (LISTSIZE - 1)
    <3>1. CASE program = "mmatrix"
      BY <2>0, <3>1 DEF Results, Ranges
    <3>2. CASE program # "mmatrix"
      <4>1. k[t] \in 0 .. Last(t)
        BY <3>2, MutexesInOrder DEF WaitInv
      <4>2. Last(t) \in {0, 1, LISTSIZE - 1}
        BY DEF Last
      <4>. QED BY <2>0, <4>1, <4>2
    <3>. QED BY <3>1, <3>2
  <2>. QED BY <2>1, <2>2 DEF Results, Ranges, MainInv, TypeOK, Clients, Positions
<1>. QED BY <1>1, ClientsInv, WaitInvHolds, ResultsInv, PTL

=============================================================================

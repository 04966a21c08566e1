--------------------------- MODULE ThreadContract ---------------------------
(***************************************************************************)
(* What the thread library promises its client, whatever its queues and    *)
(* statements are: one thread runs at a time, only a taken mutex makes a   *)
(* thread wait, waiters are woken first come first served, and a release   *)
(* wakes one if there is one.  Scheduler implements it as long as the      *)
(* timer does not strike inside the windows its README names.              *)
(***************************************************************************)
EXTENDS Sequences

CONSTANTS Threads, Main, Mutexes, NULL

VARIABLES
  status,   \* of each thread: "new", "ready", "running", "waiting" or "done"
  owner,    \* the thread that has each mutex, or NULL
  waiters   \* the threads that wait for each mutex, longest first

vars == <<status, owner, waiters>>

Init ==
  /\ status = [t \in Threads |-> "new"]
  /\ owner = [m \in Mutexes |-> NULL]
  /\ waiters = [m \in Mutexes |-> <<>>]

Start(c) ==
  /\ \A t \in Threads : status[t] = "new"
  /\ c # Main
  /\ status' = [status EXCEPT ![Main] = "running", ![c] = "ready"]
  /\ UNCHANGED <<owner, waiters>>

Spawn(t, c) ==
  /\ status[t] = "running"
  /\ status[c] = "new"
  /\ status' = [status EXCEPT ![c] = "ready"]
  /\ UNCHANGED <<owner, waiters>>

\* t gives the processor up to u.
Switch(t, u) ==
  /\ status[t] = "running"
  /\ status[u] = "ready"
  /\ status' = [status EXCEPT ![t] = "ready", ![u] = "running"]
  /\ UNCHANGED <<owner, waiters>>

\* t gives the processor up to u because another thread has m.
Park(t, u, m) ==
  /\ status[t] = "running"
  /\ status[u] = "ready"
  /\ owner[m] \notin {NULL, t}
  /\ status' = [status EXCEPT ![t] = "waiting", ![u] = "running"]
  /\ waiters' = [waiters EXCEPT ![m] = Append(@, t)]
  /\ UNCHANGED owner

Exit(t) ==
  /\ status[t] = "running"
  /\ \A m \in Mutexes : owner[m] # t
  /\ status' = [status EXCEPT ![t] = "done"]
  /\ UNCHANGED <<owner, waiters>>

\* The running thread exited: u runs next.
Pick(u) ==
  /\ \A t \in Threads : status[t] # "running"
  /\ status[u] = "ready"
  /\ status' = [status EXCEPT ![u] = "running"]
  /\ UNCHANGED <<owner, waiters>>

Acquire(t, m) ==
  /\ status[t] = "running"
  /\ owner[m] = NULL
  /\ owner' = [owner EXCEPT ![m] = t]
  /\ UNCHANGED <<status, waiters>>

Release(t, m) ==
  /\ status[t] = "running"
  /\ owner[m] = t
  /\ owner' = [owner EXCEPT ![m] = NULL]
  /\ IF waiters[m] = <<>>
     THEN UNCHANGED <<status, waiters>>
     ELSE /\ status' = [status EXCEPT ![Head(waiters[m])] = "ready"]
          /\ waiters' = [waiters EXCEPT ![m] = Tail(@)]

Next ==
  \/ \E c \in Threads : Start(c) \/ Pick(c)
  \/ \E t, u \in Threads : \/ Spawn(t, u)
                           \/ Switch(t, u)
                           \/ \E m \in Mutexes : Park(t, u, m)
  \/ \E t \in Threads : \/ Exit(t)
                        \/ \E m \in Mutexes : Acquire(t, m) \/ Release(t, m)

Spec == Init /\ [][Next]_vars
=============================================================================

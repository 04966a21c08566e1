------------------------- MODULE SchedulerRefinement -------------------------
(***************************************************************************)
(* The refinement mapping from Scheduler to ThreadContract.                *)
(***************************************************************************)
EXTENDS Scheduler, Sequences

\* An unlock has taken t off the wait queue and not yet cleared the flag.
BeingWoken(t) ==
  \E u \in Threads : call[u].op = "unlock" /\ call[u].elem = t

\* A thread is waiting from the switch that puts it away, BLOCKED, to the store
\* that clears the flag in the unlock that wakes it.
Status(t) ==
  CASE threadState[t] = "NEW"    -> "new"
    [] threadState[t] = "EXITED" -> "done"
    [] t = currentThread /\ threadState[t] \notin {"NEW", "EXITED"} -> "running"
    [] OTHER -> IF threadState[t] = "BLOCKED" \/ BeingWoken(t) THEN "waiting"
                                                               ELSE "ready"

Owner(m) ==
  LET owners == {t \in Threads : m \in holds[t] \/ Unlocking(t, m)}
  IN  IF owners = {} THEN NULL ELSE CHOOSE t \in owners : TRUE

\* The list of the wait queue as a sequence, without the current thread, which
\* comes last in it from its own enqueue to its switch.
Queued(m) ==
  LET nth == Nth(m)
  IN  [n \in {k \in DOMAIN nth : nth[k] \notin {NULL, currentThread}} |-> nth[n]]

\* The thread that is being woken still waits, before the others.
Waiters(m) ==
  LET woken == {t \in Threads : BeingWoken(t) /\ call[t].arg = m}
  IN  IF woken = {} THEN Queued(m) ELSE <<CHOOSE t \in woken : TRUE>> \o Queued(m)

contractStatus  == [t \in Threads |-> Status(t)]
contractOwner   == [m \in Mutexes |-> Owner(m)]
contractWaiters == [m \in Mutexes |-> Waiters(m)]

Contract == INSTANCE ThreadContract
              WITH status <- contractStatus, owner <- contractOwner, waiters <- contractWaiters

\* Every step of the library is a step of the contract or changes nothing the
\* contract speaks of.
ImplementsContract == Contract!Spec
=============================================================================

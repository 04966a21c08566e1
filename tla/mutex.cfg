SPECIFICATION Spec
CONSTANTS
  NULL = NULL
  Main = main
  Threads = {main, a, b}
  Mutexes = {m}
  Values = {}
  RUN_QUEUES = 2
  MAINTENANCE_THRESHOLD = 1
  MaxHeld = 1
  Calls = {"create", "exit", "lock", "unlock"}
  Preemptible = {"user", "schedule", "returned", "join_test", "join_value", "join_run",
                 "lock_test", "unlock_test"}
SYMMETRY Symmetric
INVARIANTS QueuesMatchStates NoLostWakeup LastExitIsLast
PROPERTY ImplementsContract

SPECIFICATION Spec
CONSTANTS
  NULL = NULL
  Main = main
  Threads = {main, a}
  Mutexes = {m}
  Values = {}
  RUN_QUEUES = 2
  MAINTENANCE_THRESHOLD = 2
  MaxHeld = 1
  Calls = {"exit", "lock", "unlock"}
  Preemptible = {"user", "schedule", "returned", "join_test", "join_value", "join_run",
                 "lock_test", "lock_block", "unlock_test"}
INVARIANT LastExitIsLast

SPECIFICATION FairSpec
CONSTANTS
  NULL = NULL
  Main = main
  Threads = {main, a}
  Mutexes = {}
  Values = {v}
  RUN_QUEUES = 3
  MAINTENANCE_THRESHOLD = 1
  MaxHeld = 1
  Calls = {"yield", "exit", "join"}
  Preemptible = {"user", "schedule", "returned", "join_test", "join_value", "join_run",
                 "lock_test", "unlock_test"}
INVARIANT JoinDeliversRetval
PROPERTIES QueuedRuns JoinReturns

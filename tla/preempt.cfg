SPECIFICATION Spec
CONSTANTS
  NULL = NULL
  Main = main
  Threads = {main, a}
  Mutexes = {m}
  Values = {}
  RUN_QUEUES = 2
  MAINTENANCE_THRESHOLD = 2
  MaxHeld = 1
  Calls = {"exit", "join", "lock", "unlock"}
  Preemptible = {"user", "schedule", "returned", "enqueue", "enqueue_front", "enqueue_next",
                 "enqueue_rear", "exit_value", "join_test", "join_value", "join_run",
                 "lock_test", "lock_block", "unlock_test", "dequeue", "dequeue_next",
                 "dequeue_rear", "unlock_state", "unlock_flag"}
SYMMETRY Symmetric
INVARIANTS TypeOK MutualExclusion TimerArmed

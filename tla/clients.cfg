SPECIFICATION ClientSpec
CONSTANTS
  Threads = {0, 1, 2, 3}
  Main = 0
  Mutexes = {0, 1, 2}
  NULL = NULL
  Programs = {"mtsort", "mcounter", "mmatrix"}
  LISTSIZE = 3
  NTHREADS = 3
  ITER = 2
  NDIM = 4
INVARIANTS TypeOK QuitsSorted NoDeadlock ResultRight
CHECK_DEADLOCK FALSE
PROPERTY Finishes

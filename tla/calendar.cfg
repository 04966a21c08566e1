SPECIFICATION FairSpec
CONSTANTS
  Threads = {main, t1, t2}
  Main = main
  Mutexes = {m}
  NULL = NULL
  Windows = {}
INVARIANT TypeOK
PROPERTIES SoundKept QueuedRuns
CHECK_DEADLOCK FALSE

---------------------------- MODULE MCScheduler ----------------------------
\* Small instances of Scheduler for TLC.
EXTENDS SchedulerRefinement, TLC

\* The threads other than Main are interchangeable, and so are the mutexes and
\* the exit values.
Symmetric == Permutations(Threads \ {Main})
             \cup Permutations(Mutexes) \cup Permutations(Values)
=============================================================================

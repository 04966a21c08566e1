---------------------------- MODULE MCCalendar ----------------------------
EXTENDS Calendar, TLC

Symmetric == Permutations(Threads \ {Main}) \cup Permutations(Mutexes)
=============================================================================

---------------------------- MODULE MC_Scheduler ----------------------------
EXTENDS Scheduler, TLC

CONSTANTS s1, s2, a, b, c

MC_Servicers == {s1, s2}
MC_Tasks == {a, b, c}

\* a schedules b before it returns; c is a task of scheduleevery().
MC_Follow == (a :> b) @@ (b :> NoTask) @@ (c :> c)

\* c may come before, with or after what a thread already waits for.
MC_Times == (a :> {0}) @@ (b :> {}) @@ (c :> {0, 1})
=============================================================================

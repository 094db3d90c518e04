SPECIFICATION FairSpec
CONSTANTS
  Workers = {w1, w2}
  Clients = {c1, c2}
  Funcs = {f1, f2}
  Opaque = {g}
  Params = {a1, a2, a3}
  NULL = NULL
  MaxTasks = 3
INVARIANTS WakeupsSuffice SpinsOnlyIfMisused ArgumentUsedOnce
PROPERTIES LeftTasksStart WorkersEnd

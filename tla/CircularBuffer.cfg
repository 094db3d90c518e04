SPECIFICATION Spec
CONSTANTS
  Threads = {t1, t2, t3, t4}
  Values = {v1, v2}
  NoValue = NoValue
  NULL = NULL
  Capacity = 2
SYMMETRY Symmetry
INVARIANTS WakeupsSuffice
PROPERTIES ImplementsFifo

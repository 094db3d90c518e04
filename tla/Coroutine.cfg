SPECIFICATION FairSpec
CONSTANTS
  Coros = {c1, c2, c3}
  Main = main
  NULL = NULL
  Destroyers = {main, c1, c2}
  MaxYields = 1
INVARIANTS CountsList ContextsValid NothingDangles
PROPERTIES DestroyReturns

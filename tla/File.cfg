SPECIFICATION Spec
CONSTANTS
  Objs = {f1, f2}
  Paths = {p1}
  Modes = {"r", "r+", "w"}
  Chars = {a, nl}
  NL = nl
  NULL = NULL
  Absent = Absent
  Unbound = Unbound
  MaxStreams = 2
  MaxLen = 2
  MaxWrite = 1
INVARIANTS ClosedOnce NoLeak
PROPERTIES ImplementsCursors
SYMMETRY Symmetry
CHECK_DEADLOCK FALSE

SPECIFICATION Spec
CONSTANTS
  m1 = m1  m2 = m2  m3 = m3  h1 = h1  h2 = h2  s1 = s1  s2 = s2
  r1 = r1  cb1 = cb1  p1 = p1
  Msgs = {m1, m2, m3}
  Handlers = {h1, h2}
  FrontHandlers = {h1, h2}
  Senders = {s1, s2}
  NULL = NULL
  Whats = {0}
  Args = {0}
  Runnables = {}
  HandlerCallbacks = {}
  Params = {}
  Contents <- PlainOnly
  MaxMsgPoolSize = 2
  Delays <- Negative1And1
  Uptimes = {2}
  OutTimes = {0, 1}
  MaxTime = 2
  Windows = FALSE
SYMMETRY Symmetry
INVARIANTS TailPointsToLast SortedByWhen BlockedMeansIdle NoLostWakeup
PROPERTIES
  DeliversEarliestDue FifoPerTime SafeQuitDrains ClosedForGood
  RemovesBehindHead

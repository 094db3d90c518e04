SPECIFICATION Spec
CONSTANTS
  m1 = m1  m2 = m2  m3 = m3  h1 = h1  h2 = h2  s1 = s1  s2 = s2
  r1 = r1  cb1 = cb1  p1 = p1
  Msgs = {m1, m2}
  Handlers = {h1, h2}
  FrontHandlers = {h1, h2}
  Senders = {s1}
  NULL = NULL
  Whats = {0, 1}
  Args = {0}
  Runnables = {r1}
  HandlerCallbacks = {cb1}
  Params = {p1}
  Contents <- PlainAndRich
  MaxMsgPoolSize = 1
  Delays <- Negative1And1
  Uptimes = {}
  OutTimes = {}
  MaxTime = 1
  Windows = TRUE
SYMMETRY Symmetry
INVARIANTS SoleOwner PoolReady

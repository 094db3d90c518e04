SPECIFICATION FairLoopSpec
CONSTANTS
  m1 = m1  m2 = m2  h1 = h1  h2 = h2  s1 = s1  s2 = s2  q1 = q1  q2 = q2
  Msgs = {m1}
  Handlers = {h1}
  FrontHandlers = {}
  Posters = {h1}
  Senders = {s1}
  Quitters = {q1, q2}
  NULL = NULL
  Whats = {0}
  Args = {0}
  Runnables = {}
  HandlerCallbacks = {}
  Params = {}
  Contents <- PlainOnly
  MaxMsgPoolSize = 1
  Delays = {0, 1}
  Uptimes = {}
  OutTimes = {}
  MaxTime = 1
  Windows = FALSE
INVARIANTS ExitMeansClosed
PROPERTIES LoopEndsDrained AcceptedIsHandled QuitEndsLoop

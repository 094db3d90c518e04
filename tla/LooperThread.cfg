SPECIFICATION FairSpec
CONSTANTS
  Clients = {c1, c2, c3}
  NULL = NULL
INVARIANTS LooperReady StartDataLive ThreadOutlived
PROPERTIES CallsReturn

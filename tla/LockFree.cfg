SPECIFICATION FairSpec
CONSTANTS
  Producer = producer
  Consumers = {c1}
  Values = {v1, v2}
  NoValue = NoValue
  NULL = NULL
  Moved = Moved
  InitSize = 2
  MaxNodes = 4
  Attempts = {2}
  MaxItems = 2
INVARIANTS NodesApart
PROPERTIES ImplementsFifo EnqueueReturns

SPECIFICATION Spec
CONSTANTS
  Producer = producer
  Consumers = {c1, c2}
  Values = {v1, v2}
  NoValue = NoValue
  NULL = NULL
  Moved = Moved
  InitSize = 4
  MaxNodes = 4
  Attempts = {1}
  MaxItems = 2
INVARIANT TakenIntact

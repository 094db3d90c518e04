SPECIFICATION FairSpec
CONSTANTS
  Producer = producer
  Consumer = consumer
  Values = {v1, v2}
  NoValue = NoValue
  NULL = NULL
  N = 3
INVARIANTS NoSlotRace
PROPERTIES ImplementsFifo OneSideReturns

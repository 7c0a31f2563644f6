SPECIFICATION FairSpec
CONSTANTS
  Streams <- MCStreams
  InputCapacity = 3
  OutputCapacity = 2
  RequestBudget = 2
  SendSpace = 1
  MaxConnections = 2
INVARIANTS
  ResponsesInOrder
  NoLostWakeup
  RefusedForCause
PROPERTIES
  ImplementsExchange
  EveryRequestAnswered

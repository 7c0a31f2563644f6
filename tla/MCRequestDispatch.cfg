SPECIFICATION Spec
CONSTANTS
  MaxU64 = 119
  Catalogs <- MCCatalogs
  Parameters <- MCParameters
  BadNames <- MCBadNames
  Traffic <- MCTraffic
  Plans <- MCPlans
  FieldLines <- MCFieldLines
  FieldCapacity = 2
  Capacities = {17, 80}
  MaxRequests <- MCMaxRequests
  MaxAppends <- MCMaxAppends
INVARIANTS
  RouteIsFirstMatch
  TraceIsOnion
  FieldsBelongToRequest
PROPERTIES
  RequestIsUnderstood
  ResponseIsFramed
CHECK_DEADLOCK FALSE

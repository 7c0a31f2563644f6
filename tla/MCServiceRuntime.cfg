CONSTANTS
  Calls <- AllCalls
SPECIFICATION Spec
INVARIANTS
  RuntimeStaysValid
  ResolveDuringPrepare
PROPERTIES
  ImplementsOrderedResources

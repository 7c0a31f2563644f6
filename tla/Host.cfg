CONSTANTS
  SlotCount = 2
  EventCapacity = 2
  EventWait = 2
  DrainTimeout = 2
  ClockMax = 3
  MaxBacklog = 1
SPECIFICATION FairSpec
INVARIANTS
  DrainAccounting
  DescriptorsOwned
  HostStaysValid
  WaitRespectsDeadline
PROPERTIES
  DrainFixedOnce
  ImplementsLifecycle
  DrainTerminates
  BacklogServed

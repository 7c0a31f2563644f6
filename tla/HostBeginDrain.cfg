CONSTANTS
  SlotCount = 1
  EventCapacity = 2
  EventWait = 1
  DrainTimeout = 1
  ClockMax = 2
  MaxBacklog = 1
SPECIFICATION Spec
PROPERTIES
  BeginDrainClosesListener

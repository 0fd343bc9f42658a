CONSTANTS
  MaxVersion = 3
  IndexVersion = 2
  DeviceId = {d1, d2}
  NoDevice = NoDevice
  Roll = {r1}
  NoHandle = NoHandle
  NoEvent = NoEvent
  MaxHandles = 4
  MaxFaults = 2
  MaxEvents = 3
  MaxStarts = 2
SPECIFICATION Spec
INVARIANTS TypeOK IndexMeansUnique ReadyIsUsable
PROPERTIES NothingTakenBack NewerFileUntouched NoSecondConnection EventuallyShown
CHECK_DEADLOCK FALSE

SPECIFICATION Spec
CONSTANTS
  Bus = {busA}
  MaxBuffers = 2
  minBeatInterval = 1
  MaxTime = 6
  None = None
INVARIANTS
  FloorPersists

\* Two calls of Reset, one power request of another client, one fault.
SPECIFICATION Spec
CONSTANTS
  r1 = r1
  r2 = r2
  Requests <- MCRequests
  Tries = 2
  MaxUser = 1
  MaxFaults = 1
INVARIANTS
  SuccessClears
  RestoredAtTheEnd
PROPERTIES
  ErasedWhileOff
  EveryCallEnds

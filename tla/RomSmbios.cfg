\* Two sessions of up to two packets; three kinds of failure in a behaviour.
SPECIFICATION Spec
CONSTANTS
  Records <- MCRecords
  Size <- MCSize
  Bad = "bad"
  Blobs <- MCBlobs
  RecordsLimit = 2
  DataLimit = 3
  Buffered = 2
  MaxSessions = 2
  MaxPackets = 2
  MaxFaults = 3
INVARIANTS
  FileComplete
  SessionsApart
  NothingLeftOut
PROPERTIES
  InventoryCatchesUp

\* One signal that waits and one failed call: a first load before the board is
\* known, one that fails, and one that a later signal starts.
SPECIFICATION SegmentSpec
CONSTANTS
  Block = 1024
  AddrSpace = 16384
  NoId = NoId
  Images <- MCImages
  Ids <- MCIds
  WideIds <- MCWideIds
  Channels <- MCChannels
  BusOf <- MCBusOf
  SegmentIds <- MCSegmentIds
  Requests <- MCRequests
  MaxSignals = 1
  MaxFaults = 1
INVARIANTS
  RightBus
  MapWhole
PROPERTIES
  LoadedWhenKnown
  KeepsServing

\* The header comment of EvStorage calls the save atomic; it is not.
SPECIFICATION Spec
CONSTANTS
  n1 = n1
  n2 = n2
  n3 = n3
  long = long
  nil = nil
  d0 = d0
  d1 = d1
  d2 = d2
  d3 = d3
  Names <- MCNames
  LongNames <- MCLongNames
  Cut <- MCCut
  EmptyName = nil
  Requests <- MCRequests
  BmcNames <- MCBmcNames
  Data <- MCData
  Size <- MCSize
  Header = 1
  Overhead = 1
  MaxData = 2
  MaxFile = 6
INVARIANT AtomicSave

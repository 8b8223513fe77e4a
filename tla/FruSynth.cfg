\* The baseboard, one DIMM, and two changes of the inventory.
SPECIFICATION Spec
CONSTANTS
  Board = board
  board = board
  dimm = dimm
  a = a
  b = b
  Cpus = {}
  Dimms = {dimm}
  Texts = {a, b}
  Objects <- MCObjects
  Inventories <- MCInventories
  Properties <- MCProperties
  OldFiles <- MCOldFiles
  None = None
  Torn = Torn
  MaxChanges = 2
  MaxFaults = 1
INVARIANTS
  FilesCurrent
  ViewIsLegible
PROPERTIES
  RemovedOnlyIfGone
  ViewCatchesUp
CHECK_DEADLOCK FALSE

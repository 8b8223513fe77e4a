\* The driver's queue with two slots, two FIFO entries and four packets.
SPECIFICATION Spec
CONSTANTS
  Slots = 2
  Entries <- MCEntries
  SeqNums <- MCSeqNums
  MaxPosts = 4
INVARIANTS
  RingExact
  ReadsAreFifo
PROPERTIES
  DoorbellHeard
  QueuedIsRead

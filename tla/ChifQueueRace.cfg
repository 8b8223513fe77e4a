\* A ring that two packets never fill: what is left is the window in size--.
SPECIFICATION Spec
CONSTANTS
  Slots = 3
  Entries <- MCEntries
  SeqNums <- MCSeqNums
  MaxPosts = 2
PROPERTIES
  QueuedIsAlwaysRead

\* Three requests: one in the hands of the daemon and two on the ring.
SPECIFICATION Spec
CONSTANTS
  Slots = 2
  Descs <- MCDescs
  Lens <- MCLens
  MaxPolls = 2
  MaxPosts = 3
INVARIANTS
  DeliveredAsWritten
PROPERTIES
  OfferInTimeIsUsed
  RequestsAreServed

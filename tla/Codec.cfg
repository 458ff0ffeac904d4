\* Lengths are one of 0..4, and 5..8 count as negative.
SPECIFICATION FairSpec
CONSTANTS
  Base = 3
  NCheapPrepend = 2
  InitialSize = 2
  ExtraSize = 2
  Messages <- MCMessages
  KernelRoom = 2
  Reserves = {1}
  MaxSends = 3
  MaxShrinks = 1
INVARIANTS WellFormed BytesKept
PROPERTIES ImplementsMessageStream AllDelivered
CHECK_DEADLOCK FALSE

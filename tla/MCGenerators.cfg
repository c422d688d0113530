CONSTANTS
  BLOCK = 2
  BPC = 3
  CtrMod = 18
  Lens <- MCLens
  MaxPos = 60
  V = 4
  O = 2
  O_BYTE = 2
  XBLOCK = 2
  Radix = 2
  XDigits = 4
  VDigits = 3
  XMaxLens <- MCXMaxLens
  XLens <- MCXLens
  XLimit = 20
  VLens <- MCVLens
  MaxRequests = 2
SPECIFICATION MCSpec
INVARIANTS TypeOK PositionAgrees BufferFresh LengthKept BlocksFresh SameKey NeededRowsWritten
PROPERTIES StreamSpec ExpanderSpec
CHECK_DEADLOCK FALSE

CONSTANTS
  Keys = {k1, k2}
  NoKey = NoKey
  Data = {0, 1}
  PHashes <- MCPHashes
  UserSalts = {"user salt"}
  NoSalt = NoSalt
  HashSalt <- MCHashSalt
  BLS_SALT_BYTE = 1
  SIG_BYTE = 2
  PK_BYTE = 2
  INPUT_MAX = 4
  Faults = {"cut", "pad", "flip"}
  MaxSigned = 1
SYMMETRY MCSymmetry
SPECIFICATION BothSpec
INVARIANTS LifecycleAgrees Authentic ReadsInBounds PayloadSized RoundTrip ReadersAgree
PROPERTY ChannelSpec

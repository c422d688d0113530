CONSTANTS
  Keys = {k1, k2}
  NoKey = NoKey
  Data = {0, 1}
  PHashes <- MCPHashes
  UserSalts = {"user salt"}
  NoSalt = NoSalt
  HashSalt <- MCHashSalt
  Hash <- MCHash
  SALT_BYTE = 1
  HASH_EFFECTIVE_BYTE = 2
  SIG_BYTE = 2
  PK_BYTE = 2
  Faults = {"cut", "pad", "flip"}
  MaxSigned = 1
  Cells = 10
  NistMsgs <- MCNistMsgs
  MsgPlaces = {0, 1, 2, 6}
  SmPlaces = {1}
  MaxCalls = 3
SPECIFICATION BothSpec
INVARIANT RecoversHash

CONSTANTS
  GF <- MCGF
  GFAdd <- MCAdd
  GFMul <- MCMul
  GFInv <- MCInv
  V = 3
  O = 2
  SALT_BYTE = 1
  MAX_ATTEMPT_VINEGAR = 3
  CtrMod = 3
  Seeds <- MCSeeds
  Messages <- MCMessages
  Digests <- MCDigests
  UserSalts = {"user salt"}
  Vinegars <- MCVinegars
  Hash <- MCHash
  HashSalt <- MCHashSalt
  NoSalt = NoSalt
  None = None
SPECIFICATION Spec
INVARIANT ContextsFreed
CHECK_DEADLOCK FALSE

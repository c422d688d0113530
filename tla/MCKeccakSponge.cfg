CONSTANTS
  RATE = 3
  Ctxs = {c1, c2}
  byte1 = byte1
  byte2 = byte2
  Parts <- MCParts
  OutLens = {0, 1, 2, 3, 4, 6, 7}
  MaxLen = 6
SYMMETRY MCSymmetry
SPECIFICATION Spec
INVARIANTS AbsorbedAgrees
PROPERTY XofSpec

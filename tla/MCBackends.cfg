CONSTANTS
  YMM = 8
  XMM = 4
  U64 = 4
  U32 = 2
  MaxLen = 27
  NV = 4
  Chunk = 2
  BlockRegs = 2
  MatLens <- MCMatLens
  MatCols <- MCMatCols
  FieldA <- MCFieldA
  FieldB <- MCFieldB
  Wide = 4
  Narrow = 2
  Systems <- MCSystems
  EarlyStops <- MCEarlyStops
  Paddings <- MCPaddings
  AesKeys <- MCAesKeys
  AesNonces <- MCAesNonces
  AesCtrs <- MCAesCtrs
  BatchHeights <- MCBatchHeights
  BatchWidths <- MCBatchWidths
  LastRows = 4
  MapV = 3
  MapO = 2
  VecLens <- MCVecLens
  MapInputs <- MCMapInputs
SPECIFICATION Spec
INVARIANTS
  VectorsRight
  VectorReadsInBounds
  ProductRight
  ProductReadsInBounds
  FieldRight
  SolutionRight
  RefusesTheSame
  AesInStep
  BatchRight
  PublicMapRight
CHECK_DEADLOCK FALSE

SPECIFICATION Spec
CONSTANTS
  Spaces = {2, 3, 4, 5, 7, 17}
  Kinds <- MCKinds
  BytesOf <- MCBytesOf
INVARIANTS TypeOK NoOverlap OneChunk NullOnlyWhenSpent

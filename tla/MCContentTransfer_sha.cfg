SPECIFICATION Spec
CONSTANTS
  b0 = b0  b1 = b1
  Bytes = {b0, b1}
  ChunkSize = 2
  Blobs <- MCBlobs
  Foreign <- MCForeign
  Misaddressed = FALSE
  MaxLate = 1
  None = None
  MaxLen = 1
  MaxChunk = 1
INVARIANT HonestNeverMismatch

SPECIFICATION LiveSpec
CONSTANTS
  b0 = b0  b1 = b1
  Bytes = {b0, b1}
  ChunkSize = 2
  Blobs <- MCBlobs
  Foreign <- MCForeign
  Misaddressed = FALSE
  MaxLate = 2
  None = None
  MaxLen = 5
  MaxChunk = 3
INVARIANTS PutStored NoDanglingManifest GetGenuine Blake3NeverMismatch ManifestDescribes ManifestBinds
PROPERTY TransferEnds

SPECIFICATION Spec
CONSTANTS
    Size = 5
    HeaderSize = 1
    ChunkSize = 2
    MaxPiece = 3
    Excess = 1
    Reusing = {TRUE, FALSE}
    BlockLength = 4
    FieldLength = 2
    WordLength = 1
    ByteValues = 16
INVARIANTS
    OnlySignedBytesLeave
    NothingLostInRechunk
    HeldBounded
    DigestIsOfTheBytes

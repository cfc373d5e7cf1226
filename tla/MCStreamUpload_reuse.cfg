SPECIFICATION Spec
CONSTANTS
    Size = 3
    HeaderSize = 1
    ChunkSize = 2
    MaxPiece = 2
    Excess = 1
    Reusing = {TRUE}
    BlockLength = 4
    FieldLength = 2
    WordLength = 1
    ByteValues = 16
INVARIANTS
    HashedAsSent

SPECIFICATION FairSpec
CONSTANTS
    ByteCount = 3
    ChunkConcurrency = 2
    Retries = 1
INVARIANTS
    FinalizeOnlyComplete
    NothingRunsAfterSettle
    InFlightBounded
PROPERTIES
    FirstErrorWins
    FailureStopsSending
    ImplementsPromise
    Settles

SPECIFICATION FairUploadSpec
CONSTANTS
    Retries = 3
    OkStatuses = {"200"}
    RetryStatuses = {"503"}
    AllowedStatuses = {}
    PaymentStatuses = {"402"}
    OtherStatuses = {"400"}
    Bodies = {"expectedId", "otherId", "noId", "limit"}
    Sizes = {3, 4, 5}
    Limits = {3, 5}
    ChunkSize = 2
INVARIANTS
    NoTimerLeft
    RetriesAreExact
    ChargedOneWayOnly
PROPERTIES
    UploadAbortSettles
    UploadImplementsPromise
    UploadSettlesIfBodiesEnd

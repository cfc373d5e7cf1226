SPECIFICATION FairSpec
CONSTANTS
    Retries = 3
    Cap = 2
    MaxOffers = 2
    Offers <- MCOffers
    Options <- MCOptions
    MaxTagBytes = 16
    Reserve = 4
    MaxBodyBytes = 40
INVARIANTS
    PaysOnlyTheTerms
    SubmittedOnce
    NothingPaidIsTrue
    FailureWarns
    EnvelopeIsWhole
PROPERTIES
    ImplementsPromise
    Settles

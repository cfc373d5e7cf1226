SPECIFICATION FairSpec
CONSTANTS
    c1 = c1
    c2 = c2
    Calls <- MCCalls
    Retries = 1
    Addresses = 1
    Arguments <- MCArguments
    Deterministic = TRUE
    Instants = {1, 2}
INVARIANTS
    AnswersAreCurrent
    StatusIsTrue
    SharesAreDistinct
PROPERTIES
    PaymentsSettle

SPECIFICATION WalletFairSpec
CONSTANTS
    Calls = {c1, c2, c3}
    Keys = {"mine", "other"}
    Address = "mine"
    Unknown = "unknown"
    Garbage = "garbage"
INVARIANTS
    SignedItemsVerify
    OneConnectPrompt
    FailsOnlyWhenAsked
PROPERTIES
    CallsSettle
\* The calls end; CallsSettle says that none stops before it has settled.
CHECK_DEADLOCK FALSE

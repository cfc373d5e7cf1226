SPECIFICATION Spec
CONSTANTS
    SigConfig <- MCSigConfig
    FieldLength = 2
    LongLength = 2
    MaxTagBytes = 72
    ShortString = 6
    MinBinarySize = 5
    Options <- MCOptions
    Plain <- MCPlain
    Regions <- MCRegions
INVARIANTS
    CreatedIsAccepted
    AcceptedSaysOneThing
    AgreesWithReference
PROPERTIES
    CheckAdvances

SPECIFICATION Spec
CONSTANTS
    KeyLength = 2
    ModulusLength = 2
    PublicKeyOf <- MCPublicKeyOf
    Stranger <- MCStranger
    Options <- MCOptions
    Transfers <- MCTransfers
INVARIANTS
    ClientIsItsKey
    SignedItemVerifies
    AcceptedIsTheOriginal
\* A client that was refused, a call that failed and two verdicts are the end.
CHECK_DEADLOCK FALSE

SPECIFICATION Spec
CONSTANTS
    Retries = 1
    OkStatuses = {"200"}
    RetryStatuses = {"503"}
    AllowedStatuses = {}
    PaymentStatuses = {"402"}
    OtherStatuses = {"400"}
    Bodies = {"expectedId", "otherId"}
INVARIANTS
    ResolvedIsVerified

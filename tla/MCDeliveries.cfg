\* Competing passes, replies, settled events and the review loop.
CONSTANTS
    d1 = d1
    d2 = d2
    Nobody = Nobody
    Drivers = {d1, d2}
    Scouts = {"scout"}
    MaxRounds = 1
    MaxAsg = 3
    MaxOut = 7
    MaxAttempts = 2
    Lease = 1
    RetryBackoff = 1
    PendingBackoff = 1
    TimeBudget = 1
    MaxPass = 2
    MaxGen = 2
    Commands <- BothTasks
    Replaceable = {"scout"}
    Responsive = {}
    Noticed = {}
    MaxSeq = 1
    MaxCrashes = 1
SPECIFICATION Spec
SYMMETRY DriverSymmetry
INVARIANTS
    TypeOK
    DeliveryExclusive
    StartedWasPrompted
    DeliveryMatchesState
PROPERTIES
    ClaimsEndByRight
    ReducerSpec
CONSTRAINT
    InRegion
CHECK_DEADLOCK FALSE

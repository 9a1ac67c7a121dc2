\* One driver process that may die, two rows of different roles: who is served,
\* and what becomes of a claim whose pass is slow, dies or is refused.
CONSTANTS
    d1 = d1
    d2 = d2
    Nobody = Nobody
    Drivers = {d1}
    Scouts = {}
    MaxRounds = 1
    MaxAsg = 1
    MaxOut = 2
    MaxAttempts = 2
    Lease = 1
    RetryBackoff = 1
    PendingBackoff = 1
    TimeBudget = 1
    MaxPass = 2
    MaxGen = 2
    Commands <- WorkerTasks
    Replaceable = {"worker"}
    Responsive = {"reviewer"}
    Noticed = {"reviewer"}
    MaxSeq = 0
    MaxCrashes = 1
SPECIFICATION ProviderSpec
PROPERTIES
    RowsAreServed
    ClaimsAreReleased
CHECK_DEADLOCK FALSE

\* A settled event blocks an assignment before the PM ever had a generation.
CONSTANTS
    d1 = d1
    d2 = d2
    Nobody = Nobody
    Drivers = {d1}
    Scouts = {"scout"}
    MaxRounds = 1
    MaxAsg = 1
    MaxOut = 3
    MaxAttempts = 2
    Lease = 1
    RetryBackoff = 1
    PendingBackoff = 1
    TimeBudget = 1
    MaxPass = 2
    MaxGen = 2
    Commands <- ScoutTasks
    Replaceable = {"scout"}
    Responsive = {}
    Noticed = {}
    MaxSeq = 1
    MaxCrashes = 0
SPECIFICATION Spec
INVARIANT PendingRowsHaveGeneration
CHECK_DEADLOCK FALSE

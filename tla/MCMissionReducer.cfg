CONSTANTS
    Scouts = {"scout"}
    MaxRounds = 2
    MaxAsg = 6
SPECIFICATION Spec
INVARIANTS
    OneActivePerRole
    OneOpenPerChain
    RoundsAreComplete
    StateMatchesLedger
    ClosedChainHasVerdict
PROPERTY TerminalIsFinal
CHECK_DEADLOCK FALSE

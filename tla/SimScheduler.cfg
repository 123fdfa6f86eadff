CONSTANTS
    Delay = {0, 1, 2}
    Until = {1, 2}
    MaxTimers = 3
    MaxDepth = 2
SPECIFICATION Spec
INVARIANTS
    RunsInOrder
    NothingOverdueOrLost
    OneOutcome
    Inv
PROPERTIES
    ClockNeverRunsBack
    ImplementsTimers

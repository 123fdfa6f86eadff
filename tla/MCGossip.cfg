SPECIFICATION GossipFairSpec
CONSTANTS
    Node = {1, 2, 3}
    Write = {w1}
    NumPeers = 2
    NumRounds = {1, 2}
    Losses <- JustEnough
CONSTRAINT PutAtOne
ACTION_CONSTRAINTS
    OnlyNewsIsLost
    IdleRoundsFirst
CHECK_DEADLOCK FALSE
INVARIANT MissedMeansLost
PROPERTIES
    
    EveryPutApplied

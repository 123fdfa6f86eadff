SPECIFICATION CausalSpec
CONSTANTS
    Node = {1, 2, 3}
    Write = {"a", "b"}
CONSTRAINT InOrderOrAnyOrder
ACTION_CONSTRAINT ThreeIsPrompt
CHECK_DEADLOCK FALSE
INVARIANTS
    Inv
    AppliedIsClosed
    SettledMeansApplied
    CausalOrder
PROPERTIES
    HandlersFollowTheCode
    ImplementsBroadcast
